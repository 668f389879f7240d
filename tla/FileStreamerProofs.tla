-------------------------- MODULE FileStreamerProofs --------------------------
(***************************************************************************)
(* Theorems about FileStreamer and Listing, for any files, ranges, memory  *)
(* limits, credentials, keys and page sizes, and any number of sessions    *)
(* and streams.                                                            *)
(***************************************************************************)
EXTENDS FileStreamer, SequenceTheorems, FiniteSetTheorems,
        WellFoundedInduction, TLAPS

-----------------------------------------------------------------------------
(* The inductive invariant *)

Active == gen \in {"ready", "suspended", "running", "draining"}
Reading == gen \in {"ready", "suspended", "running"}
Going == Active \/ gen \in {"leaving", "left"}

Part == [file : Nat, first : Nat, last : Nat]

(* The ranges of the active submission. *)
Ranges == SubmitRequest(request, submission, streams)
Answered == {rsp.range : rsp \in responses}
ChunkOf(r) == <<r.path, chunkIndex[r.path] + r.index - 1>>
View(r) == [chunk |-> ChunkOf(r), start |-> r.dst, size |-> r.size]
Yielded == {r \in Ranges : count[ChunkOf(r)] = 1}

(* What has the bytes of a range. *)
Filled(r) ==
  \A k \in 0 .. r.size - 1 : buffer[r.dst + k] = <<r.path, r.offset + k>>

(* What a session can be asked for. *)
Asked == (UNION {s.given : s \in Setups}) \cup {NoCreds}

TypeOK ==
  /\ setup \in Setups
  /\ streamer \in BOOLEAN /\ cut \in BOOLEAN
  /\ asked \in Seq(Asked)
  /\ streams \in Nat /\ queue \in Nat \ {0}
  /\ submission \in Nat /\ consumed \in Nat
  /\ gen \in {"none", "ready", "suspended", "running", "draining", "leaving",
              "left", "over", "closed", "raised"}

ListTypeOK ==
  /\ objects \subseteq KeySet /\ after \subseteq KeySet
  /\ touched \subseteq KeySet
  /\ results \in [KeySet -> Nat]

(* What a listing has found, and what is still to come: in the order of    *)
(* the keys, except for a file system.                                     *)
Pages ==
  /\ stage = "idle" =>
       after = {} /\ touched = {} /\ \A k \in KeySet : results[k] = 0
  /\ stage \in {"listing", "listed"} =>
       \A k \in KeySet :
         results[k] = IF k \in after /\ ~Keys[k].marker THEN 1 ELSE 0
  /\ \A k \in after : Wanted(k) /\ k \in objects \cup touched
  /\ stage = "listing" /\ scheme # "fs" =>
       \A k \in objects \ (after \cup touched) :
         Wanted(k) => \A a \in after : a < k
  /\ stage = "listed" =>
       \A k \in objects \ touched : Wanted(k) => k \in after

(* The request is what is between two positions in each file, and fits in  *)
(* the buffer.                                                             *)
RequestIsCut ==
  /\ request \in Seq(Part)
  /\ chunkIndex \in [FileSet -> Nat] /\ next \in [FileSet -> Nat]
  /\ \A i \in DOMAIN request :
       LET p == request[i]
       IN  /\ p.file \in FileSet
           /\ p.first = chunkIndex[p.file] /\ p.last = next[p.file]
           /\ p.first < p.last
           /\ \A j \in DOMAIN request : request[j].file = p.file => j = i
  /\ \A f \in FileSet :
       /\ chunkIndex[f] <= next[f] /\ next[f] <= Len(Files[f].sizes)
       /\ chunkIndex[f] < next[f] =>
            \E i \in DOMAIN request : request[i].file = f
       /\ f < queue => next[f] = Len(Files[f].sizes)
  /\ SumSeq(FlatSizes(request)) <= MemoryLimit
  /\ ~LimitTooSmall
  /\ DOMAIN buffer = 0 .. MemoryLimit - 1

CountIsOne == \A c \in DOMAIN count : count[c] \in {0, 1}

(* What was yielded: everything before the request, and of the request as  *)
(* much as was consumed.                                                   *)
CountIsExact ==
  /\ DOMAIN count = Chunks
  /\ Cardinality(Yielded) = consumed
  /\ \A c \in Chunks :
       /\ c[2] < chunkIndex[c[1]] => count[c] = 1
       /\ c[2] >= next[c[1]] => count[c] = 0

(* Every range of the submission is in flight, answered or consumed. *)
NothingIsLost ==
  /\ inflight \subseteq Ranges /\ Answered \subseteq Ranges
  /\ IsFiniteSet(inflight) /\ IsFiniteSet(responses)
  /\ inflight \cap Answered = {}
  /\ \A r, s \in responses : r.range = s.range => r = s
  /\ Cardinality(inflight) + Cardinality(responses) + consumed = Owed
  /\ \A r \in inflight \cup Answered : count[ChunkOf(r)] = 0
  /\ \A rsp \in responses : rsp.ret = "Success" => Filled(rsp.range)

(* The chunks that were yielded have their bytes. *)
ChunksHold ==
  \A v \in views :
    LET f == v.chunk[1]
        i == v.chunk[2] + 1
    IN  /\ v.size = Files[f].sizes[i]
        /\ \A k \in 0 .. v.size - 1 :
             buffer[v.start + k] = <<f, Files[f].offsets[i] + k>>

(* A chunk that was yielded is a range that is no longer owed. *)
ViewsAreYielded == \A v \in views : \E r \in Yielded : v = View(r)

(* Nothing writes once nobody waits for it. *)
Quiet ==
  /\ ~streamer \/ ~(Active \/ gen = "raised") =>
       inflight = {} /\ responses = {}
  /\ gen = "raised" => inflight = {} \/ views = {}
  /\ Active \/ inflight # {} => streams > 0
  /\ \A r \in inflight : r.path \in FileSet
  /\ gen \notin {"leaving", "left"}

(* A session in which no response was None. *)
Streaming ==
  /\ CountIsOne
  /\ Quiet
  /\ ChunksHold
  /\ Active => RequestIsCut /\ ViewsAreYielded
  /\ Reading => CountIsExact
  /\ Active /\ streamer => NothingIsLost
  /\ gen = "over" => \A c \in DOMAIN count : count[c] = 1

(* What holds after a None too: a response is of a range that was not      *)
(* yielded, or of an earlier submission.                                   *)
Once ==
  /\ CountIsOne
  /\ ~streamer \/ streams = 0 => inflight = {} /\ responses = {}
  /\ \A r, s \in responses : r.range = s.range => r = s
  /\ inflight \cap Answered = {}
  /\ \A r \in inflight \cup Answered :
       /\ r.sub \in Nat
       /\ gen # "raised" => r.sub <= submission
  /\ Going =>
       /\ RequestIsCut /\ DOMAIN count = Chunks /\ streams > 0
       /\ \A c \in Chunks : c[2] >= next[c[1]] => count[c] = 0
       /\ \A r \in inflight \cup Answered :
            r.sub = submission => r \in Ranges /\ count[ChunkOf(r)] = 0

(* The C++ streamer has what is in force, and the session what its first   *)
(* use of S3 has resolved.                                                 *)
Credentialed ==
  streamer =>
    /\ credentialed \in {"none", "context"}
    /\ credentialed = "context" <=> InForce # NoCreds
    /\ applied = InForce
    /\ session <=> (setup.boto # "off" /\ asked # <<>>)
    /\ session => creds = InForce

ListInv == ListTypeOK /\ Pages /\ ListingIsExact

IInv == TypeOK /\ ListInv /\ Once /\ (~cut => Streaming) /\ Credentialed

-----------------------------------------------------------------------------
(* Induction and sums *)

(* A set of natural numbers without its least element is empty: induction, *)
(* with a set instead of a predicate.                                      *)
LEMMA Induction ==
  ASSUME NEW S, 0 \in S, \A n \in Nat : n \in S => n + 1 \in S
  PROVE  Nat \subseteq S
<1> SUFFICES ASSUME Nat \ S # {}
             PROVE  FALSE
  OBVIOUS
<1>1. PICK x \in Nat \ S : \A y \in Nat \ S : ~(<<y, x>> \in OpToRel(<, Nat))
  <2>1. \E x \in Nat \ S : \A y \in Nat \ S : ~(<<y, x>> \in OpToRel(<, Nat))
    BY NatLessThanWellFounded, WFMin, Zenon
  <2> QED
    BY <2>1
<1>2. x # 0 /\ x - 1 \in Nat /\ x - 1 \notin S
  <2>1. x \in Nat /\ x \notin S /\ x # 0
    BY <1>1
  <2>2. x - 1 \in Nat /\ (x - 1) + 1 = x
    BY <2>1
  <2> QED
    BY <2>1, <2>2
<1>3. <<x - 1, x>> \in OpToRel(<, Nat)
  BY <1>2 DEF OpToRel
<1> QED
  BY <1>1, <1>2, <1>3

Numbers(seq) ==
  /\ Len(seq) \in Nat
  /\ \A n \in 1 .. Len(seq) : seq[n] \in Nat

(* The recursion of SumTo defines a function. *)
LEMMA SumIsDefined ==
  ASSUME NEW seq, Numbers(seq)
  PROVE  SumTo(seq) = [n \in 0 .. Len(seq) |->
           IF n = 0 THEN 0 ELSE SumTo(seq)[n - 1] + seq[n]]
<1> USE DEF Numbers
<1> DEFINE Rec(g, m) ==
      g = [n \in 0 .. m |-> IF n = 0 THEN 0 ELSE g[n - 1] + seq[n]]
    S == {m \in Nat : m <= Len(seq) => \E g : Rec(g, m)}
<1>1. 0 \in S
  <2>1. Rec([n \in 0 .. 0 |-> 0], 0)
    OBVIOUS
  <2> QED
    BY <2>1
<1>2. ASSUME NEW m \in Nat, m \in S
      PROVE  m + 1 \in S
  <2> SUFFICES ASSUME m + 1 <= Len(seq)
               PROVE  \E g : Rec(g, m + 1)
    OBVIOUS
  <2>1. PICK g : Rec(g, m)
    BY <1>2
  <2> DEFINE h == [n \in 0 .. m + 1 |->
                     IF n = 0 THEN 0 ELSE g[n - 1] + seq[n]]
  <2>2. ASSUME NEW n \in 0 .. m
        PROVE  h[n] = g[n]
    BY <2>1
  <2>3. \A n \in 0 .. m + 1 : n # 0 => h[n - 1] = g[n - 1]
    <3> SUFFICES ASSUME NEW n \in 0 .. m + 1, n # 0
                 PROVE  h[n - 1] = g[n - 1]
      OBVIOUS
    <3>1. n - 1 \in 0 .. m
      OBVIOUS
    <3> QED
      BY <2>2, <3>1
  <2>4. h = [n \in 0 .. m + 1 |->
               IF n = 0 THEN 0 ELSE h[n - 1] + seq[n]]
    BY <2>3
  <2> QED
    BY <2>4
<1>3. Nat \subseteq S
  BY <1>1, <1>2, Induction
<1>4. \E g : Rec(g, Len(seq))
  BY <1>3
<1> QED
  BY <1>4 DEF SumTo

(* A running total starts at zero and grows by each number. *)
LEMMA SumSteps ==
  ASSUME NEW seq, Numbers(seq)
  PROVE  /\ SumTo(seq)[0] = 0
         /\ \A n \in 1 .. Len(seq) :
              SumTo(seq)[n] = SumTo(seq)[n - 1] + seq[n]
         /\ \A n \in 0 .. Len(seq) : SumTo(seq)[n] \in Nat
<1> USE DEF Numbers
<1> DEFINE f == SumTo(seq)
<1>1. f = [n \in 0 .. Len(seq) |->
             IF n = 0 THEN 0 ELSE f[n - 1] + seq[n]]
  BY SumIsDefined
<1> HIDE DEF f
<1>2. f[0] = 0 /\ \A n \in 1 .. Len(seq) : f[n] = f[n - 1] + seq[n]
  BY <1>1
<1> DEFINE S == {n \in Nat : n <= Len(seq) => f[n] \in Nat}
<1>3. 0 \in S
  BY <1>2
<1>4. ASSUME NEW n \in Nat, n \in S
      PROVE  n + 1 \in S
  <2> SUFFICES ASSUME n + 1 <= Len(seq)
               PROVE  f[n + 1] \in Nat
    OBVIOUS
  <2>1. f[n] \in Nat
    BY <1>4
  <2>2. n + 1 \in 1 .. Len(seq) /\ (n + 1) - 1 = n
    OBVIOUS
  <2>3. f[n + 1] = f[n] + seq[n + 1]
    BY <1>2, <2>2
  <2> QED
    BY <2>1, <2>2, <2>3
<1>5. Nat \subseteq S
  BY <1>3, <1>4, Induction
<1>6. \A n \in 0 .. Len(seq) : f[n] \in Nat
  BY <1>5
<1> QED
  BY <1>2, <1>6 DEF f

(* A running total never shrinks. *)
LEMMA SumGrows ==
  ASSUME NEW seq, Numbers(seq),
         NEW m \in 0 .. Len(seq), NEW n \in 0 .. Len(seq), m <= n
  PROVE  SumTo(seq)[m] <= SumTo(seq)[n]
<1> USE DEF Numbers
<1> DEFINE f == SumTo(seq)
<1>1. /\ \A k \in 1 .. Len(seq) : f[k] = f[k - 1] + seq[k]
      /\ \A k \in 0 .. Len(seq) : f[k] \in Nat
  BY SumSteps
<1> HIDE DEF f
<1> DEFINE S == {k \in Nat : m + k <= Len(seq) => f[m] <= f[m + k]}
<1>2. 0 \in S
  BY <1>1
<1>3. ASSUME NEW k \in Nat, k \in S
      PROVE  k + 1 \in S
  <2> SUFFICES ASSUME m + (k + 1) <= Len(seq)
               PROVE  f[m] <= f[m + (k + 1)]
    OBVIOUS
  <2>1. f[m] <= f[m + k]
    BY <1>3
  <2>2. /\ m + (k + 1) \in 1 .. Len(seq)
        /\ (m + (k + 1)) - 1 = m + k
        /\ m + k \in 0 .. Len(seq)
    OBVIOUS
  <2>3. f[m + (k + 1)] = f[m + k] + seq[m + (k + 1)]
    BY <1>1, <2>2
  <2> QED
    BY <1>1, <2>1, <2>2, <2>3
<1>4. Nat \subseteq S
  BY <1>2, <1>3, Induction
<1>5. n - m \in Nat /\ m + (n - m) = n
  OBVIOUS
<1>6. n - m \in S
  BY <1>4, <1>5
<1>7. f[m] <= f[n]
  BY <1>5, <1>6
<1> QED
  BY <1>7 DEF f

(* Each number is at most the sum. *)
LEMMA SumBounds ==
  ASSUME NEW seq, Numbers(seq), NEW n \in 1 .. Len(seq)
  PROVE  seq[n] <= SumSeq(seq) /\ SumSeq(seq) \in Nat
<1> USE DEF Numbers
<1>1. n - 1 \in 0 .. Len(seq) /\ n \in 0 .. Len(seq) /\ Len(seq) \in 0 .. Len(seq)
  OBVIOUS
<1>2. SumTo(seq)[n] <= SumTo(seq)[Len(seq)]
  BY <1>1, SumGrows
<1>3. SumTo(seq)[n] = SumTo(seq)[n - 1] + seq[n]
  BY SumSteps
<1>4. \A i \in 0 .. Len(seq) : SumTo(seq)[i] \in Nat
  BY SumSteps
<1>5. /\ SumTo(seq)[n] \in Nat /\ SumTo(seq)[n - 1] \in Nat
      /\ SumTo(seq)[Len(seq)] \in Nat
  BY <1>1, <1>4
<1> QED
  BY <1>2, <1>3, <1>5 DEF SumSeq

(* The sum of a sequence of which one number only is not zero. *)
LEMMA SumOfOne ==
  ASSUME NEW seq, Numbers(seq), NEW i \in 1 .. Len(seq),
         \A n \in 1 .. Len(seq) : n # i => seq[n] = 0
  PROVE  SumSeq(seq) = seq[i]
<1> USE DEF Numbers
<1> DEFINE f == SumTo(seq)
<1>1. /\ f[0] = 0
      /\ \A n \in 1 .. Len(seq) : f[n] = f[n - 1] + seq[n]
  BY SumSteps
<1> HIDE DEF f
<1> DEFINE S == {n \in Nat : n <= Len(seq) =>
                               f[n] = IF n < i THEN 0 ELSE seq[i]}
<1>2. 0 \in S
  BY <1>1
<1>3. ASSUME NEW n \in Nat, n \in S
      PROVE  n + 1 \in S
  <2> SUFFICES ASSUME n + 1 <= Len(seq)
               PROVE  f[n + 1] = IF n + 1 < i THEN 0 ELSE seq[i]
    OBVIOUS
  <2>1. f[n] = IF n < i THEN 0 ELSE seq[i]
    BY <1>3
  <2>2. n + 1 \in 1 .. Len(seq) /\ (n + 1) - 1 = n
    OBVIOUS
  <2>3. f[n + 1] = f[n] + seq[n + 1]
    BY <1>1, <2>2
  <2>4. n + 1 # i => seq[n + 1] = 0
    BY <2>2
  <2> QED
    BY <2>1, <2>3, <2>4
<1>4. Nat \subseteq S
  BY <1>2, <1>3, Induction
<1>5. f[Len(seq)] = seq[i]
  BY <1>4
<1> QED
  BY <1>5 DEF SumSeq, f

(* The sum of zeros. *)
LEMMA SumOfNone ==
  ASSUME NEW seq, Numbers(seq), \A n \in 1 .. Len(seq) : seq[n] = 0
  PROVE  SumSeq(seq) = 0
<1> USE DEF Numbers
<1> DEFINE f == SumTo(seq)
<1>1. /\ f[0] = 0
      /\ \A n \in 1 .. Len(seq) : f[n] = f[n - 1] + seq[n]
  BY SumSteps
<1> HIDE DEF f
<1> DEFINE S == {n \in Nat : n <= Len(seq) => f[n] = 0}
<1>2. 0 \in S
  BY <1>1
<1>3. ASSUME NEW n \in Nat, n \in S
      PROVE  n + 1 \in S
  <2> SUFFICES ASSUME n + 1 <= Len(seq)
               PROVE  f[n + 1] = 0
    OBVIOUS
  <2>1. n + 1 \in 1 .. Len(seq) /\ (n + 1) - 1 = n
    OBVIOUS
  <2> QED
    BY <1>1, <1>3, <2>1
<1>4. Nat \subseteq S
  BY <1>2, <1>3, Induction
<1>5. f[Len(seq)] = 0
  BY <1>4
<1> QED
  BY <1>5 DEF SumSeq, f

(* A set of numbers with a bound has a greatest element. *)
LEMMA MaxExists ==
  ASSUME NEW S \in SUBSET Nat, S # {}, NEW b \in Nat, \A n \in S : n <= b
  PROVE  SetMax(S) \in S /\ \A n \in S : n <= SetMax(S)
<1> DEFINE V == {d \in Nat : (\E n \in S : b - d <= n) =>
                               \E m \in S : \A n \in S : n <= m}
<1>1. 0 \in V
  BY SMT
<1>2. ASSUME NEW d \in Nat, d \in V
      PROVE  d + 1 \in V
  <2>1. CASE \E n \in S : b - d <= n
    BY <1>2, <2>1
  <2>2. CASE \A n \in S : n < b - d
    <3> SUFFICES ASSUME NEW m \in S, b - (d + 1) <= m
                 PROVE  \E k \in S : \A n \in S : n <= k
      OBVIOUS
    <3>1. \A n \in S : n <= m
      BY <2>2
    <3> QED
      BY <3>1
  <2> QED
    BY <2>1, <2>2
<1>3. Nat \subseteq V
  BY <1>1, <1>2, Induction
<1>4. b \in V
  BY <1>3
<1>5. \E n \in S : b - b <= n
  <2>1. PICK n \in S : TRUE
    OBVIOUS
  <2>2. b - b <= n
    BY SMT
  <2> QED
    BY <2>2
<1>6. \E m \in S : \A n \in S : n <= m
  BY <1>4, <1>5
<1> QED
  BY <1>6 DEF SetMax

-----------------------------------------------------------------------------
(* The flat arrays of a request *)

(* Parts with a number of ranges each. *)
Counted(parts) ==
  /\ Len(parts) \in Nat /\ DOMAIN parts = 1 .. Len(parts)
  /\ \A i \in 1 .. Len(parts) : parts[i].last - parts[i].first \in Nat

(* The counts of a request are a sequence of numbers. *)
LEMMA CountsAreNumbers ==
  ASSUME NEW parts, Counted(parts)
  PROVE  /\ Numbers(NumRanges(parts))
         /\ Len(NumRanges(parts)) = Len(parts)
         /\ \A i \in 1 .. Len(parts) :
              NumRanges(parts)[i] = parts[i].last - parts[i].first
<1> DEFINE e(i) == parts[i].last - parts[i].first
<1>1. /\ Len(parts) \in Nat
      /\ \A i \in 1 .. Len(parts) : e(i) \in Nat
      /\ NumRanges(parts) = [i \in 1 .. Len(parts) |-> e(i)]
  BY DEF Counted, NumRanges
<1> HIDE DEF e
<1>2. [i \in 1 .. Len(parts) |-> e(i)] \in Seq(Nat)
  BY <1>1, IsASeq
<1>3. NumRanges(parts) \in Seq(Nat)
  BY <1>1, <1>2
<1>4. /\ Len(NumRanges(parts)) \in Nat
      /\ DOMAIN NumRanges(parts) = 1 .. Len(NumRanges(parts))
  BY <1>3, LenProperties
<1>5. DOMAIN NumRanges(parts) = 1 .. Len(parts)
  BY <1>1
<1>6. Len(NumRanges(parts)) = Len(parts)
  BY <1>1, <1>4, <1>5
<1>7. \A i \in 1 .. Len(parts) : NumRanges(parts)[i] = e(i)
  BY <1>1
<1> QED
  BY <1>1, <1>6, <1>7 DEF Numbers, e

(* The recursion of Flat defines a function. *)
LEMMA FlatIsDefined ==
  ASSUME NEW parts, Counted(parts)
  PROVE  Flat(parts) = [i \in 0 .. Len(parts) |->
           IF i = 0 THEN <<>>
           ELSE Flat(parts)[i - 1] \o
                  [j \in 1 .. NumRanges(parts)[i] |-> <<i, j>>]]
<1>1. Len(parts) \in Nat
  BY DEF Counted
<1> DEFINE row == [i \in 0 .. Len(parts) |->
                    [j \in 1 .. NumRanges(parts)[i] |-> <<i, j>>]]
<1> HIDE DEF row
<1> DEFINE
    Rec(g, m) ==
      g = [i \in 0 .. m |-> IF i = 0 THEN <<>> ELSE g[i - 1] \o row[i]]
<1> HIDE DEF Rec
<1> DEFINE S == {m \in Nat : m <= Len(parts) => \E g : Rec(g, m)}
<1>2. 0 \in S
  <2>1. Rec([i \in 0 .. 0 |-> <<>>], 0)
    BY DEF Rec
  <2> QED
    BY <2>1
<1>3. ASSUME NEW m \in Nat, m \in S
      PROVE  m + 1 \in S
  <2> SUFFICES ASSUME m + 1 <= Len(parts)
               PROVE  \E g : Rec(g, m + 1)
    OBVIOUS
  <2>1. PICK g : Rec(g, m)
    BY <1>1, <1>3
  <2> DEFINE h == [i \in 0 .. m + 1 |->
                     IF i = 0 THEN <<>> ELSE g[i - 1] \o row[i]]
  <2>2. ASSUME NEW i \in 0 .. m
        PROVE  h[i] = g[i]
    BY <2>1 DEF Rec
  <2>3. \A i \in 0 .. m + 1 : i # 0 => h[i - 1] = g[i - 1]
    <3> SUFFICES ASSUME NEW i \in 0 .. m + 1, i # 0
                 PROVE  h[i - 1] = g[i - 1]
      OBVIOUS
    <3>1. i - 1 \in 0 .. m
      OBVIOUS
    <3> QED
      BY <2>2, <3>1
  <2>4. h = [i \in 0 .. m + 1 |->
               IF i = 0 THEN <<>> ELSE h[i - 1] \o row[i]]
    BY <2>3
  <2> HIDE DEF h
  <2>5. Rec(h, m + 1)
    BY <2>4 DEF Rec
  <2> QED
    BY <2>5
<1>4. Nat \subseteq S
  BY <1>2, <1>3, Induction
<1>5. \E g : Rec(g, Len(parts))
  BY <1>1, <1>4
<1>6. Flat(parts) = CHOOSE g : Rec(g, Len(parts))
  BY DEF Flat, row, Rec
<1>7. Rec(Flat(parts), Len(parts))
  BY <1>5, <1>6
<1> QED
  BY <1>7 DEF Rec, row

(* Row by row: Flat has the pairs of the first i parts. *)
LEMMA FlatSteps ==
  ASSUME NEW parts, Counted(parts)
  PROVE  /\ Flat(parts)[0] = <<>>
         /\ \A i \in 1 .. Len(parts) :
              Flat(parts)[i] = Flat(parts)[i - 1] \o
                                 [j \in 1 .. NumRanges(parts)[i] |-> <<i, j>>]
<1> DEFINE row == [i \in 0 .. Len(parts) |->
                    [j \in 1 .. NumRanges(parts)[i] |-> <<i, j>>]]
           f == Flat(parts)
<1> HIDE DEF row
<1>1. f = [i \in 0 .. Len(parts) |->
             IF i = 0 THEN <<>> ELSE f[i - 1] \o row[i]]
  BY FlatIsDefined DEF row
<1>2. Len(parts) \in Nat
  BY DEF Counted
<1> HIDE DEF f
<1>3. f[0] = <<>> /\ \A i \in 1 .. Len(parts) : f[i] = f[i - 1] \o row[i]
  BY <1>1, <1>2
<1>4. \A i \in 1 .. Len(parts) :
        row[i] = [j \in 1 .. NumRanges(parts)[i] |-> <<i, j>>]
  BY <1>2 DEF row
<1>5. \A i \in 1 .. Len(parts) :
        f[i] = f[i - 1] \o [j \in 1 .. NumRanges(parts)[i] |-> <<i, j>>]
  BY <1>3, <1>4
<1> QED
  BY <1>3, <1>5 DEF f

(* A row is a sequence of pairs. *)
LEMMA RowFacts ==
  ASSUME NEW i \in Nat, NEW m \in Nat, NEW row,
         row = [j \in 1 .. m |-> <<i, j>>]
  PROVE  /\ row \in Seq(Nat \X Nat)
         /\ Len(row) = m
         /\ \A j \in 1 .. m : row[j] = <<i, j>>
<1> DEFINE e(j) == <<i, j>>
<1>1. \A j \in 1 .. m : e(j) \in Nat \X Nat
  OBVIOUS
<1>2. row = [j \in 1 .. m |-> e(j)]
  OBVIOUS
<1> HIDE DEF e
<1>3. [j \in 1 .. m |-> e(j)] \in Seq(Nat \X Nat)
  BY <1>1, IsASeq
<1>4. row \in Seq(Nat \X Nat)
  BY <1>2, <1>3
<1>5. Len(row) \in Nat /\ DOMAIN row = 1 .. Len(row)
  BY <1>4, LenProperties
<1>6. DOMAIN row = 1 .. m
  BY <1>2
<1>7. Len(row) = m
  BY <1>5, <1>6
<1>8. \A j \in 1 .. m : row[j] = e(j)
  BY <1>2
<1> QED
  BY <1>4, <1>7, <1>8 DEF e

(* The flat position of range j of part i is the file's base plus j, and   *)
(* every flat position is that of one range.                               *)
Placed(parts, i) ==
  LET num == NumRanges(parts)
      flat == Flat(parts)[i]
  IN  /\ flat \in Seq(Nat \X Nat)
      /\ Len(flat) = SumTo(num)[i]
      /\ \A h \in 1 .. i : \A j \in 1 .. num[h] :
           /\ SumTo(num)[h - 1] + j \in 1 .. Len(flat)
           /\ flat[SumTo(num)[h - 1] + j] = <<h, j>>
      /\ \A k \in 1 .. Len(flat) :
           \E h \in 1 .. i : \E j \in 1 .. num[h] :
             k = SumTo(num)[h - 1] + j /\ flat[k] = <<h, j>>

(* One more part is placed. *)
LEMMA PlacedStep ==
  ASSUME NEW parts, Counted(parts), NEW i \in Nat, i + 1 <= Len(parts),
         Placed(parts, i)
  PROVE  Placed(parts, i + 1)
<1> DEFINE num == NumRanges(parts)
           sum == SumTo(num)
<1>1. Numbers(num) /\ Len(num) = Len(parts) /\ Len(parts) \in Nat
  BY CountsAreNumbers DEF Counted
<1>2. /\ i \in 0 .. Len(num) /\ i + 1 \in 1 .. Len(num)
      /\ (i + 1) - 1 = i /\ i + 1 \in 0 .. Len(num)
  BY <1>1
<1>3. /\ sum[i + 1] = sum[i] + num[i + 1]
      /\ \A h \in 0 .. Len(num) : sum[h] \in Nat
      /\ \A h \in 1 .. Len(num) : num[h] \in Nat
  <2>1. /\ \A h \in 1 .. Len(num) : sum[h] = sum[h - 1] + num[h]
        /\ \A h \in 0 .. Len(num) : sum[h] \in Nat
    BY <1>1, SumSteps
  <2>2. sum[i + 1] = sum[(i + 1) - 1] + num[i + 1]
    BY <1>2, <2>1
  <2> QED
    BY <1>1, <1>2, <2>1, <2>2 DEF Numbers
<1> DEFINE flat == Flat(parts)[i]
           row == [j \in 1 .. num[i + 1] |-> <<i + 1, j>>]
           all == Flat(parts)[i + 1]
<1>4. all = flat \o row
  <2>1. all = Flat(parts)[(i + 1) - 1] \o row
    BY <1>1, <1>2, FlatSteps
  <2> QED
    BY <1>2, <2>1
<1>5. /\ row \in Seq(Nat \X Nat)
      /\ Len(row) = num[i + 1]
      /\ \A j \in 1 .. num[i + 1] : row[j] = <<i + 1, j>>
  <2>1. i + 1 \in Nat /\ num[i + 1] \in Nat
    BY <1>2, <1>3
  <2> QED
    BY <2>1, RowFacts
<1>6. /\ flat \in Seq(Nat \X Nat)
      /\ Len(flat) = sum[i]
      /\ \A h \in 1 .. i : \A j \in 1 .. num[h] :
           /\ sum[h - 1] + j \in 1 .. Len(flat)
           /\ flat[sum[h - 1] + j] = <<h, j>>
      /\ \A k \in 1 .. Len(flat) :
           \E h \in 1 .. i : \E j \in 1 .. num[h] :
             k = sum[h - 1] + j /\ flat[k] = <<h, j>>
  BY DEF Placed
<1> HIDE DEF num, sum, flat, row, all
<1>7. /\ all \in Seq(Nat \X Nat)
      /\ Len(all) = sum[i + 1]
      /\ \A k \in 1 .. Len(all) :
           all[k] = IF k <= sum[i] THEN flat[k] ELSE row[k - sum[i]]
  <2>1. /\ flat \o row \in Seq(Nat \X Nat)
        /\ Len(flat \o row) = Len(flat) + Len(row)
        /\ \A k \in 1 .. Len(flat) + Len(row) :
             (flat \o row)[k] = IF k <= Len(flat) THEN flat[k]
                                ELSE row[k - Len(flat)]
    <3>1. flat \in Seq(Nat \X Nat) /\ row \in Seq(Nat \X Nat)
      BY <1>5, <1>6
    <3> QED
      BY <3>1, ConcatProperties, Zenon
  <2>2. Len(flat) + Len(row) = sum[i + 1] /\ Len(flat) = sum[i]
    BY <1>3, <1>5, <1>6
  <2> QED
    BY <1>4, <2>1, <2>2
<1>8. ASSUME NEW h \in 1 .. i + 1, NEW j \in 1 .. num[h]
      PROVE  /\ sum[h - 1] + j \in 1 .. Len(all)
             /\ all[sum[h - 1] + j] = <<h, j>>
  <2>1. sum[i] \in Nat /\ num[i + 1] \in Nat /\ sum[i + 1] = sum[i] + num[i + 1]
    BY <1>2, <1>3
  <2>2. CASE h \in 1 .. i
    <3>1. sum[h - 1] + j \in 1 .. sum[i] /\ flat[sum[h - 1] + j] = <<h, j>>
      BY <1>6, <2>2
    <3>2. sum[h - 1] + j \in 1 .. sum[i + 1] /\ sum[h - 1] + j <= sum[i]
      BY <2>1, <3>1
    <3> QED
      BY <1>7, <3>1, <3>2
  <2>3. CASE h = i + 1
    <3>1. j \in 1 .. num[i + 1] /\ sum[h - 1] = sum[i]
      BY <1>2, <2>3
    <3>2. /\ sum[i] + j \in 1 .. sum[i + 1] /\ ~(sum[i] + j <= sum[i])
          /\ (sum[i] + j) - sum[i] = j
      BY <2>1, <3>1
    <3>3. all[sum[i] + j] = row[j]
      BY <1>7, <3>2
    <3> QED
      BY <1>5, <1>7, <2>3, <3>1, <3>2, <3>3
  <2> QED
    BY <1>2, <2>2, <2>3
<1>9. ASSUME NEW k \in 1 .. Len(all)
      PROVE  \E h \in 1 .. i + 1 : \E j \in 1 .. num[h] :
               k = sum[h - 1] + j /\ all[k] = <<h, j>>
  <2>1. sum[i] \in Nat /\ num[i + 1] \in Nat /\ sum[i + 1] = sum[i] + num[i + 1]
    BY <1>2, <1>3
  <2>2. k \in 1 .. sum[i + 1]
    BY <1>7
  <2>3. CASE k <= sum[i]
    <3>1. k \in 1 .. Len(flat) /\ all[k] = flat[k]
      BY <1>6, <1>7, <2>1, <2>2, <2>3
    <3>2. PICK h \in 1 .. i : \E j \in 1 .. num[h] :
            k = sum[h - 1] + j /\ flat[k] = <<h, j>>
      BY <1>6, <3>1
    <3>3. h \in 1 .. i + 1
      OBVIOUS
    <3> QED
      BY <3>1, <3>2, <3>3
  <2>4. CASE ~(k <= sum[i])
    <3>1. k - sum[i] \in 1 .. num[i + 1] /\ k = sum[i] + (k - sum[i])
      BY <2>1, <2>2, <2>4
    <3>2. all[k] = row[k - sum[i]]
      BY <1>7, <2>4
    <3>3. all[k] = <<i + 1, k - sum[i]>>
      BY <1>5, <3>1, <3>2
    <3>4. i + 1 \in 1 .. i + 1 /\ k = sum[(i + 1) - 1] + (k - sum[i])
      BY <1>2, <3>1
    <3> QED
      BY <3>1, <3>3, <3>4
  <2> QED
    BY <2>3, <2>4
<1> QED
  BY <1>7, <1>8, <1>9 DEF Placed, num, sum, all

(* All parts are placed. *)
LEMMA FlatFacts ==
  ASSUME NEW parts, Counted(parts)
  PROVE  Placed(parts, Len(parts))
<1>1. Len(parts) \in Nat
  BY DEF Counted
<1> DEFINE S == {i \in Nat : i <= Len(parts) => Placed(parts, i)}
<1>2. 0 \in S
  <2>1. Flat(parts)[0] = <<>>
    BY FlatSteps
  <2>2. SumTo(NumRanges(parts))[0] = 0
    BY CountsAreNumbers, SumSteps
  <2>3. <<>> \in Seq(Nat \X Nat) /\ Len(<<>>) = 0
    BY EmptySeq
  <2>4. Placed(parts, 0)
    BY <2>1, <2>2, <2>3 DEF Placed
  <2> QED
    BY <2>4
<1>3. ASSUME NEW i \in Nat, i \in S
      PROVE  i + 1 \in S
  <2>1. i + 1 <= Len(parts) => Placed(parts, i + 1)
    BY <1>1, <1>3, PlacedStep
  <2> QED
    BY <2>1
<1>4. Nat \subseteq S
  BY <1>2, <1>3, Induction
<1> QED
  BY <1>1, <1>4

-----------------------------------------------------------------------------
(* Listings *)

(* A page has the first of what is left. *)
LEMMA FirstComeFirst ==
  ASSUME NEW n \in Nat, NEW S, S \subseteq KeySet, KeySet \subseteq Nat,
         IsFiniteSet(KeySet), NEW j \in FirstOf(n, S),
         NEW k \in S \ FirstOf(n, S)
  PROVE  j < k
<1> DEFINE below(i) == {m \in S : m <= i}
<1>1. /\ j \in Nat /\ k \in Nat /\ j \in S
      /\ Cardinality(below(j)) <= n /\ ~(Cardinality(below(k)) <= n)
  BY DEF FirstOf
<1>2. ASSUME k <= j
      PROVE  FALSE
  <2>1. below(k) \subseteq below(j)
    <3>1. \A m \in S : m <= k => m <= j
      BY <1>1, <1>2
    <3> QED
      BY <3>1
  <2>2. IsFiniteSet(S)
    BY FS_Subset
  <2>3. below(j) \subseteq S
    OBVIOUS
  <2>4. IsFiniteSet(below(j))
    BY <2>2, <2>3, FS_Subset
  <2>5. /\ Cardinality(below(j)) \in Nat
        /\ IsFiniteSet(below(k)) /\ Cardinality(below(k)) <= Cardinality(below(j))
    BY <2>1, <2>4, FS_Subset, FS_CardinalityType
  <2>6. Cardinality(below(k)) \in Nat
    BY <2>5, FS_CardinalityType
  <2> HIDE DEF below
  <2> QED
    BY <1>1, <2>5, <2>6
<1> QED
  BY <1>1, <1>2

(* The keys are a finite set of numbers. *)
LEMMA KeyFacts ==
  /\ Len(Keys) \in Nat
  /\ KeySet \subseteq Nat /\ IsFiniteSet(KeySet)
<1>1. Len(Keys) \in Nat
  BY ListingAssumption, LenProperties
<1> QED
  BY <1>1, FS_Interval DEF KeySet

(* A page of keys that are still to come, and no key before them. *)
LEMMA PageStep ==
  ASSUME ListInv, stage = "listing", scheme # "fs", NEW page,
         page \subseteq Remaining,
         \A j \in page : \A k \in Remaining \ page : j < k,
         ListPage(page)
  PROVE  ListInv'
<1>1. /\ objects \subseteq KeySet /\ after \subseteq KeySet
      /\ touched \subseteq KeySet /\ results \in [KeySet -> Nat]
      /\ KeySet \subseteq Nat
  BY KeyFacts DEF ListInv, ListTypeOK
<1>2. /\ after' = after \cup page
      /\ stage' = IF Remaining \subseteq page THEN "listed" ELSE "listing"
      /\ UNCHANGED <<scheme, recursive, objects, touched>>
      /\ results' = [k \in KeySet |->
                       IF k \in page /\ ~Keys[k].marker
                       THEN results[k] + 1 ELSE results[k]]
  BY DEF ListPage, Add, Found
<1>3. \A k : Wanted(k)' = Wanted(k)
  BY <1>2 DEF Wanted
<1>4. \A k \in page : /\ k \in objects /\ Wanted(k) /\ k \in KeySet
                      /\ \A a \in after : a < k
  BY <1>1 DEF Remaining
<1>5. \A k \in page : k \notin after
  <2> SUFFICES ASSUME NEW k \in page, k \in after
               PROVE  FALSE
    OBVIOUS
  <2>1. k < k /\ k \in Nat
    BY <1>1, <1>4
  <2> QED
    BY <2>1
<1>6. ListTypeOK'
  <2>1. results' \in [KeySet -> Nat]
    BY <1>1, <1>2
  <2>2. after' \subseteq KeySet /\ objects' \subseteq KeySet
        /\ touched' \subseteq KeySet
    BY <1>1, <1>2, <1>4
  <2> QED
    BY <2>1, <2>2 DEF ListTypeOK, KeySet
<1>7. \A k \in KeySet :
        results[k] = IF k \in after /\ ~Keys[k].marker THEN 1 ELSE 0
  BY DEF ListInv, Pages
<1>8. ASSUME NEW k \in KeySet
      PROVE  results'[k] = IF k \in after' /\ ~Keys[k].marker THEN 1 ELSE 0
  <2>1. CASE k \in page
    BY <1>2, <1>5, <1>7, <2>1
  <2>2. CASE k \notin page
    BY <1>2, <1>7, <2>2
  <2> QED
    BY <2>1, <2>2
<1>9. \A k \in after' : Wanted(k) /\ k \in objects \cup touched
  BY <1>2, <1>4 DEF ListInv, Pages
<1>10. ASSUME NEW k \in objects \ (after' \cup touched), Wanted(k)
       PROVE  k \in Remaining \ page /\ \A a \in after' : a < k
  <2>1. k \in objects \ (after \cup touched) /\ k \notin page
    BY <1>2
  <2>2. \A a \in after : a < k
    BY <1>10, <2>1 DEF ListInv, Pages
  <2>3. k \in Remaining
    BY <1>10, <2>2 DEF Remaining
  <2>4. \A a \in page : a < k
    BY <2>1, <2>3
  <2> QED
    BY <1>2, <2>1, <2>2, <2>3, <2>4
<1>11. stage' = "listed" =>
         \A k \in objects \ touched : Wanted(k) => k \in after'
  <2> SUFFICES ASSUME stage' = "listed", NEW k \in objects \ touched,
                      Wanted(k), k \notin after'
               PROVE  FALSE
    OBVIOUS
  <2>1. k \in Remaining \ page
    BY <1>10
  <2>2. Remaining \subseteq page
    BY <1>2
  <2> QED
    BY <2>1, <2>2
<1>12. Pages'
  BY <1>2, <1>3, <1>8, <1>9, <1>10, <1>11 DEF Pages, KeySet
<1>13. ListingIsExact'
  BY <1>2 DEF ListingIsExact
<1> QED
  BY <1>6, <1>12, <1>13 DEF ListInv

(* Every step of a listing keeps it. *)
LEMMA ListingStep ==
  ASSUME ListInv, ListNext \/ ListFiles \/ UNCHANGED listingVars
  PROVE  ListInv'
<1>1. /\ objects \subseteq KeySet /\ after \subseteq KeySet
      /\ touched \subseteq KeySet /\ results \in [KeySet -> Nat]
      /\ KeySet \subseteq Nat /\ IsFiniteSet(KeySet)
      /\ PageSize \in Nat
  BY KeyFacts, ListingAssumption DEF ListInv, ListTypeOK
<1>2. ASSUME NEW n \in Nat, stage = "listing", scheme # "fs",
             ListPage(FirstOf(n, Remaining))
      PROVE  ListInv'
  <2>1. FirstOf(n, Remaining) \subseteq Remaining
    BY DEF FirstOf
  <2>2. Remaining \subseteq KeySet
    BY <1>1 DEF Remaining
  <2>3. \A j \in FirstOf(n, Remaining) :
          \A k \in Remaining \ FirstOf(n, Remaining) : j < k
    BY <1>1, <2>2, FirstComeFirst
  <2> QED
    BY <1>2, <2>1, <2>3, PageStep
<1>3. ASSUME stage = "listing", NEW outcome, EndList(outcome),
             outcome \in Errors
      PROVE  ListInv'
  <2>1. /\ stage' \in Errors
        /\ UNCHANGED <<scheme, recursive, objects, touched, after, results>>
    BY <1>3 DEF EndList
  <2>2. \A k : Wanted(k)' = Wanted(k)
    BY <2>1 DEF Wanted
  <2> QED
    BY <1>1, <2>1, <2>2
       DEF ListInv, ListTypeOK, Pages, ListingIsExact, Errors, KeySet
<1>4. CASE UNCHANGED listingVars
  <2>1. UNCHANGED <<scheme, recursive, objects, touched, stage, after, results>>
    BY <1>4 DEF listingVars
  <2>2. \A k : Wanted(k)' = Wanted(k)
    BY <2>1 DEF Wanted
  <2>3. ListTypeOK'
    BY <2>1 DEF ListInv, ListTypeOK, KeySet
  <2>4. Pages'
    BY <2>1, <2>2 DEF ListInv, Pages, KeySet
  <2>5. ListingIsExact'
    BY <2>1, <2>2 DEF ListInv, ListingIsExact, KeySet, Keep
  <2> QED
    BY <2>3, <2>4, <2>5 DEF ListInv
<1>5. CASE ListFiles
  <2>1. /\ stage = "idle" /\ stage' \in {"FileAccessError", "listing"}
        /\ UNCHANGED <<scheme, recursive, objects, touched, after, results>>
    BY <1>5 DEF ListFiles
  <2>2. \A k : Wanted(k)' = Wanted(k)
    BY <2>1 DEF Wanted
  <2>3. ListTypeOK'
    BY <2>1 DEF ListInv, ListTypeOK, KeySet
  <2>4. Pages'
    BY <2>1, <2>2 DEF ListInv, Pages, KeySet
  <2>5. ListingIsExact'
    BY <2>1 DEF ListingIsExact
  <2> QED
    BY <2>3, <2>4, <2>5 DEF ListInv
<1>6. ASSUME NEW k \in KeySet, Touch(k)
      PROVE  ListInv'
  <2>1. /\ stage = "listing" /\ k \notin touched
        /\ objects' = IF k \in objects THEN objects \ {k} ELSE objects \cup {k}
        /\ touched' = touched \cup {k}
        /\ UNCHANGED <<scheme, recursive, stage, after, results>>
    BY <1>6 DEF Touch
  <2>2. \A m : Wanted(m)' = Wanted(m)
    BY <2>1 DEF Wanted
  <2>3. ListTypeOK'
    BY <1>1, <2>1 DEF ListTypeOK, KeySet
  <2>4. \A m \in objects' \ touched' : m \in objects \ touched
    BY <2>1
  <2>5. \A m \in objects \cup touched : m \in objects' \cup touched'
    BY <2>1
  <2>6. Pages'
    BY <2>1, <2>2, <2>4, <2>5 DEF ListInv, Pages, KeySet
  <2>7. ListingIsExact'
    BY <2>1 DEF ListingIsExact
  <2> QED
    BY <2>3, <2>6, <2>7 DEF ListInv
<1>7. CASE S3ListFiles
  BY <1>1, <1>2, <1>3, <1>7 DEF S3ListFiles, Errors
<1>8. CASE GcsListFiles
  BY <1>2, <1>3, <1>8 DEF GcsListFiles, Errors
<1>9. CASE AzureListFiles
  BY <1>1, <1>2, <1>3, <1>9 DEF AzureListFiles, Errors
<1>10. CASE FsListFiles
  <2>1. stage = "listing" /\ scheme = "fs"
    BY <1>10 DEF FsListFiles
  <2>2. ASSUME NEW k \in objects \ after, Wanted(k), Add({k}),
               after' = after \cup {k},
               UNCHANGED <<scheme, recursive, objects, touched, stage>>
        PROVE  ListInv'
    <3>1. \A m : Wanted(m)' = Wanted(m)
      BY <2>2 DEF Wanted
    <3>2. results' = [m \in KeySet |->
                        IF m = k /\ ~Keys[m].marker
                        THEN results[m] + 1 ELSE results[m]]
      BY <2>2 DEF Add, Found
    <3>3. ListTypeOK'
      BY <1>1, <2>2, <3>2 DEF ListTypeOK, KeySet
    <3>4. \A m \in KeySet :
            results'[m] = IF m \in after' /\ ~Keys[m].marker THEN 1 ELSE 0
      BY <2>1, <2>2, <3>2 DEF ListInv, Pages
    <3>5. Pages'
      BY <2>1, <2>2, <3>1, <3>4 DEF ListInv, Pages, KeySet
    <3>6. ListingIsExact'
      BY <2>1, <2>2 DEF ListingIsExact
    <3> QED
      BY <3>3, <3>5, <3>6 DEF ListInv
  <2>3. ASSUME \A k \in objects \ after : ~Wanted(k), EndList("listed")
        PROVE  ListInv'
    <3>1. /\ stage' = "listed"
          /\ UNCHANGED <<scheme, recursive, objects, touched, after, results>>
      BY <2>3 DEF EndList
    <3>2. \A k : Wanted(k)' = Wanted(k)
      BY <3>1 DEF Wanted
    <3> QED
      BY <2>1, <2>3, <3>1, <3>2
         DEF ListInv, ListTypeOK, Pages, ListingIsExact, KeySet
  <2>4. CASE EndList("UnknownError")
    BY <1>3, <2>1, <2>4 DEF Errors
  <2> QED
    BY <1>10, <2>2, <2>3, <2>4 DEF FsListFiles
<1>11. CASE FilterEntries
  <2>1. /\ stage = "listed" /\ stage' = "ok"
        /\ results' = [k \in KeySet |-> IF Keep(k) THEN results[k] ELSE 0]
        /\ UNCHANGED <<scheme, recursive, objects, touched, after>>
    BY <1>11 DEF FilterEntries
  <2>2. \A k : Wanted(k)' = Wanted(k)
    BY <2>1 DEF Wanted
  <2>3. ListTypeOK'
    BY <1>1, <2>1 DEF ListTypeOK, KeySet
  <2>4. Pages'
    BY <2>1, <2>2 DEF ListInv, Pages, KeySet
  <2>5. ASSUME NEW k \in KeySet
        PROVE  LET matching == Wanted(k) /\ ~Keys[k].marker /\ Keep(k)
               IN  /\ results'[k] <= 1
                   /\ results'[k] = 1 => matching /\ k \in objects \cup touched
                   /\ matching /\ k \in objects \ touched => results'[k] = 1
    <3>1. results[k] = IF k \in after /\ ~Keys[k].marker THEN 1 ELSE 0
      BY <2>1 DEF ListInv, Pages
    <3>2. k \in after => Wanted(k) /\ k \in objects \cup touched
      BY DEF ListInv, Pages
    <3>3. k \in objects \ touched /\ Wanted(k) => k \in after
      BY <2>1 DEF ListInv, Pages
    <3>4. results'[k] = IF Keep(k) THEN results[k] ELSE 0
      BY <2>1
    <3> QED
      BY <3>1, <3>2, <3>3, <3>4
  <2>6. ListingIsExact'
    BY <2>1, <2>2, <2>5 DEF ListingIsExact, KeySet, Keep
  <2> QED
    BY <2>3, <2>4, <2>6 DEF ListInv
<1> QED
  BY <1>4, <1>5, <1>6, <1>7, <1>8, <1>9, <1>10, <1>11 DEF ListNext

-----------------------------------------------------------------------------
(* The ranges of a request *)

(* What the assumption says of the files of a session. *)
LEMMA FileFacts ==
  ASSUME setup \in Setups
  PROVE  /\ Len(Files) \in Nat
         /\ \A f \in FileSet :
              /\ Files[f].sizes \in Seq(Nat) /\ Files[f].offsets \in Seq(Nat)
              /\ Len(Files[f].sizes) = Len(Files[f].offsets)
              /\ Len(Files[f].sizes) \in Nat
              /\ Numbers(Files[f].sizes)
              /\ \A k \in 1 .. Len(Files[f].sizes) : Files[f].sizes[k] \in Nat
              /\ \A k \in 1 .. Len(Files[f].sizes) :
                   Files[f].offsets[k] \in Nat
<1> DEFINE File == [scheme : {"s3", "gs", "az", "fs"}, offsets : Seq(Nat),
                    sizes : Seq(Nat)]
<1>1. /\ Files \in Seq(File)
      /\ \A f \in DOMAIN Files : Len(Files[f].sizes) = Len(Files[f].offsets)
  BY FileStreamerAssumption DEF Files
<1>2. Len(Files) \in Nat /\ DOMAIN Files = 1 .. Len(Files)
  BY <1>1, LenProperties
<1>3. ASSUME NEW f \in FileSet
      PROVE  /\ Files[f].sizes \in Seq(Nat) /\ Files[f].offsets \in Seq(Nat)
             /\ Len(Files[f].sizes) = Len(Files[f].offsets)
  <2>1. Files[f] \in File
    BY <1>1, <1>2, ElementOfSeq DEF FileSet
  <2> QED
    BY <1>1, <1>2, <2>1 DEF FileSet
<1>4. ASSUME NEW f \in FileSet
      PROVE  /\ Len(Files[f].sizes) \in Nat
             /\ \A k \in 1 .. Len(Files[f].sizes) : Files[f].sizes[k] \in Nat
             /\ \A k \in 1 .. Len(Files[f].sizes) : Files[f].offsets[k] \in Nat
  <2>1. /\ Files[f].sizes \in Seq(Nat) /\ Files[f].offsets \in Seq(Nat)
        /\ Len(Files[f].sizes) = Len(Files[f].offsets)
    BY <1>3
  <2>2. \A k \in 1 .. Len(Files[f].sizes) : Files[f].sizes[k] \in Nat
    BY <2>1, ElementOfSeq
  <2>3. \A k \in 1 .. Len(Files[f].offsets) : Files[f].offsets[k] \in Nat
    BY <2>1, ElementOfSeq
  <2>4. Len(Files[f].sizes) \in Nat
    BY <2>1, LenProperties
  <2> QED
    BY <2>1, <2>2, <2>3, <2>4
<1> QED
  BY <1>2, <1>3, <1>4 DEF Numbers

(* Parts of different files, each within its file. *)
Cut(parts) ==
  /\ parts \in Seq(Part)
  /\ \A i \in DOMAIN parts :
       /\ parts[i].file \in FileSet
       /\ parts[i].first < parts[i].last
       /\ parts[i].last <= Len(Files[parts[i].file].sizes)
       /\ \A j \in DOMAIN parts : parts[j].file = parts[i].file => j = i

(* What is cut is counted. *)
LEMMA CutIsCounted ==
  ASSUME NEW parts, Cut(parts)
  PROVE  /\ Counted(parts)
         /\ \A i \in DOMAIN parts :
              /\ parts[i].first \in Nat /\ parts[i].last \in Nat
              /\ NumRanges(parts)[i] = parts[i].last - parts[i].first
              /\ NumRanges(parts)[i] \in Nat \ {0}
<1>1. Len(parts) \in Nat /\ DOMAIN parts = 1 .. Len(parts)
  BY LenProperties DEF Cut
<1>2. ASSUME NEW i \in DOMAIN parts
      PROVE  /\ parts[i].first \in Nat /\ parts[i].last \in Nat
             /\ parts[i].first < parts[i].last
  <2>1. parts[i] \in Part
    BY <1>1, ElementOfSeq DEF Cut
  <2> QED
    BY <2>1 DEF Part, Cut
<1>3. Counted(parts)
  BY <1>1, <1>2 DEF Counted
<1>4. \A i \in DOMAIN parts :
        NumRanges(parts)[i] = parts[i].last - parts[i].first
  BY DEF NumRanges
<1> QED
  BY <1>2, <1>3, <1>4

(* The sizes in flat order. *)
LEMMA SizesAreNumbers ==
  ASSUME setup \in Setups, NEW parts, Cut(parts)
  PROVE  /\ Numbers(FlatSizes(parts))
         /\ Len(FlatSizes(parts)) = SumSeq(NumRanges(parts))
         /\ DOMAIN FlatSizes(parts) = 1 .. SumSeq(NumRanges(parts))
         /\ DOMAIN Order(parts) = 1 .. SumSeq(NumRanges(parts))
         /\ SumSeq(NumRanges(parts)) \in Nat
<1> DEFINE total == SumSeq(NumRanges(parts))
           order == Order(parts)
<1>1. Counted(parts) /\ DOMAIN parts = 1 .. Len(parts) /\ Len(parts) \in Nat
  BY CutIsCounted DEF Counted
<1>2. Placed(parts, Len(parts))
  BY <1>1, FlatFacts
<1>3. Len(NumRanges(parts)) = Len(parts)
  BY <1>1, CountsAreNumbers
<1>4. /\ order \in Seq(Nat \X Nat)
      /\ Len(order) = total
      /\ \A k \in 1 .. Len(order) :
           \E h \in 1 .. Len(parts) : \E j \in 1 .. NumRanges(parts)[h] :
             order[k] = <<h, j>>
  BY <1>2, <1>3 DEF Placed, Order, SumSeq
<1>5. total \in Nat /\ DOMAIN order = 1 .. total
  BY <1>4, LenProperties
<1> DEFINE e(k) == SizeAt(parts[order[k][1]], order[k][2])
<1>6. ASSUME NEW k \in 1 .. total
      PROVE  e(k) \in Nat
  <2>0. PICK h \in 1 .. Len(parts) :
          \E j \in 1 .. NumRanges(parts)[h] : order[k] = <<h, j>>
    BY <1>4
  <2>1. PICK j \in 1 .. NumRanges(parts)[h] : order[k] = <<h, j>>
    BY <2>0
  <2>2. e(k) = SizeAt(parts[h], j)
    BY <2>1
  <2>3. /\ parts[h].file \in FileSet
        /\ parts[h].first \in Nat /\ parts[h].last \in Nat
        /\ parts[h].last <= Len(Files[parts[h].file].sizes)
        /\ NumRanges(parts)[h] = parts[h].last - parts[h].first
    BY <1>1, CutIsCounted DEF Cut
  <2>4. Len(Files[parts[h].file].sizes) \in Nat
    BY <2>3, FileFacts
  <2>5. parts[h].first + j \in 1 .. Len(Files[parts[h].file].sizes)
    <3> DEFINE a == parts[h].first
               b == parts[h].last
               m == Len(Files[parts[h].file].sizes)
    <3>1. j \in 1 .. b - a /\ a \in Nat /\ b \in Nat /\ m \in Nat /\ b <= m
      BY <2>1, <2>3, <2>4
    <3> HIDE DEF a, b, m
    <3>2. a + j \in 1 .. m
      BY <3>1
    <3> QED
      BY <3>2 DEF a, m
  <2>6. SizeAt(parts[h], j) \in Nat
    BY <2>3, <2>5, FileFacts DEF SizeAt
  <2> QED
    BY <2>2, <2>6
<1>7. FlatSizes(parts) = [k \in 1 .. total |-> e(k)]
  BY <1>5 DEF FlatSizes
<1> HIDE DEF e, total
<1>8. [k \in 1 .. total |-> e(k)] \in Seq(Nat)
  BY <1>5, <1>6, IsASeq
<1>9. /\ Len(FlatSizes(parts)) \in Nat
      /\ DOMAIN FlatSizes(parts) = 1 .. Len(FlatSizes(parts))
  BY <1>7, <1>8, LenProperties
<1>10. DOMAIN FlatSizes(parts) = 1 .. total
  BY <1>7
<1>11. Len(FlatSizes(parts)) = total
  <2> DEFINE n == Len(FlatSizes(parts))
  <2>1. n \in Nat /\ total \in Nat /\ 1 .. n = 1 .. total
    BY <1>5, <1>9, <1>10
  <2> HIDE DEF n
  <2>2. n = total
    BY <2>1
  <2> QED
    BY <2>2 DEF n
<1>12. Numbers(FlatSizes(parts))
  BY <1>5, <1>6, <1>7, <1>11 DEF Numbers
<1> QED
  BY <1>5, <1>10, <1>11, <1>12 DEF total

Pos(parts, i, j) == FileBase(parts, i) + j

IsRange(r, parts, i, j, id, stream) ==
  /\ r.sub = id /\ r.buffer = stream
  /\ r.fileIndex = i /\ r.index = j /\ r.path = parts[i].file
  /\ r.offset = Files[r.path].offsets[parts[i].first + j]
  /\ r.size = Files[r.path].sizes[parts[i].first + j]
  /\ parts[i].first + j \in 1 .. Len(Files[r.path].sizes)
  /\ r.offset \in Nat /\ r.size \in Nat
  /\ Pos(parts, i, j) \in 1 .. SumSeq(NumRanges(parts))
  /\ Order(parts)[Pos(parts, i, j)] = <<i, j>>
  /\ r.dst = SumTo(FlatSizes(parts))[Pos(parts, i, j) - 1]
  /\ r.dst = RangeDsts(parts)[Pos(parts, i, j)]

(* A range is handed over with the offset and the size it has in its file, *)
(* and a destination of its own in the flat order.                         *)
LEMMA RangeFacts ==
  ASSUME setup \in Setups, NEW parts, Cut(parts), NEW id, NEW stream,
         NEW i \in DOMAIN parts, NEW j \in 1 .. NumRanges(parts)[i]
  PROVE  IsRange(RangeOf(parts, i, j, id, stream), parts, i, j, id, stream)
<1> DEFINE r == RangeOf(parts, i, j, id, stream)
<1> DEFINE k == Pos(parts, i, j)
           p == parts[i]
<1>1. /\ Counted(parts) /\ DOMAIN parts = 1 .. Len(parts)
      /\ Len(parts) \in Nat
  BY CutIsCounted DEF Counted
<1>2. Placed(parts, Len(parts))
  BY <1>1, FlatFacts
<1>3. Len(NumRanges(parts)) = Len(parts)
  BY <1>1, CountsAreNumbers
<1>4. DOMAIN Order(parts) = 1 .. SumSeq(NumRanges(parts))
  BY SizesAreNumbers
<1>5. k \in 1 .. SumSeq(NumRanges(parts)) /\ Order(parts)[k] = <<i, j>>
  BY <1>1, <1>2, <1>3 DEF Placed, Order, SumSeq, Pos, FileBase
<1>6. /\ FlatSizes(parts)[k] = SizeAt(p, j)
      /\ FlatOffsets(parts)[k] = OffsetAt(p, j)
      /\ RangeDsts(parts)[k] = SumTo(FlatSizes(parts))[k - 1]
  BY <1>4, <1>5 DEF FlatSizes, FlatOffsets, RangeDsts
<1>7. /\ p.file \in FileSet /\ p.first \in Nat /\ p.last \in Nat
      /\ p.last <= Len(Files[p.file].sizes)
      /\ NumRanges(parts)[i] = p.last - p.first
  BY CutIsCounted DEF Cut
<1>8. Len(Files[p.file].sizes) \in Nat
  BY <1>7, FileFacts
<1>9. p.first + j \in 1 .. Len(Files[p.file].sizes)
  BY <1>7, <1>8
<1>10. /\ r.sub = id /\ r.buffer = stream
       /\ r.fileIndex = i /\ r.index = j /\ r.path = p.file
       /\ r.offset = FlatOffsets(parts)[k]
       /\ r.size = FlatSizes(parts)[k]
       /\ r.dst = RangeDsts(parts)[k]
  BY DEF RangeOf, Pos
<1>11. SizeAt(p, j) \in Nat /\ OffsetAt(p, j) \in Nat
  BY <1>7, <1>9, FileFacts DEF SizeAt, OffsetAt
<1> QED
  BY <1>5, <1>6, <1>9, <1>10, <1>11 DEF IsRange, SizeAt, OffsetAt

(* A range ends where the flat order says, inside the bytes of the request. *)
LEMMA RangeEnds ==
  ASSUME setup \in Setups, NEW parts, Cut(parts), NEW id, NEW stream,
         NEW i \in DOMAIN parts, NEW j \in 1 .. NumRanges(parts)[i], NEW r,
         IsRange(r, parts, i, j, id, stream)
  PROVE  /\ r.dst \in Nat
         /\ r.dst + r.size = SumTo(FlatSizes(parts))[Pos(parts, i, j)]
         /\ r.dst + r.size <= SumSeq(FlatSizes(parts))
<1> DEFINE k == Pos(parts, i, j)
           sizes == FlatSizes(parts)
           total == SumSeq(NumRanges(parts))
<1>1. /\ k \in 1 .. total /\ Order(parts)[k] = <<i, j>>
      /\ r.dst = SumTo(sizes)[k - 1]
      /\ r.size = SizeAt(parts[i], j)
  BY DEF IsRange, SizeAt
<1>2. /\ Numbers(sizes) /\ Len(sizes) = total /\ total \in Nat
      /\ DOMAIN Order(parts) = 1 .. total
  BY SizesAreNumbers
<1>3. sizes[k] = SizeAt(parts[i], j)
  BY <1>1, <1>2 DEF FlatSizes
<1> HIDE DEF k, sizes, total
<1>4. /\ k \in 1 .. Len(sizes) /\ k - 1 \in 0 .. Len(sizes)
      /\ k \in 0 .. Len(sizes) /\ Len(sizes) \in 0 .. Len(sizes)
      /\ k <= Len(sizes)
  BY <1>1, <1>2
<1>5. SumTo(sizes)[k] = SumTo(sizes)[k - 1] + sizes[k]
  BY <1>2, <1>4, SumSteps
<1>6. SumTo(sizes)[k - 1] \in Nat
  BY <1>2, <1>4, SumSteps
<1>7. SumTo(sizes)[k] <= SumTo(sizes)[Len(sizes)]
  BY <1>2, <1>4, SumGrows
<1> QED
  BY <1>1, <1>3, <1>5, <1>6, <1>7 DEF SumSeq, k, sizes

(* Different ranges of a request have disjoint destinations. *)
LEMMA RangesApart ==
  ASSUME setup \in Setups, NEW parts, Cut(parts), NEW id, NEW stream,
         NEW i \in DOMAIN parts, NEW j \in 1 .. NumRanges(parts)[i], NEW r,
         IsRange(r, parts, i, j, id, stream),
         NEW h \in DOMAIN parts, NEW l \in 1 .. NumRanges(parts)[h], NEW s,
         IsRange(s, parts, h, l, id, stream), <<i, j>> # <<h, l>>
  PROVE  r.dst + r.size <= s.dst \/ s.dst + s.size <= r.dst
<1> DEFINE k == Pos(parts, i, j)
           m == Pos(parts, h, l)
           sizes == FlatSizes(parts)
           total == SumSeq(NumRanges(parts))
<1>1. /\ k \in 1 .. total /\ Order(parts)[k] = <<i, j>>
      /\ r.dst = SumTo(sizes)[k - 1]
  BY DEF IsRange
<1>2. /\ m \in 1 .. total /\ Order(parts)[m] = <<h, l>>
      /\ s.dst = SumTo(sizes)[m - 1]
  BY DEF IsRange
<1>3. Numbers(sizes) /\ Len(sizes) = total /\ total \in Nat
  BY SizesAreNumbers
<1>4. r.dst + r.size = SumTo(sizes)[k] /\ s.dst + s.size = SumTo(sizes)[m]
  BY RangeEnds
<1>5. k # m
  BY <1>1, <1>2
<1> HIDE DEF k, m, sizes, total
<1>6. CASE k < m
  <2>1. /\ k \in 0 .. Len(sizes) /\ m - 1 \in 0 .. Len(sizes)
        /\ k <= m - 1
    BY <1>1, <1>2, <1>3, <1>6
  <2>2. SumTo(sizes)[k] <= SumTo(sizes)[m - 1]
    BY <1>3, <2>1, SumGrows
  <2> QED
    BY <1>2, <1>4, <2>2
<1>7. CASE m < k
  <2>1. /\ m \in 0 .. Len(sizes) /\ k - 1 \in 0 .. Len(sizes)
        /\ m <= k - 1
    BY <1>1, <1>2, <1>3, <1>7
  <2>2. SumTo(sizes)[m] <= SumTo(sizes)[k - 1]
    BY <1>3, <2>1, SumGrows
  <2> QED
    BY <1>1, <1>4, <2>2
<1> QED
  BY <1>1, <1>2, <1>5, <1>6, <1>7

(* A function on 1 .. n with numbers for values is a sequence of numbers. *)
LEMMA FunctionsAreNumbers ==
  ASSUME NEW n \in Nat, NEW s \in [1 .. n -> Nat]
  PROVE  Numbers(s) /\ Len(s) = n
<1> DEFINE e(i) == s[i]
<1>1. s = [i \in 1 .. n |-> e(i)] /\ \A i \in 1 .. n : e(i) \in Nat
  OBVIOUS
<1> HIDE DEF e
<1>2. [i \in 1 .. n |-> e(i)] \in Seq(Nat)
  BY <1>1, IsASeq
<1>3. Len(s) \in Nat /\ DOMAIN s = 1 .. Len(s)
  BY <1>1, <1>2, LenProperties
<1>4. DOMAIN s = 1 .. n
  OBVIOUS
<1>5. Len(s) = n
  <2> DEFINE m == Len(s)
  <2>1. m \in Nat /\ 1 .. m = 1 .. n
    BY <1>3, <1>4
  <2> HIDE DEF m
  <2>2. m = n
    BY <2>1
  <2> QED
    BY <2>2 DEF m
<1> QED
  BY <1>5 DEF Numbers

(* c numbers after a and after b are the same. *)
Alike(s, a, t, b, c) ==
  /\ a \in Nat /\ b \in Nat /\ c \in Nat
  /\ a + c <= Len(s) /\ b + c <= Len(t)
  /\ \A j \in 1 .. c : s[a + j] = t[b + j]

(* Running totals that add up the same numbers grow alike. *)
LEMMA SumShift ==
  ASSUME NEW s, Numbers(s), NEW t, Numbers(t),
         NEW a, NEW b, NEW c, Alike(s, a, t, b, c)
  PROVE  SumTo(s)[a + c] - SumTo(s)[a] = SumTo(t)[b + c] - SumTo(t)[b]
<1> USE DEF Numbers, Alike
<1> DEFINE f == SumTo(s)
           g == SumTo(t)
<1>1. /\ \A n \in 1 .. Len(s) : f[n] = f[n - 1] + s[n]
      /\ \A n \in 0 .. Len(s) : f[n] \in Nat
      /\ \A n \in 1 .. Len(t) : g[n] = g[n - 1] + t[n]
      /\ \A n \in 0 .. Len(t) : g[n] \in Nat
  BY SumSteps
<1> HIDE DEF f, g
<1> DEFINE S == {j \in Nat : j <= c => f[a + j] - f[a] = g[b + j] - g[b]}
<1>2. 0 \in S
  <2>1. f[a] \in Nat /\ g[b] \in Nat
    BY <1>1
  <2> QED
    BY <2>1
<1>3. ASSUME NEW j \in Nat, j \in S
      PROVE  j + 1 \in S
  <2> SUFFICES ASSUME j + 1 <= c
               PROVE  f[a + (j + 1)] - f[a] = g[b + (j + 1)] - g[b]
    OBVIOUS
  <2>1. f[a + j] - f[a] = g[b + j] - g[b]
    BY <1>3
  <2>2. /\ a + (j + 1) \in 1 .. Len(s) /\ (a + (j + 1)) - 1 = a + j
        /\ b + (j + 1) \in 1 .. Len(t) /\ (b + (j + 1)) - 1 = b + j
        /\ j + 1 \in 1 .. c
        /\ a + j \in 0 .. Len(s) /\ b + j \in 0 .. Len(t)
        /\ a \in 0 .. Len(s) /\ b \in 0 .. Len(t)
    OBVIOUS
  <2>3. f[a + (j + 1)] = f[a + j] + s[a + (j + 1)]
    BY <1>1, <2>2
  <2>4. g[b + (j + 1)] = g[b + j] + t[b + (j + 1)]
    BY <1>1, <2>2
  <2>5. s[a + (j + 1)] = t[b + (j + 1)] /\ t[b + (j + 1)] \in Nat
    BY <2>2
  <2>6. f[a + j] \in Nat /\ f[a] \in Nat /\ g[b + j] \in Nat /\ g[b] \in Nat
    BY <1>1, <2>2
  <2> DEFINE x == f[a + j]
             y == f[a]
             u == g[b + j]
             v == g[b]
             w == t[b + (j + 1)]
  <2>7. x - y = u - v /\ x \in Nat /\ y \in Nat /\ u \in Nat /\ v \in Nat
        /\ w \in Nat
    BY <2>1, <2>5, <2>6
  <2>8. f[a + (j + 1)] = x + w /\ g[b + (j + 1)] = u + w
    BY <2>3, <2>4, <2>5
  <2> HIDE DEF x, y, u, v, w
  <2>9. (x + w) - y = (u + w) - v
    BY <2>7
  <2>10. f[a + (j + 1)] - y = g[b + (j + 1)] - v
    BY <2>8, <2>9
  <2> QED
    BY <2>10 DEF y, v
<1>4. Nat \subseteq S
  BY <1>2, <1>3, Induction
<1>5. f[a + c] - f[a] = g[b + c] - g[b]
  BY <1>4
<1> QED
  BY <1>5 DEF f, g

(* The ranges of a submission, by part and index. *)
LEMMA SubmittedRanges ==
  ASSUME setup \in Setups, NEW parts, Cut(parts), NEW id, NEW stream
  PROVE  /\ \A i \in DOMAIN parts : \A j \in 1 .. NumRanges(parts)[i] :
              RangeOf(parts, i, j, id, stream)
                \in SubmitRequest(parts, id, stream)
         /\ \A r \in SubmitRequest(parts, id, stream) :
              /\ r.fileIndex \in DOMAIN parts
              /\ r.index \in 1 .. NumRanges(parts)[r.fileIndex]
              /\ r = RangeOf(parts, r.fileIndex, r.index, id, stream)
              /\ IsRange(r, parts, r.fileIndex, r.index, id, stream)
<1>1. ASSUME NEW r \in SubmitRequest(parts, id, stream)
      PROVE  /\ r.fileIndex \in DOMAIN parts
             /\ r.index \in 1 .. NumRanges(parts)[r.fileIndex]
             /\ r = RangeOf(parts, r.fileIndex, r.index, id, stream)
             /\ IsRange(r, parts, r.fileIndex, r.index, id, stream)
  <2>1. PICK i \in DOMAIN parts : \E j \in 1 .. NumRanges(parts)[i] :
          r = RangeOf(parts, i, j, id, stream)
    BY DEF SubmitRequest
  <2>2. PICK j \in 1 .. NumRanges(parts)[i] :
          r = RangeOf(parts, i, j, id, stream)
    BY <2>1
  <2>3. IsRange(RangeOf(parts, i, j, id, stream), parts, i, j, id, stream)
    BY RangeFacts
  <2>4. r.fileIndex = i /\ r.index = j
    BY <2>2, <2>3 DEF IsRange
  <2> QED
    BY <2>2, <2>3, <2>4
<1>2. \A i \in DOMAIN parts : \A j \in 1 .. NumRanges(parts)[i] :
        RangeOf(parts, i, j, id, stream) \in SubmitRequest(parts, id, stream)
  BY DEF SubmitRequest
<1> QED
  BY <1>1, <1>2

(* A submission has as many ranges as its parts count. *)
LEMMA SubmissionSize ==
  ASSUME setup \in Setups, NEW parts, Cut(parts), NEW id, NEW stream
  PROVE  /\ IsFiniteSet(SubmitRequest(parts, id, stream))
         /\ Cardinality(SubmitRequest(parts, id, stream))
              = SumSeq(NumRanges(parts))
         /\ SumSeq(NumRanges(parts)) \in Nat
<1> DEFINE total == SumSeq(NumRanges(parts))
           S == SubmitRequest(parts, id, stream)
           order == Order(parts)
           f == [k \in 1 .. total |->
                   RangeOf(parts, order[k][1], order[k][2], id, stream)]
<1>1. total \in Nat
  BY SizesAreNumbers
<1>2. /\ Counted(parts) /\ DOMAIN parts = 1 .. Len(parts)
      /\ Len(parts) \in Nat /\ Len(NumRanges(parts)) = Len(parts)
  BY CutIsCounted, CountsAreNumbers DEF Counted
<1>3. ASSUME NEW k \in 1 .. total
      PROVE  /\ order[k][1] \in DOMAIN parts
             /\ order[k][2] \in 1 .. NumRanges(parts)[order[k][1]]
             /\ k = Pos(parts, order[k][1], order[k][2])
  <2>1. Placed(parts, Len(parts))
    BY <1>2, FlatFacts
  <2>2. PICK h \in 1 .. Len(parts) : \E j \in 1 .. NumRanges(parts)[h] :
          k = Pos(parts, h, j) /\ order[k] = <<h, j>>
    BY <1>2, <2>1 DEF Placed, Order, SumSeq, Pos, FileBase
  <2>3. PICK j \in 1 .. NumRanges(parts)[h] :
          k = Pos(parts, h, j) /\ order[k] = <<h, j>>
    BY <2>2
  <2>4. order[k][1] = h /\ order[k][2] = j
    BY <2>3
  <2> QED
    BY <1>2, <2>3, <2>4
<1> DEFINE g(k) == RangeOf(parts, order[k][1], order[k][2], id, stream)
<1>4. ASSUME NEW k \in 1 .. total
      PROVE  /\ g(k) \in S
             /\ g(k).fileIndex = order[k][1] /\ g(k).index = order[k][2]
  <2>1. IsRange(g(k), parts, order[k][1], order[k][2], id, stream)
    BY <1>3, RangeFacts
  <2>2. g(k) \in S
    BY <1>3, SubmittedRanges
  <2> QED
    BY <2>1, <2>2 DEF IsRange
<1>5. ASSUME NEW r \in S
      PROVE  \E k \in 1 .. total : g(k) = r
  <2>1. /\ r.fileIndex \in DOMAIN parts
        /\ r.index \in 1 .. NumRanges(parts)[r.fileIndex]
        /\ r = RangeOf(parts, r.fileIndex, r.index, id, stream)
        /\ IsRange(r, parts, r.fileIndex, r.index, id, stream)
    BY SubmittedRanges
  <2> DEFINE k == Pos(parts, r.fileIndex, r.index)
  <2>2. k \in 1 .. total /\ order[k] = <<r.fileIndex, r.index>>
    BY <2>1 DEF IsRange
  <2>3. order[k][1] = r.fileIndex /\ order[k][2] = r.index
    BY <2>2
  <2>4. g(k) = r
    BY <2>1, <2>3
  <2> QED
    BY <2>2, <2>4
<1>6. \A k, m \in 1 .. total : g(k) = g(m) => k = m
  <2> SUFFICES ASSUME NEW k \in 1 .. total, NEW m \in 1 .. total, g(k) = g(m)
               PROVE  k = m
    OBVIOUS
  <2>1. order[k][1] = order[m][1] /\ order[k][2] = order[m][2]
    BY <1>4
  <2> QED
    BY <1>3, <2>1
<1> HIDE DEF g
<1>7. f = [k \in 1 .. total |-> g(k)]
  BY DEF g
<1> HIDE DEF f, S, total
<1>8. f \in Bijection(1 .. total, S)
  <2>1. f \in [1 .. total -> S]
    BY <1>4, <1>7
  <2>2. \A k, m \in 1 .. total : f[k] = f[m] => k = m
    BY <1>6, <1>7
  <2>3. \A r \in S : \E k \in 1 .. total : f[k] = r
    BY <1>5, <1>7
  <2> QED
    BY <2>1, <2>2, <2>3
       DEF Bijection, Injection, Surjection, IsInjective
<1>9. IsFiniteSet(1 .. total) /\ Cardinality(1 .. total) = total
  BY <1>1, FS_Interval
<1>10. ExistsBijection(1 .. total, S)
  BY <1>8 DEF ExistsBijection
<1>11. IsFiniteSet(S) /\ Cardinality(S) = Cardinality(1 .. total)
  BY <1>9, <1>10, FS_Bijection
<1> QED
  BY <1>1, <1>9, <1>11 DEF S, total

(* A part more: its bytes are added. *)
LEMMA BytesAppended ==
  ASSUME setup \in Setups, NEW parts, NEW p \in Part,
         Cut(parts), Cut(Append(parts, p))
  PROVE  SumSeq(FlatSizes(Append(parts, p)))
           = SumSeq(FlatSizes(parts)) + BytesOf(p.file, p.first, p.last)
<1> DEFINE more == Append(parts, p)
           n == Len(parts)
           sizes == Files[p.file].sizes
           a == SumSeq(NumRanges(parts))
           c == p.last - p.first
           few == FlatSizes(parts)
           all == FlatSizes(more)
<1>1. /\ parts \in Seq(Part) /\ n \in Nat /\ DOMAIN parts = 1 .. n
  BY LenProperties DEF Cut
<1>2. /\ Len(more) = n + 1 /\ DOMAIN more = 1 .. n + 1
      /\ \A i \in 1 .. n : more[i] = parts[i]
      /\ more[n + 1] = p
  <2>1. /\ more \in Seq(Part) /\ Len(more) = n + 1
        /\ \A i \in 1 .. Len(more) :
             more[i] = IF i <= n THEN parts[i] ELSE p
    BY <1>1, AppendProperties
  <2>2. DOMAIN more = 1 .. n + 1
    BY <2>1, LenProperties
  <2> QED
    BY <1>1, <2>1, <2>2
<1> DEFINE few_num == NumRanges(parts)
           all_num == NumRanges(more)
<1>3. /\ Counted(parts) /\ Numbers(few_num) /\ Len(few_num) = n
      /\ Counted(more) /\ Numbers(all_num) /\ Len(all_num) = n + 1
  BY <1>2, CutIsCounted, CountsAreNumbers
<1>4. /\ \A i \in 1 .. n : all_num[i] = few_num[i]
      /\ all_num[n + 1] = c
  <2>1. ASSUME NEW i \in 1 .. n
        PROVE  all_num[i] = few_num[i]
    BY <1>1, <1>2 DEF NumRanges
  <2>2. all_num[n + 1] = c
    BY <1>1, <1>2 DEF NumRanges
  <2> QED
    BY <2>1, <2>2
<1>5. /\ p.file \in FileSet /\ p.first \in Nat /\ p.last \in Nat
      /\ p.first < p.last /\ p.last <= Len(sizes)
      /\ Len(sizes) \in Nat /\ Numbers(sizes)
  <2>1. n + 1 \in DOMAIN more /\ more[n + 1] = p
    BY <1>1, <1>2
  <2>2. p.file \in FileSet /\ p.first < p.last /\ p.last <= Len(sizes)
    BY <2>1 DEF Cut
  <2> QED
    BY <2>2, FileFacts DEF Part
<1>6. ASSUME NEW i \in 0 .. n
      PROVE  SumTo(all_num)[i] = SumTo(few_num)[i]
  <2> HIDE DEF few_num, all_num, n
  <2>1. /\ 0 + i <= Len(all_num) /\ 0 + i <= Len(few_num)
        /\ \A j \in 1 .. i : all_num[0 + j] = few_num[0 + j]
        /\ i \in Nat /\ 0 \in Nat
    BY <1>1, <1>3, <1>4
  <2>2. SumTo(all_num)[0 + i] - SumTo(all_num)[0]
          = SumTo(few_num)[0 + i] - SumTo(few_num)[0]
    <3>1. Alike(all_num, 0, few_num, 0, i)
      BY <2>1 DEF Alike
    <3> QED
      BY <1>3, <3>1, SumShift
  <2>3. /\ SumTo(all_num)[0] = 0 /\ SumTo(few_num)[0] = 0 /\ 0 + i = i
    BY <1>3, <2>1, SumSteps
  <2>4. SumTo(all_num)[i] \in Nat /\ SumTo(few_num)[i] \in Nat
    <3>1. i \in 0 .. Len(all_num) /\ i \in 0 .. Len(few_num)
      BY <1>1, <1>3
    <3> QED
      BY <1>3, <3>1, SumSteps
  <2>5. \A x, y \in Nat : x - 0 = y - 0 => x = y
    OBVIOUS
  <2>6. SumTo(all_num)[i] - 0 = SumTo(few_num)[i] - 0
    BY <2>2, <2>3
  <2> QED
    BY <2>4, <2>5, <2>6
<1>7. /\ Numbers(few) /\ Len(few) = a /\ DOMAIN few = 1 .. a
      /\ DOMAIN Order(parts) = 1 .. a /\ a \in Nat
      /\ Numbers(all) /\ Len(all) = SumSeq(all_num)
      /\ DOMAIN all = 1 .. SumSeq(all_num)
      /\ DOMAIN Order(more) = 1 .. SumSeq(all_num)
      /\ SumSeq(all_num) \in Nat
  BY SizesAreNumbers
<1>8. SumTo(all_num)[n] = a /\ SumSeq(all_num) = a + c
  <2>1. SumTo(all_num)[n] = a
    BY <1>1, <1>3, <1>6 DEF SumSeq
  <2>2. n + 1 \in 1 .. Len(all_num) /\ (n + 1) - 1 = n
    BY <1>1, <1>3
  <2>3. SumTo(all_num)[n + 1] = SumTo(all_num)[(n + 1) - 1] + all_num[n + 1]
    BY <1>3, <2>2, SumSteps
  <2> QED
    BY <1>3, <1>4, <2>1, <2>2, <2>3 DEF SumSeq
<1>9. ASSUME NEW k \in 1 .. a
      PROVE  all[k] = few[k]
  <2>1. Placed(parts, Len(parts)) /\ Placed(more, Len(more))
    BY <1>3, FlatFacts
  <2>2. PICK h \in 1 .. n : \E j \in 1 .. few_num[h] :
          k = SumTo(few_num)[h - 1] + j /\ Order(parts)[k] = <<h, j>>
    BY <1>3, <1>7, <2>1 DEF Placed, Order, SumSeq
  <2>3. PICK j \in 1 .. few_num[h] :
          k = SumTo(few_num)[h - 1] + j /\ Order(parts)[k] = <<h, j>>
    BY <2>2
  <2>4. h \in 1 .. n + 1 /\ j \in 1 .. all_num[h] /\ h - 1 \in 0 .. n
    BY <1>1, <1>4
  <2>5. k = SumTo(all_num)[h - 1] + j
    BY <1>6, <2>3, <2>4
  <2>6. Order(more)[k] = <<h, j>>
    BY <1>2, <2>1, <2>4, <2>5 DEF Placed, Order
  <2>7. k \in 1 .. SumSeq(all_num)
    BY <1>5, <1>7, <1>8
  <2>8. all[k] = SizeAt(more[h], j)
    BY <1>7, <2>6, <2>7 DEF FlatSizes
  <2>9. few[k] = SizeAt(parts[h], j)
    BY <1>7, <2>3 DEF FlatSizes
  <2> QED
    BY <1>2, <2>8, <2>9
<1>10. ASSUME NEW j \in 1 .. c
       PROVE  all[a + j] = sizes[p.first + j]
  <2>1. Placed(more, Len(more))
    BY <1>3, FlatFacts
  <2>2. /\ n + 1 \in 1 .. n + 1 /\ (n + 1) - 1 = n /\ j \in 1 .. all_num[n + 1]
    BY <1>1, <1>4
  <2>3. Order(more)[SumTo(all_num)[(n + 1) - 1] + j] = <<n + 1, j>>
    BY <1>2, <2>1, <2>2 DEF Placed, Order
  <2>4. Order(more)[a + j] = <<n + 1, j>>
    BY <1>8, <2>2, <2>3
  <2>5. a + j \in 1 .. SumSeq(all_num)
    BY <1>5, <1>7, <1>8
  <2>6. all[a + j] = SizeAt(more[n + 1], j)
    BY <1>7, <2>4, <2>5 DEF FlatSizes
  <2> QED
    BY <1>2, <2>6 DEF SizeAt
<1>11. SumTo(all)[a] = SumSeq(few)
  <2> HIDE DEF a, few, all, few_num, all_num, c, sizes
  <2>1. Len(all) = a + c /\ c \in Nat
    <3>1. c \in Nat
      BY <1>5 DEF c
    <3> QED
      BY <1>7, <1>8, <3>1
  <2>2. /\ 0 + a <= Len(all) /\ 0 + a <= Len(few) /\ 0 \in Nat
        /\ \A j \in 1 .. a : all[0 + j] = few[0 + j]
        /\ 0 + a = a
    BY <1>7, <1>9, <2>1
  <2>3. SumTo(all)[0 + a] - SumTo(all)[0] = SumTo(few)[0 + a] - SumTo(few)[0]
    <3>1. Numbers(all) /\ Numbers(few) /\ a \in Nat
      BY <1>7
    <3>2. Alike(all, 0, few, 0, a)
      BY <2>2, <3>1 DEF Alike
    <3> QED
      BY <3>1, <3>2, SumShift
  <2>4. SumTo(all)[0] = 0 /\ SumTo(few)[0] = 0
    BY <1>7, SumSteps
  <2>5. SumTo(all)[a] \in Nat /\ SumTo(few)[a] \in Nat
    <3>1. a \in 0 .. Len(all) /\ a \in 0 .. Len(few)
      BY <1>7, <2>1
    <3> QED
      BY <1>7, <3>1, SumSteps
  <2>6. \A x, y \in Nat : x - 0 = y - 0 => x = y
    OBVIOUS
  <2>7. SumTo(all)[a] - 0 = SumTo(few)[a] - 0
    BY <2>2, <2>3, <2>4
  <2>8. SumTo(all)[a] = SumTo(few)[a]
    BY <2>5, <2>6, <2>7
  <2> QED
    BY <1>7, <2>8 DEF SumSeq
<1>12. SumTo(all)[a + c] - SumTo(all)[a]
         = SumTo(sizes)[p.last] - SumTo(sizes)[p.first]
  <2> HIDE DEF a, few, all, few_num, all_num, sizes
  <2>1. c \in Nat /\ p.first + c = p.last
    BY <1>5
  <2> HIDE DEF c
  <2>2. a + c <= Len(all) /\ p.first + c <= Len(sizes)
    BY <1>5, <1>7, <1>8, <2>1
  <2>3. SumTo(all)[a + c] - SumTo(all)[a]
          = SumTo(sizes)[p.first + c] - SumTo(sizes)[p.first]
    <3>1. Numbers(all) /\ Numbers(sizes) /\ a \in Nat /\ p.first \in Nat
      BY <1>5, <1>7
    <3>2. \A j \in 1 .. c : all[a + j] = sizes[p.first + j]
      BY <1>10
    <3>3. Alike(all, a, sizes, p.first, c)
      BY <2>1, <2>2, <3>1, <3>2 DEF Alike
    <3> QED
      BY <3>1, <3>3, SumShift
  <2> QED
    BY <2>1, <2>3
<1>13. SumTo(all)[a + c] = SumSeq(all)
  BY <1>7, <1>8 DEF SumSeq
<1>14. /\ SumSeq(all) \in Nat /\ SumSeq(few) \in Nat
       /\ SumTo(sizes)[p.last] \in Nat /\ SumTo(sizes)[p.first] \in Nat
  <2>1. \A m \in 0 .. Len(sizes) : SumTo(sizes)[m] \in Nat
    BY <1>5, SumSteps
  <2>2. p.last \in 0 .. Len(sizes) /\ p.first \in 0 .. Len(sizes)
    BY <1>5
  <2>3. SumSeq(few) \in Nat
    <3>1. Len(few) \in 0 .. Len(few)
      BY <1>7
    <3> QED
      BY <1>7, <3>1, SumSteps DEF SumSeq
  <2>4. SumSeq(all) \in Nat
    <3>1. Len(all) \in 0 .. Len(all)
      BY <1>7
    <3> QED
      BY <1>7, <3>1, SumSteps DEF SumSeq
  <2> QED
    BY <2>1, <2>2, <2>3, <2>4
<1>15. BytesOf(p.file, p.first, p.last)
         = SumTo(sizes)[p.last] - SumTo(sizes)[p.first]
  BY DEF BytesOf
<1> HIDE DEF all, few, sizes
<1>16. \A x, y, u, v \in Nat : x - y = u - v => x = y + (u - v)
  OBVIOUS
<1>17. SumSeq(all) - SumSeq(few)
         = SumTo(sizes)[p.last] - SumTo(sizes)[p.first]
  BY <1>11, <1>12, <1>13
<1>18. SumSeq(all)
         = SumSeq(few) + (SumTo(sizes)[p.last] - SumTo(sizes)[p.first])
  BY <1>14, <1>16, <1>17
<1> QED
  BY <1>15, <1>18 DEF all, few

-----------------------------------------------------------------------------
(* The memory limit *)

(* The total of a session is a number, and no range is longer. *)
LEMMA TotalFacts ==
  ASSUME setup \in Setups
  PROVE  /\ TotalSize \in Nat
         /\ \A f \in FileSet : \A k \in 1 .. Len(Files[f].sizes) :
              Files[f].sizes[k] \in Nat /\ Files[f].sizes[k] <= TotalSize
<1> DEFINE e(f) == SumSeq(Files[f].sizes)
           n == Len(Files)
           t == [f \in FileSet |-> e(f)]
<1>1. n \in Nat
  BY FileFacts
<1>2. ASSUME NEW f \in FileSet
      PROVE  e(f) \in Nat
  <2> DEFINE s == Files[f].sizes
  <2>1. Numbers(s) /\ Len(s) \in 0 .. Len(s)
    BY FileFacts
  <2> HIDE DEF s
  <2>2. SumSeq(s) \in Nat
    BY <2>1, SumSteps DEF SumSeq
  <2> QED
    BY <2>2 DEF s
<1>3. TotalSize = SumSeq(t)
  BY DEF TotalSize
<1> HIDE DEF e
<1>4. t \in [1 .. n -> Nat]
  BY <1>2 DEF FileSet
<1> HIDE DEF t, n
<1>5. Numbers(t) /\ Len(t) = n
  BY <1>1, <1>4, FunctionsAreNumbers
<1>6. SumSeq(t) \in Nat
  <2>1. Len(t) \in 0 .. Len(t)
    BY <1>1, <1>5
  <2> QED
    BY <1>5, <2>1, SumSteps DEF SumSeq
<1>7. ASSUME NEW f \in FileSet, NEW k \in 1 .. Len(Files[f].sizes)
      PROVE  Files[f].sizes[k] \in Nat /\ Files[f].sizes[k] <= TotalSize
  <2> DEFINE s == Files[f].sizes
  <2>1. Numbers(s) /\ k \in 1 .. Len(s)
    BY FileFacts
  <2>2. s[k] \in Nat
    BY <2>1 DEF Numbers
  <2>3. e(f) = SumSeq(s)
    BY DEF e
  <2> HIDE DEF s
  <2>4. s[k] <= SumSeq(s)
    BY <2>1, SumBounds
  <2>5. f \in 1 .. Len(t) /\ t[f] = e(f)
    BY <1>5 DEF FileSet, n, t
  <2>6. t[f] <= SumSeq(t)
    BY <1>5, <2>5, SumBounds
  <2>7. e(f) \in Nat
    BY <1>2
  <2>8. s[k] <= SumSeq(t)
    <3> DEFINE x == s[k]
               y == e(f)
               z == SumSeq(t)
    <3>1. x \in Nat /\ y \in Nat /\ z \in Nat /\ x <= y /\ y <= z
      BY <1>6, <2>2, <2>3, <2>4, <2>5, <2>6, <2>7
    <3> HIDE DEF x, y, z
    <3>2. x <= z
      BY <3>1
    <3> QED
      BY <3>2 DEF x, z
  <2> QED
    BY <1>3, <2>2, <2>8 DEF s
<1> QED
  BY <1>3, <1>6, <1>7

(* The buffer has a size, and no range that is longer if there is one. *)
LEMMA LimitFacts ==
  ASSUME setup \in Setups
  PROVE  /\ MemoryLimit \in Nat
         /\ ~LimitTooSmall =>
              \A f \in FileSet : \A k \in 1 .. Len(Files[f].sizes) :
                Files[f].sizes[k] <= MemoryLimit
<1> DEFINE S == {Files[c[1]].sizes[c[2] + 1] : c \in Chunks}
           T == {0} \cup S
<1>1. ASSUME NEW c \in Chunks
      PROVE  c[1] \in FileSet /\ c[2] + 1 \in 1 .. Len(Files[c[1]].sizes)
  <2>1. PICK f \in FileSet : \E i \in 0 .. Len(Files[f].sizes) - 1 :
          c = <<f, i>>
    BY DEF Chunks
  <2>2. PICK i \in 0 .. Len(Files[f].sizes) - 1 : c = <<f, i>>
    BY <2>1
  <2>3. Len(Files[f].sizes) \in Nat
    BY FileFacts
  <2>4. i + 1 \in 1 .. Len(Files[f].sizes)
    BY <2>3
  <2> QED
    BY <2>2, <2>4
<1>2. ASSUME NEW f \in FileSet, NEW k \in 1 .. Len(Files[f].sizes)
      PROVE  Files[f].sizes[k] \in T
  <2>1. Len(Files[f].sizes) \in Nat
    BY FileFacts
  <2>2. k - 1 \in 0 .. Len(Files[f].sizes) - 1 /\ (k - 1) + 1 = k
    BY <2>1
  <2>3. <<f, k - 1>> \in Chunks
    BY <2>2 DEF Chunks
  <2>4. Files[<<f, k - 1>>[1]].sizes[<<f, k - 1>>[2] + 1] \in S
    BY <2>3
  <2> QED
    BY <2>2, <2>4
<1>3. ASSUME NEW x \in T
      PROVE  x \in Nat /\ x <= TotalSize
  <2>1. CASE x = 0
    BY <2>1, TotalFacts
  <2>2. CASE x \in S
    BY <1>1, <2>2, TotalFacts
  <2> QED
    BY <2>1, <2>2
<1>4. TotalSize \in Nat
  BY TotalFacts
<1>5. 0 \in T /\ LargestRange = SetMax(T)
  BY DEF LargestRange
<1> HIDE DEF T
<1>6. T \in SUBSET Nat /\ T # {} /\ \A x \in T : x <= TotalSize
  BY <1>3, <1>5
<1>7. SetMax(T) \in T /\ \A x \in T : x <= SetMax(T)
  BY <1>4, <1>6, MaxExists
<1>8. LargestRange \in Nat /\ LargestRange <= TotalSize
  BY <1>3, <1>5, <1>7
<1>9. setup.limit \in Nat \cup {-1}
  BY FileStreamerAssumption
<1>10. MemoryLimit \in Nat /\ (~LimitTooSmall => LargestRange <= MemoryLimit)
  BY <1>4, <1>8, <1>9 DEF MemoryLimit, LimitTooSmall
<1>11. ASSUME ~LimitTooSmall,
              NEW f \in FileSet, NEW k \in 1 .. Len(Files[f].sizes)
       PROVE  Files[f].sizes[k] <= MemoryLimit
  <2>1. Files[f].sizes[k] \in T
    BY <1>2
  <2> DEFINE x == Files[f].sizes[k]
  <2>2. x \in Nat /\ x <= LargestRange /\ LargestRange <= MemoryLimit
    BY <1>3, <1>5, <1>7, <1>10, <1>11, <2>1
  <2> HIDE DEF x
  <2>3. x <= MemoryLimit
    BY <1>8, <1>10, <2>2
  <2> QED
    BY <2>3 DEF x
<1> QED
  BY <1>10, <1>11

-----------------------------------------------------------------------------
(* The requests iterator *)

(* The bytes between two positions of a file. *)
LEMMA BytesFacts ==
  ASSUME setup \in Setups, NEW f \in FileSet,
         NEW i \in 0 .. Len(Files[f].sizes), NEW j \in i .. Len(Files[f].sizes)
  PROVE  /\ BytesOf(f, i, j) \in Nat
         /\ BytesOf(f, i, i) = 0
         /\ i < Len(Files[f].sizes) =>
              BytesOf(f, i, i + 1) = Files[f].sizes[i + 1]
<1> DEFINE s == Files[f].sizes
           a == SumTo(s)[i]
           b == SumTo(s)[j]
<1>1. Numbers(s) /\ Len(s) \in Nat
  BY FileFacts
<1>2. BytesOf(f, i, j) = b - a /\ BytesOf(f, i, i) = a - a
      /\ BytesOf(f, i, i + 1) = SumTo(s)[i + 1] - a
  BY DEF BytesOf
<1> HIDE DEF s
<1>3. i \in 0 .. Len(s) /\ j \in 0 .. Len(s) /\ i <= j
  BY <1>1 DEF s
<1>4. a \in Nat /\ b \in Nat /\ a <= b
  BY <1>1, <1>3, SumSteps, SumGrows
<1>5. ASSUME i < Len(s)
      PROVE  SumTo(s)[i + 1] = a + s[i + 1] /\ s[i + 1] \in Nat
  <2>1. i + 1 \in 1 .. Len(s) /\ (i + 1) - 1 = i
    BY <1>1, <1>3, <1>5
  <2>2. SumTo(s)[i + 1] = SumTo(s)[(i + 1) - 1] + s[i + 1]
    BY <1>1, <2>1, SumSteps
  <2> QED
    BY <1>1, <2>1, <2>2 DEF Numbers
<1> HIDE DEF a, b
<1>6. b - a \in Nat /\ a - a = 0
  BY <1>4
<1>7. i < Len(s) => SumTo(s)[i + 1] - a = s[i + 1]
  BY <1>4, <1>5
<1> QED
  BY <1>2, <1>6, <1>7 DEF s

(* next_chunks takes what fits, and a range at least if one fits. *)
LEMMA NextChunksFits ==
  ASSUME setup \in Setups, NEW f \in FileSet,
         NEW i \in 0 .. Len(Files[f].sizes), NEW size \in Nat
  PROVE  /\ NextChunks(f, i, size).file = f
         /\ NextChunks(f, i, size).first = i
         /\ NextChunks(f, i, size).last \in i .. Len(Files[f].sizes)
         /\ BytesOf(f, i, NextChunks(f, i, size).last) <= size
         /\ i < Len(Files[f].sizes) /\ Files[f].sizes[i + 1] <= size =>
              i < NextChunks(f, i, size).last
<1> DEFINE n == Len(Files[f].sizes)
           fits == {e \in i .. n : BytesOf(f, i, e) <= size}
<1>1. n \in Nat
  BY FileFacts
<1>2. /\ NextChunks(f, i, size).file = f /\ NextChunks(f, i, size).first = i
      /\ NextChunks(f, i, size).last = SetMax(fits)
  BY DEF NextChunks
<1>3. i \in fits
  BY <1>1, BytesFacts
<1>4. fits \in SUBSET Nat /\ fits # {} /\ \A e \in fits : e <= n
  BY <1>1, <1>3
<1>5. SetMax(fits) \in fits /\ \A e \in fits : e <= SetMax(fits)
  <2> HIDE DEF fits, n
  <2> QED
    BY <1>1, <1>4, MaxExists
<1>6. ASSUME i < n, Files[f].sizes[i + 1] <= size
      PROVE  i < SetMax(fits)
  <2>1. i + 1 \in i .. n
    BY <1>1, <1>6
  <2>2. BytesOf(f, i, i + 1) = Files[f].sizes[i + 1]
    BY <1>6, BytesFacts
  <2>3. i + 1 \in fits
    BY <1>6, <2>1, <2>2
  <2>4. i + 1 <= SetMax(fits) /\ SetMax(fits) \in Nat
    BY <1>4, <1>5, <2>3
  <2> HIDE DEF fits
  <2> QED
    BY <2>4
<1> QED
  BY <1>2, <1>5, <1>6

(* The request before the first file, and after file f. *)
Opened(q, index) ==
  [queue |-> q, next |-> index, parts |-> <<>>, left |-> MemoryLimit]
Packed(index, f, before) ==
  IF before.queue < f THEN before
  ELSE [queue |-> IF NextChunks(f, index[f], before.left).last
                       = Len(Files[f].sizes)
                  THEN f + 1 ELSE f,
        next |-> [before.next EXCEPT
                    ![f] = NextChunks(f, index[f], before.left).last],
        parts |-> IF NextChunks(f, index[f], before.left).last
                       = NextChunks(f, index[f], before.left).first
                  THEN before.parts
                  ELSE Append(before.parts,
                              NextChunks(f, index[f], before.left)),
        left |-> before.left
                 - BytesOf(f, NextChunks(f, index[f], before.left).first,
                           NextChunks(f, index[f], before.left).last)]

(* The recursion of Packing defines a function. *)
LEMMA PackingIsDefined ==
  ASSUME setup \in Setups, NEW q \in Nat \ {0}, NEW index
  PROVE  Packing(q, index) = [f \in 0 .. Len(Files) |->
           IF f < q THEN Opened(q, index)
           ELSE Packed(index, f, Packing(q, index)[f - 1])]
<1>1. Len(Files) \in Nat
  BY FileFacts
<1> DEFINE Rec(g, m) ==
      g = [f \in 0 .. m |-> IF f < q THEN Opened(q, index)
                            ELSE Packed(index, f, g[f - 1])]
<1> HIDE DEF Rec
<1> DEFINE S == {m \in Nat : m <= Len(Files) => \E g : Rec(g, m)}
<1>2. 0 \in S
  <2>1. Rec([f \in 0 .. 0 |-> Opened(q, index)], 0)
    BY DEF Rec
  <2> QED
    BY <2>1
<1>3. ASSUME NEW m \in Nat, m \in S
      PROVE  m + 1 \in S
  <2> SUFFICES ASSUME m + 1 <= Len(Files)
               PROVE  \E g : Rec(g, m + 1)
    OBVIOUS
  <2>1. PICK g : Rec(g, m)
    BY <1>1, <1>3
  <2> DEFINE h == [f \in 0 .. m + 1 |-> IF f < q THEN Opened(q, index)
                                        ELSE Packed(index, f, g[f - 1])]
  <2>2. ASSUME NEW f \in 0 .. m
        PROVE  h[f] = g[f]
    BY <2>1 DEF Rec
  <2>3. \A f \in 0 .. m + 1 : ~(f < q) => h[f - 1] = g[f - 1]
    <3> SUFFICES ASSUME NEW f \in 0 .. m + 1, ~(f < q)
                 PROVE  h[f - 1] = g[f - 1]
      OBVIOUS
    <3>1. f - 1 \in 0 .. m
      OBVIOUS
    <3> QED
      BY <2>2, <3>1
  <2>4. h = [f \in 0 .. m + 1 |-> IF f < q THEN Opened(q, index)
                                  ELSE Packed(index, f, h[f - 1])]
    BY <2>3
  <2> HIDE DEF h
  <2>5. Rec(h, m + 1)
    BY <2>4 DEF Rec
  <2> QED
    BY <2>5
<1>4. Nat \subseteq S
  BY <1>2, <1>3, Induction
<1>5. \E g : Rec(g, Len(Files))
  BY <1>1, <1>4
<1>6. Packing(q, index) = CHOOSE g : Rec(g, Len(Files))
  BY DEF Packing, Rec, Opened, Packed
<1>7. Rec(Packing(q, index), Len(Files))
  BY <1>5, <1>6
<1> QED
  BY <1>7 DEF Rec

(* Where an iterator may be: within each file, and at the end of those     *)
(* before the first of q.                                                  *)
Position(q, index) ==
  /\ q \in Nat \ {0}
  /\ index \in [FileSet -> Nat]
  /\ \A g \in FileSet :
       /\ index[g] <= Len(Files[g].sizes)
       /\ g < q => index[g] = Len(Files[g].sizes)

(* A request from there on, after file f: what is between two positions of *)
(* each file, of at most as many bytes as the buffer has; nothing only if  *)
(* no file up to f has anything left.                                      *)
RequestAfter(q, index, f, p) ==
  /\ Position(p.queue, p.next)
  /\ p.queue >= q
  /\ p.left \in Nat
  /\ p.left + SumSeq(FlatSizes(p.parts)) = MemoryLimit
  /\ Cut(p.parts)
  /\ \A i \in DOMAIN p.parts :
       /\ p.parts[i].file <= f
       /\ p.parts[i].first = index[p.parts[i].file]
       /\ p.parts[i].last = p.next[p.parts[i].file]
  /\ \A g \in FileSet :
       /\ index[g] <= p.next[g]
       /\ g > f => p.next[g] = index[g]
       /\ index[g] < p.next[g] =>
            \E i \in DOMAIN p.parts : p.parts[i].file = g
  /\ p.parts = <<>> => p.queue > f

(* A request of nothing has no bytes. *)
LEMMA NothingCut ==
  ASSUME setup \in Setups
  PROVE  Cut(<<>>) /\ SumSeq(FlatSizes(<<>>)) = 0
<1>1. Cut(<<>>)
  <2>1. <<>> \in Seq(Part) /\ DOMAIN <<>> = {}
    BY EmptySeq, SMT
  <2> QED
    BY <2>1 DEF Cut
<1>2. Counted(<<>>) /\ Len(<<>>) = 0
  BY <1>1, CutIsCounted, EmptySeq
<1>3. Numbers(NumRanges(<<>>)) /\ Len(NumRanges(<<>>)) = 0
  BY <1>2, CountsAreNumbers
<1>4. SumSeq(NumRanges(<<>>)) = 0
  BY <1>3, SumSteps DEF SumSeq
<1>5. Numbers(FlatSizes(<<>>)) /\ Len(FlatSizes(<<>>)) = 0
  BY <1>1, <1>4, SizesAreNumbers
<1>6. SumSeq(FlatSizes(<<>>)) = 0
  BY <1>5, SumSteps DEF SumSeq
<1> QED
  BY <1>1, <1>6

(* A file more is packed. *)
LEMMA PackedStep ==
  ASSUME setup \in Setups, ~LimitTooSmall, NEW q, NEW index,
         Position(q, index), NEW f \in FileSet, f >= q, NEW b,
         RequestAfter(q, index, f - 1, b), b.queue >= f, NEW p,
         p = Packed(index, f, b)
  PROVE  RequestAfter(q, index, f, p)
<1> DEFINE c == NextChunks(f, index[f], b.left)
           n == Len(Files[f].sizes)
<1>1. /\ n \in Nat /\ f \in Nat
      /\ q \in Nat \ {0} /\ index \in [FileSet -> Nat]
      /\ index[f] \in 0 .. n /\ b.left \in Nat
      /\ b.queue \in Nat \ {0} /\ b.next \in [FileSet -> Nat]
      /\ b.queue >= q
  BY FileFacts DEF Position, RequestAfter, FileSet
<1>2. /\ c.file = f /\ c.first = index[f]
      /\ c.last \in index[f] .. n
      /\ BytesOf(f, index[f], c.last) <= b.left
      /\ index[f] < n /\ Files[f].sizes[index[f] + 1] <= b.left =>
           index[f] < c.last
  BY <1>1, NextChunksFits
<1>3. BytesOf(f, index[f], c.last) \in Nat
  BY <1>1, <1>2, BytesFacts
<1>4. c \in Part /\ c = [file |-> f, first |-> index[f], last |-> c.last]
  <2>1. c = [file |-> f, first |-> index[f], last |-> c.last]
    BY DEF NextChunks
  <2>2. f \in Nat /\ index[f] \in Nat /\ c.last \in Nat
    BY <1>1, <1>2
  <2> HIDE DEF c
  <2> QED
    BY <2>1, <2>2 DEF Part
<1>5. /\ p.queue = IF c.last = n THEN f + 1 ELSE f
      /\ p.next = [b.next EXCEPT ![f] = c.last]
      /\ p.parts = IF c.last = index[f] THEN b.parts ELSE Append(b.parts, c)
      /\ p.left = b.left - BytesOf(f, index[f], c.last)
  <2>1. ~(b.queue < f)
    BY <1>1
  <2>2. p = [queue |-> IF c.last = n THEN f + 1 ELSE f,
             next |-> [b.next EXCEPT ![f] = c.last],
             parts |-> IF c.last = c.first THEN b.parts ELSE Append(b.parts, c),
             left |-> b.left - BytesOf(f, c.first, c.last)]
    BY <2>1 DEF Packed
  <2>3. c.first = index[f]
    BY <1>2
  <2> HIDE DEF c
  <2> QED
    BY <2>2, <2>3
<1> HIDE DEF c
<1>6. /\ b.next[f] = index[f]
      /\ \A g \in FileSet : g # f => p.next[g] = b.next[g]
      /\ p.next[f] = c.last
      /\ p.next \in [FileSet -> Nat]
  <2>1. f > f - 1
    BY <1>1
  <2>2. b.next[f] = index[f]
    BY <2>1 DEF RequestAfter
  <2>3. c.last \in Nat
    BY <1>1, <1>2
  <2> QED
    BY <1>1, <1>5, <2>2, <2>3
<1>7. \A g \in FileSet : g < f => p.next[g] = Len(Files[g].sizes)
  <2> SUFFICES ASSUME NEW g \in FileSet, g < f
               PROVE  p.next[g] = Len(Files[g].sizes)
    OBVIOUS
  <2>1. g < b.queue /\ g # f
    BY <1>1 DEF FileSet
  <2> QED
    BY <1>6, <2>1 DEF RequestAfter, Position
<1>8. Position(p.queue, p.next) /\ p.queue >= q
  <2>1. p.queue \in Nat \ {0} /\ p.queue >= q /\ p.queue <= f + 1
        /\ (p.queue = f + 1 => c.last = n)
    BY <1>1, <1>5
  <2>2. ASSUME NEW g \in FileSet
        PROVE  /\ p.next[g] <= Len(Files[g].sizes)
               /\ g < p.queue => p.next[g] = Len(Files[g].sizes)
    <3>1. CASE g = f
      <4>1. c.last <= n
        BY <1>1, <1>2
      <4>2. f < p.queue => c.last = n
        BY <1>1, <1>5
      <4> QED
        BY <1>6, <3>1, <4>1, <4>2
    <3>2. CASE g # f
      <4>1. p.next[g] = b.next[g]
        BY <1>6, <3>2
      <4>2. b.next[g] <= Len(Files[g].sizes)
        BY DEF RequestAfter, Position
      <4>3. g < p.queue => g < f
        BY <1>1, <2>1, <3>2 DEF FileSet
      <4> QED
        BY <1>7, <4>1, <4>2, <4>3
    <3> QED
      BY <3>1, <3>2
  <2> QED
    BY <1>6, <2>1, <2>2 DEF Position
<1>9. CASE c.last = index[f]
  <2>1. p.parts = b.parts /\ p.left = b.left /\ p.next = b.next
    <3>1. BytesOf(f, index[f], c.last) = 0
      <4>1. index[f] \in index[f] .. Len(Files[f].sizes)
        BY <1>1
      <4>2. BytesOf(f, index[f], index[f]) = 0
        BY <1>1, <4>1, BytesFacts
      <4> QED
        BY <1>9, <4>2
    <3>2. p.next = b.next
      BY <1>1, <1>5, <1>6, <1>9
    <3>3. p.left = b.left
      BY <1>1, <1>5, <3>1
    <3> QED
      BY <1>5, <1>9, <3>2, <3>3
  <2>2. p.parts = <<>> => p.queue > f
    <3> SUFFICES ASSUME p.parts = <<>>
                 PROVE  p.queue > f
      OBVIOUS
    <3>1. b.left = MemoryLimit
      <4>1. b.left + SumSeq(FlatSizes(<<>>)) = MemoryLimit
        BY <2>1 DEF RequestAfter
      <4> QED
        BY <1>1, <4>1, NothingCut
    <3>2. ~(index[f] < n)
      <4> SUFFICES ASSUME index[f] < n
                   PROVE  FALSE
        OBVIOUS
      <4>1. index[f] + 1 \in 1 .. n
        BY <1>1
      <4>2. Files[f].sizes[index[f] + 1] <= MemoryLimit
        BY <4>1, LimitFacts
      <4>3. index[f] < c.last
        BY <1>2, <3>1, <4>2
      <4> QED
        BY <1>1, <1>9, <4>3
    <3>3. c.last = n
      BY <1>1, <1>9, <3>2
    <3> QED
      BY <1>1, <1>5, <3>3
  <2>3. \A i \in DOMAIN p.parts : p.parts[i].file <= f
    <3> SUFFICES ASSUME NEW i \in DOMAIN p.parts
                 PROVE  p.parts[i].file <= f
      OBVIOUS
    <3>1. p.parts[i].file \in FileSet /\ p.parts[i].file <= f - 1
      BY <2>1 DEF RequestAfter, Cut
    <3> QED
      BY <1>1, <3>1 DEF FileSet
  <2>4. \A g \in FileSet : g > f => p.next[g] = index[g]
    <3> SUFFICES ASSUME NEW g \in FileSet, g > f
                 PROVE  p.next[g] = index[g]
      OBVIOUS
    <3>1. g > f - 1
      BY <1>1 DEF FileSet
    <3> QED
      BY <2>1, <3>1 DEF RequestAfter
  <2> QED
    BY <1>8, <2>1, <2>2, <2>3, <2>4 DEF RequestAfter
<1>10. CASE c.last # index[f]
  <2> DEFINE m == Len(b.parts)
  <2>1. /\ p.parts = Append(b.parts, c)
        /\ index[f] < c.last
    <3>1. p.parts = Append(b.parts, c)
      BY <1>5, <1>10
    <3>2. c.last \in index[f] .. n /\ index[f] \in Nat /\ n \in Nat
      BY <1>1, <1>2
    <3>3. index[f] < c.last
      BY <1>10, <3>2
    <3> QED
      BY <3>1, <3>3
  <2>2. /\ b.parts \in Seq(Part) /\ m \in Nat /\ DOMAIN b.parts = 1 .. m
    BY LenProperties DEF RequestAfter, Cut
  <2>3. /\ p.parts \in Seq(Part) /\ DOMAIN p.parts = 1 .. m + 1
        /\ \A i \in 1 .. m : p.parts[i] = b.parts[i]
        /\ p.parts[m + 1] = c
    <3>1. /\ p.parts \in Seq(Part) /\ Len(p.parts) = m + 1
          /\ \A i \in 1 .. m + 1 :
               p.parts[i] = IF i <= m THEN b.parts[i] ELSE c
      BY <1>4, <2>1, <2>2, AppendProperties
    <3>2. DOMAIN p.parts = 1 .. m + 1
      BY <3>1, LenProperties
    <3> QED
      BY <2>2, <3>1, <3>2
  <2>4. \A i \in 1 .. m :
          /\ b.parts[i].file \in FileSet /\ b.parts[i].file <= f - 1
          /\ b.parts[i].file < f /\ b.parts[i].file # f
          /\ b.parts[i].first = index[b.parts[i].file]
          /\ b.parts[i].last = b.next[b.parts[i].file]
    <3> SUFFICES ASSUME NEW i \in 1 .. m
                 PROVE  /\ b.parts[i].file \in FileSet
                        /\ b.parts[i].file <= f - 1
                        /\ b.parts[i].file < f /\ b.parts[i].file # f
                        /\ b.parts[i].first = index[b.parts[i].file]
                        /\ b.parts[i].last = b.next[b.parts[i].file]
      OBVIOUS
    <3>1. /\ b.parts[i].file \in FileSet /\ b.parts[i].file <= f - 1
          /\ b.parts[i].first = index[b.parts[i].file]
          /\ b.parts[i].last = b.next[b.parts[i].file]
      BY <2>2 DEF RequestAfter, Cut
    <3>2. \A g \in FileSet : g <= f - 1 => g < f /\ g # f
      BY <1>1 DEF FileSet
    <3> QED
      BY <3>1, <3>2
  <2>5. ASSUME NEW i \in DOMAIN p.parts
        PROVE  /\ p.parts[i].file \in FileSet
               /\ p.parts[i].first < p.parts[i].last
               /\ p.parts[i].last <= Len(Files[p.parts[i].file].sizes)
               /\ p.parts[i].file <= f
               /\ p.parts[i].first = index[p.parts[i].file]
               /\ p.parts[i].last = p.next[p.parts[i].file]
               /\ \A j \in DOMAIN p.parts :
                    p.parts[j].file = p.parts[i].file => j = i
    <3>1. CASE i \in 1 .. m
      <4>1. p.parts[i] = b.parts[i]
        BY <2>3, <3>1
      <4>2. /\ b.parts[i].first < b.parts[i].last
            /\ b.parts[i].last <= Len(Files[b.parts[i].file].sizes)
            /\ \A j \in 1 .. m : b.parts[j].file = b.parts[i].file => j = i
        BY <2>2, <3>1 DEF RequestAfter, Cut
      <4>3. /\ b.parts[i].file \in FileSet /\ b.parts[i].file # f
            /\ b.parts[i].first = index[b.parts[i].file]
            /\ b.parts[i].last = b.next[b.parts[i].file]
            /\ b.parts[i].file <= f
        <5>1. /\ b.parts[i].file \in FileSet /\ b.parts[i].file # f
              /\ b.parts[i].first = index[b.parts[i].file]
              /\ b.parts[i].last = b.next[b.parts[i].file]
              /\ b.parts[i].file < f
          BY <2>4, <3>1
        <5>2. \A g \in FileSet : g < f => g <= f
          BY <1>1 DEF FileSet
        <5> QED
          BY <5>1, <5>2
      <4>4. p.next[b.parts[i].file] = b.next[b.parts[i].file]
        BY <1>6, <4>3
      <4>5. \A j \in DOMAIN p.parts :
              p.parts[j].file = p.parts[i].file => j = i
        <5> SUFFICES ASSUME NEW j \in DOMAIN p.parts,
                            p.parts[j].file = p.parts[i].file
                     PROVE  j = i
          OBVIOUS
        <5>1. j # m + 1
          BY <1>2, <2>3, <4>1, <4>3
        <5>2. j \in 1 .. m
          BY <2>2, <2>3, <5>1
        <5> QED
          BY <2>3, <4>1, <4>2, <5>2
      <4> QED
        BY <4>1, <4>2, <4>3, <4>4, <4>5
    <3>2. CASE i = m + 1
      <4>1. p.parts[i] = c
        BY <2>3, <3>2
      <4>2. \A j \in DOMAIN p.parts : p.parts[j].file = f => j = i
        <5> SUFFICES ASSUME NEW j \in DOMAIN p.parts, p.parts[j].file = f,
                            j # i
                     PROVE  FALSE
          OBVIOUS
        <5>1. j \in 1 .. m
          BY <2>2, <2>3, <3>2
        <5> QED
          BY <2>3, <2>4, <5>1
      <4>3. c.last <= n /\ f <= f
        BY <1>1, <1>2
      <4> QED
        BY <1>2, <1>6, <2>1, <4>1, <4>2, <4>3
    <3> QED
      BY <2>2, <2>3, <3>1, <3>2
  <2>6. Cut(p.parts)
    BY <2>3, <2>5 DEF Cut
  <2>7. p.left \in Nat /\ p.left + SumSeq(FlatSizes(p.parts)) = MemoryLimit
    <3> DEFINE x == SumSeq(FlatSizes(b.parts))
               y == SumSeq(FlatSizes(p.parts))
               z == BytesOf(f, index[f], c.last)
               l == b.left
    <3>1. Cut(b.parts) /\ b.left + x = MemoryLimit
      BY DEF RequestAfter
    <3>2. SumSeq(FlatSizes(Append(b.parts, c)))
            = SumSeq(FlatSizes(b.parts)) + BytesOf(c.file, c.first, c.last)
      BY <1>4, <2>1, <2>6, <3>1, BytesAppended
    <3>3. y = x + z
      BY <1>2, <2>1, <3>2
    <3>4. x \in Nat
      <4>1. Numbers(FlatSizes(b.parts))
        BY <3>1, SizesAreNumbers
      <4>2. Len(FlatSizes(b.parts)) \in 0 .. Len(FlatSizes(b.parts))
        BY <4>1 DEF Numbers
      <4> QED
        BY <4>1, <4>2, SumSteps DEF SumSeq
    <3>5. z \in Nat /\ z <= l /\ l \in Nat /\ p.left = l - z
          /\ l + x = MemoryLimit
      BY <1>1, <1>2, <1>3, <1>5, <3>1
    <3> HIDE DEF x, y, z, l
    <3>6. p.left \in Nat /\ p.left + y = MemoryLimit
      BY <3>3, <3>4, <3>5
    <3> QED
      BY <3>6 DEF y
  <2>8. ASSUME NEW g \in FileSet
        PROVE  /\ index[g] <= p.next[g]
               /\ g > f => p.next[g] = index[g]
               /\ index[g] < p.next[g] =>
                    \E i \in DOMAIN p.parts : p.parts[i].file = g
    <3>1. CASE g = f
      <4>1. m + 1 \in DOMAIN p.parts /\ p.parts[m + 1].file = f
        BY <1>2, <2>2, <2>3
      <4>2. index[f] <= p.next[f] /\ ~(f > f)
        BY <1>1, <1>2, <1>6
      <4> QED
        BY <3>1, <4>1, <4>2
    <3>2. CASE g # f
      <4>1. p.next[g] = b.next[g]
        BY <1>6, <3>2
      <4>2. /\ index[g] <= b.next[g]
            /\ g > f - 1 => b.next[g] = index[g]
            /\ index[g] < b.next[g] =>
                 \E i \in DOMAIN b.parts : b.parts[i].file = g
        BY DEF RequestAfter
      <4>3. g > f => g > f - 1
        BY <1>1 DEF FileSet
      <4>4. ASSUME NEW i \in DOMAIN b.parts, b.parts[i].file = g
            PROVE  \E k \in DOMAIN p.parts : p.parts[k].file = g
        <5>1. i \in DOMAIN p.parts /\ p.parts[i] = b.parts[i]
          BY <2>2, <2>3
        <5> QED
          BY <4>4, <5>1
      <4> QED
        BY <4>1, <4>2, <4>3, <4>4
    <3> QED
      BY <3>1, <3>2
  <2>9. p.parts # <<>>
    <3>1. m + 1 \in DOMAIN p.parts
      BY <2>2, <2>3
    <3> QED
      BY <3>1, EmptySeq
  <2> QED
    BY <1>8, <2>5, <2>6, <2>7, <2>8, <2>9 DEF RequestAfter
<1> QED
  BY <1>9, <1>10

(* The request after the last file. *)
LEMMA NextRequestFacts ==
  ASSUME setup \in Setups, ~LimitTooSmall, NEW q, NEW index,
         Position(q, index)
  PROVE  RequestAfter(q, index, Len(Files), NextRequest(q, index))
<1> DEFINE n == Len(Files)
           pack == Packing(q, index)
<1>1. n \in Nat /\ q \in Nat \ {0} /\ index \in [FileSet -> Nat]
  BY FileFacts DEF Position
<1>2. pack = [f \in 0 .. n |-> IF f < q THEN Opened(q, index)
                               ELSE Packed(index, f, pack[f - 1])]
  BY <1>1, PackingIsDefined
<1> HIDE DEF pack
<1>3. ASSUME NEW f \in 0 .. n, f < q
      PROVE  RequestAfter(q, index, f, pack[f])
  <2>1. pack[f] = Opened(q, index)
    BY <1>2, <1>3
  <2> DEFINE p == Opened(q, index)
  <2>2. /\ p.queue = q /\ p.next = index /\ p.parts = <<>>
        /\ p.left = MemoryLimit
    BY DEF Opened
  <2> HIDE DEF p
  <2>3. MemoryLimit \in Nat /\ Cut(<<>>) /\ SumSeq(FlatSizes(<<>>)) = 0
    BY LimitFacts, NothingCut
  <2>4. p.left + SumSeq(FlatSizes(p.parts)) = MemoryLimit
    BY <2>2, <2>3
  <2>5. q >= q /\ q > f /\ DOMAIN <<>> = {}
    BY <1>1, <1>3
  <2>6. \A g \in FileSet : index[g] <= index[g] /\ ~(index[g] < index[g])
    BY <1>1
  <2>7. RequestAfter(q, index, f, p)
    BY <2>2, <2>3, <2>4, <2>5, <2>6 DEF RequestAfter
  <2> QED
    BY <2>1, <2>7 DEF p
<1> DEFINE S == {f \in Nat : f <= n => RequestAfter(q, index, f, pack[f])}
<1>4. 0 \in S
  BY <1>1, <1>3
<1>5. ASSUME NEW e \in Nat, e \in S
      PROVE  e + 1 \in S
  <2> SUFFICES ASSUME e + 1 <= n, ~(e + 1 < q)
               PROVE  RequestAfter(q, index, e + 1, pack[e + 1])
    <3>1. e + 1 <= n => e + 1 \in 0 .. n
      BY <1>1
    <3> QED
      BY <1>3, <3>1
  <2> DEFINE f == e + 1
  <2>1. f \in 0 .. n /\ f - 1 = e /\ f >= q /\ ~(f < q) /\ f \in FileSet
    BY <1>1 DEF FileSet
  <2>2. pack[f] = Packed(index, f, pack[f - 1])
    BY <1>2, <2>1
  <2>3. RequestAfter(q, index, f - 1, pack[f - 1])
    BY <1>1, <1>5, <2>1
  <2> HIDE DEF f
  <2> DEFINE b == pack[f - 1]
  <2> HIDE DEF b
  <2>4. CASE b.queue < f
    <3>1. pack[f] = b
      BY <2>2, <2>4 DEF Packed, b
    <3>2. RequestAfter(q, index, f - 1, b)
      BY <2>3 DEF b
    <3>3. b.queue \in Nat
      BY <3>2 DEF RequestAfter, Position
    <3>4. b.parts # <<>>
      <4>1. ~(b.queue > f - 1)
        BY <2>1, <2>4, <3>3
      <4> QED
        BY <3>2, <4>1 DEF RequestAfter
    <3>5. /\ \A g \in FileSet : g > f => g > f - 1
          /\ \A g \in FileSet : g <= f - 1 => g <= f
      BY <2>1 DEF FileSet
    <3>6. \A i \in DOMAIN b.parts : b.parts[i].file \in FileSet
      BY <3>2 DEF RequestAfter, Cut
    <3>7. RequestAfter(q, index, f, b)
      BY <3>2, <3>4, <3>5, <3>6 DEF RequestAfter
    <3> QED
      BY <3>1, <3>7 DEF f
  <2>5. CASE ~(b.queue < f)
    <3>1. RequestAfter(q, index, f - 1, b)
      BY <2>3 DEF b
    <3>2. b.queue >= f
      BY <2>1, <2>5, <3>1 DEF RequestAfter, Position
    <3>3. RequestAfter(q, index, f, pack[f])
      BY <2>1, <2>2, <3>1, <3>2, PackedStep DEF b
    <3> QED
      BY <3>3 DEF f
  <2> QED
    BY <2>4, <2>5
<1>6. Nat \subseteq S
  BY <1>4, <1>5, Induction
<1>7. RequestAfter(q, index, n, pack[n])
  BY <1>1, <1>6
<1> QED
  BY <1>7 DEF NextRequest, pack

(* An iterator at its end stays there. *)
LEMMA NothingLeft ==
  ASSUME setup \in Setups, NEW q \in Nat \ {0}, NEW index, q > Len(Files)
  PROVE  /\ NextRequest(q, index).queue = q
         /\ NextRequest(q, index).next = index
         /\ NextRequest(q, index).parts = <<>>
<1>1. Len(Files) \in 0 .. Len(Files) /\ Len(Files) < q
  BY FileFacts
<1>2. NextRequest(q, index) = Opened(q, index)
  BY <1>1, PackingIsDefined DEF NextRequest
<1> QED
  BY <1>2 DEF Opened

(* What is cut from where the files are. *)
CutFrom(parts, index) ==
  /\ Cut(parts)
  /\ index \in [FileSet -> Nat]
  /\ \A i \in DOMAIN parts : parts[i].first = index[parts[i].file]

ChunkAt(index, r) == <<r.path, index[r.path] + r.index - 1>>

(* A range of a submission is one chunk of a file, and its bytes have a    *)
(* place in the buffer.                                                    *)
LEMMA ChunkFacts ==
  ASSUME setup \in Setups, NEW parts, NEW index, CutFrom(parts, index),
         NEW id, NEW stream, NEW r \in SubmitRequest(parts, id, stream)
  PROVE  /\ r.path \in FileSet
         /\ ChunkAt(index, r) \in Chunks
         /\ ChunkAt(index, r)[1] = r.path
         /\ ChunkAt(index, r)[2] \in Nat
         /\ index[r.path] <= ChunkAt(index, r)[2]
         /\ \E i \in DOMAIN parts : /\ parts[i].file = r.path
                                    /\ ChunkAt(index, r)[2] < parts[i].last
         /\ r.size = Files[r.path].sizes[ChunkAt(index, r)[2] + 1]
         /\ r.offset = Files[r.path].offsets[ChunkAt(index, r)[2] + 1]
         /\ r.size \in Nat /\ r.offset \in Nat /\ r.dst \in Nat
         /\ r.dst + r.size <= SumSeq(FlatSizes(parts))
         /\ r.sub = id /\ r.buffer = stream
<1>1. Cut(parts) /\ index \in [FileSet -> Nat]
  BY DEF CutFrom
<1>2. PICK i \in DOMAIN parts : r.fileIndex = i
  BY <1>1, SubmittedRanges
<1>3. PICK j \in 1 .. NumRanges(parts)[i] : r.index = j
  BY <1>1, <1>2, SubmittedRanges
<1>4. IsRange(r, parts, i, j, id, stream)
  BY <1>1, <1>2, <1>3, SubmittedRanges
<1>5. /\ parts[i].file \in FileSet /\ parts[i].first = index[parts[i].file]
      /\ parts[i].first \in Nat /\ parts[i].last \in Nat
      /\ NumRanges(parts)[i] = parts[i].last - parts[i].first
      /\ parts[i].last <= Len(Files[parts[i].file].sizes)
      /\ Len(Files[parts[i].file].sizes) \in Nat
  BY <1>1, CutIsCounted, FileFacts DEF CutFrom, Cut
<1> DEFINE x == parts[i].first + j - 1
<1>6. /\ r.path = parts[i].file /\ index[r.path] = parts[i].first
      /\ ChunkAt(index, r) = <<r.path, x>>
  BY <1>3, <1>4, <1>5 DEF IsRange, ChunkAt
<1>7. /\ x \in Nat /\ x + 1 = parts[i].first + j
      /\ x \in 0 .. Len(Files[parts[i].file].sizes) - 1
      /\ parts[i].first <= x /\ x < parts[i].last
  <2> DEFINE a == parts[i].first
             b == parts[i].last
             c == Len(Files[parts[i].file].sizes)
  <2>1. /\ a \in Nat /\ b \in Nat /\ c \in Nat /\ b <= c
        /\ j \in 1 .. b - a
    BY <1>3, <1>5
  <2> HIDE DEF a, b, c
  <2> DEFINE y == a + j - 1
  <2>2. /\ y \in Nat /\ y + 1 = a + j /\ y \in 0 .. c - 1
        /\ a <= y /\ y < b
    BY <2>1
  <2> QED
    BY <2>2 DEF a, b, c
<1> HIDE DEF x
<1>8. <<r.path, x>> \in Chunks
  BY <1>5, <1>6, <1>7 DEF Chunks
<1>9. r.dst \in Nat /\ r.dst + r.size <= SumSeq(FlatSizes(parts))
  BY <1>1, <1>4, RangeEnds
<1>10. /\ r.size = Files[r.path].sizes[x + 1]
       /\ r.offset = Files[r.path].offsets[x + 1]
       /\ r.size \in Nat /\ r.offset \in Nat
       /\ r.sub = id /\ r.buffer = stream
  BY <1>4, <1>7 DEF IsRange
<1> QED
  BY <1>2, <1>5, <1>6, <1>7, <1>8, <1>9, <1>10

(* Two ranges are different chunks, in different places. *)
LEMMA ChunksApart ==
  ASSUME setup \in Setups, NEW parts, NEW index, CutFrom(parts, index),
         NEW id, NEW stream, NEW r \in SubmitRequest(parts, id, stream),
         NEW s \in SubmitRequest(parts, id, stream), r # s
  PROVE  /\ ChunkAt(index, r) # ChunkAt(index, s)
         /\ r.dst + r.size <= s.dst \/ s.dst + s.size <= r.dst
<1>1. Cut(parts) /\ index \in [FileSet -> Nat]
  BY DEF CutFrom
<1> DEFINE i == r.fileIndex
           j == r.index
           h == s.fileIndex
           l == s.index
<1>2. /\ i \in DOMAIN parts /\ j \in 1 .. NumRanges(parts)[i]
      /\ r = RangeOf(parts, i, j, id, stream)
      /\ IsRange(r, parts, i, j, id, stream)
  BY <1>1, SubmittedRanges
<1>3. /\ h \in DOMAIN parts /\ l \in 1 .. NumRanges(parts)[h]
      /\ s = RangeOf(parts, h, l, id, stream)
      /\ IsRange(s, parts, h, l, id, stream)
  BY <1>1, SubmittedRanges
<1>4. <<i, j>> # <<h, l>>
  BY <1>2, <1>3
<1> HIDE DEF i, j, h, l
<1>5. r.dst + r.size <= s.dst \/ s.dst + s.size <= r.dst
  BY <1>1, <1>2, <1>3, <1>4, RangesApart
<1>6. ASSUME ChunkAt(index, r) = ChunkAt(index, s)
      PROVE  FALSE
  <2>1. /\ r.path = s.path
        /\ index[r.path] + r.index - 1 = index[s.path] + s.index - 1
    BY <1>6 DEF ChunkAt
  <2>2. parts[i].file = parts[h].file /\ r.index = j /\ s.index = l
        /\ r.path = parts[i].file
    BY <1>2, <1>3, <2>1 DEF IsRange
  <2>3. i = h /\ index[r.path] \in Nat
    BY <1>1, <1>2, <1>3, <2>2 DEF Cut
  <2>4. NumRanges(parts)[i] \in Nat /\ NumRanges(parts)[h] \in Nat
    BY <1>1, <1>2, <1>3, CutIsCounted
  <2>5. j \in Nat /\ l \in Nat
    BY <1>2, <1>3, <2>4
  <2>6. index[r.path] + j - 1 = index[r.path] + l - 1
    BY <2>1, <2>2
  <2> DEFINE x == index[r.path]
  <2>7. x \in Nat /\ x + j - 1 = x + l - 1
    BY <2>3, <2>6
  <2> HIDE DEF x
  <2>8. j = l
    BY <2>5, <2>7
  <2> QED
    BY <1>4, <2>3, <2>8
<1> QED
  BY <1>5, <1>6

(* Each chunk between the two positions of a file is a range. *)
LEMMA RangeExists ==
  ASSUME setup \in Setups, NEW parts, NEW index, CutFrom(parts, index),
         NEW id, NEW stream, NEW i \in DOMAIN parts,
         NEW x \in Nat, parts[i].first <= x, x < parts[i].last
  PROVE  \E r \in SubmitRequest(parts, id, stream) :
           ChunkAt(index, r) = <<parts[i].file, x>>
<1>1. Cut(parts) /\ index \in [FileSet -> Nat]
  BY DEF CutFrom
<1>2. /\ parts[i].first = index[parts[i].file]
      /\ parts[i].first \in Nat /\ parts[i].last \in Nat
      /\ NumRanges(parts)[i] = parts[i].last - parts[i].first
  BY <1>1, CutIsCounted DEF CutFrom
<1> DEFINE j == x - parts[i].first + 1
           r == RangeOf(parts, i, j, id, stream)
<1>3. j \in 1 .. NumRanges(parts)[i] /\ parts[i].first + j - 1 = x
  BY <1>2
<1> HIDE DEF j
<1>4. r \in SubmitRequest(parts, id, stream)
  BY <1>1, <1>3, SubmittedRanges
<1>5. IsRange(r, parts, i, j, id, stream)
  BY <1>1, <1>3, RangeFacts
<1> HIDE DEF r
<1>6. ChunkAt(index, r) = <<parts[i].file, x>>
  BY <1>2, <1>3, <1>5 DEF IsRange, ChunkAt
<1> QED
  BY <1>4, <1>6

-----------------------------------------------------------------------------
(* Steps of the session *)

(* The files of a session stay. *)
LEMMA Still ==
  ASSUME UNCHANGED setup
  PROVE  /\ Files' = Files /\ FileSet' = FileSet /\ Chunks' = Chunks
         /\ MemoryLimit' = MemoryLimit /\ LimitTooSmall' = LimitTooSmall
         /\ \A P : FlatSizes(P)' = FlatSizes(P)
         /\ \A P, i, s : SubmitRequest(P, i, s)' = SubmitRequest(P, i, s)
<1>1. Files' = Files /\ FileSet' = FileSet
  BY DEF Files, FileSet
<1>2. Chunks' = Chunks
  BY <1>1 DEF Chunks
<1>3. MemoryLimit' = MemoryLimit /\ LimitTooSmall' = LimitTooSmall
  <2>1. TotalSize' = TotalSize
    BY <1>1 DEF TotalSize
  <2>2. LargestRange' = LargestRange
    BY <1>1, <1>2 DEF LargestRange
  <2> QED
    BY <2>1, <2>2 DEF MemoryLimit, LimitTooSmall
<1>4. ASSUME NEW P
      PROVE  /\ FlatSizes(P)' = FlatSizes(P)
             /\ FlatOffsets(P)' = FlatOffsets(P)
             /\ RangeDsts(P)' = RangeDsts(P)
  <2>1. FlatSizes(P)' = FlatSizes(P)
    BY <1>1 DEF FlatSizes, SizeAt
  <2>2. FlatOffsets(P)' = FlatOffsets(P)
    BY <1>1 DEF FlatOffsets, OffsetAt
  <2>3. RangeDsts(P)' = RangeDsts(P)
    BY <2>1 DEF RangeDsts
  <2> QED
    BY <2>1, <2>2, <2>3
<1>5. ASSUME NEW P, NEW i, NEW s
      PROVE  SubmitRequest(P, i, s)' = SubmitRequest(P, i, s)
  <2>1. \A h, j : RangeOf(P, h, j, i, s)' = RangeOf(P, h, j, i, s)
    BY <1>4 DEF RangeOf
  <2> QED
    BY <2>1 DEF SubmitRequest
<1> QED
  BY <1>1, <1>2, <1>3, <1>4, <1>5

(* The active submission, after a step that knows its parts. *)
LEMMA Submitted ==
  ASSUME UNCHANGED setup, NEW P, request' = P, NEW i, submission' = i,
         NEW s, streams' = s
  PROVE  /\ Ranges' = SubmitRequest(P, i, s)
         /\ SumSeq(FlatSizes(request))' = SumSeq(FlatSizes(P))
         /\ Owed' = SumSeq(NumRanges(P))
<1>1. Files' = Files
  BY Still
<1>2. FlatSizes(request)' = FlatSizes(P)
  BY <1>1 DEF FlatSizes, SizeAt
<1>3. FlatOffsets(request)' = FlatOffsets(P)
  BY <1>1 DEF FlatOffsets, OffsetAt
<1>4. RangeDsts(request)' = RangeDsts(P)
  BY <1>2 DEF RangeDsts
<1>5. NumRanges(request)' = NumRanges(P)
  BY DEF NumRanges
<1>6. \A h, j : RangeOf(request, h, j, submission, streams)'
                  = RangeOf(P, h, j, i, s)
  BY <1>2, <1>3, <1>4, <1>5 DEF RangeOf
<1>7. SubmitRequest(request, submission, streams)' = SubmitRequest(P, i, s)
  BY <1>5, <1>6 DEF SubmitRequest
<1> QED
  BY <1>2, <1>5, <1>7 DEF Ranges, Owed

(* What depends on the active submission only. *)
LEMMA Kept ==
  ASSUME UNCHANGED <<setup, iterVars, submission>>
  PROVE  /\ Ranges' = Ranges /\ Owed' = Owed
         /\ \A r : ChunkOf(r)' = ChunkOf(r) /\ View(r)' = View(r)
         /\ count' = count => Yielded' = Yielded
         /\ buffer' = buffer => \A r : Filled(r)' = Filled(r)
         /\ RequestIsCut /\ DOMAIN buffer' = DOMAIN buffer => RequestIsCut'
<1>1. UNCHANGED <<setup, streams, queue, next, chunkIndex, request, submission>>
  BY DEF iterVars
<1>2. /\ Files' = Files /\ FileSet' = FileSet
      /\ MemoryLimit' = MemoryLimit /\ LimitTooSmall' = LimitTooSmall
  BY Still
<1>3. PICK P : P = request
  OBVIOUS
<1>4. PICK i : i = submission
  OBVIOUS
<1>5. PICK s : s = streams
  OBVIOUS
<1>6. /\ Ranges' = SubmitRequest(P, i, s)
      /\ SumSeq(FlatSizes(request))' = SumSeq(FlatSizes(P))
      /\ Owed' = SumSeq(NumRanges(P))
  BY <1>1, <1>3, <1>4, <1>5, Submitted
<1>7. /\ Ranges' = Ranges /\ Owed' = Owed
      /\ SumSeq(FlatSizes(request))' = SumSeq(FlatSizes(request))
  BY <1>3, <1>4, <1>5, <1>6 DEF Ranges, Owed
<1>8. \A r : ChunkOf(r)' = ChunkOf(r)
  BY <1>1 DEF ChunkOf
<1>9. \A r : View(r)' = View(r)
  BY <1>8 DEF View
<1>10. count' = count => Yielded' = Yielded
  BY <1>7, <1>8 DEF Yielded
<1>11. buffer' = buffer => \A r : Filled(r)' = Filled(r)
  BY DEF Filled
<1>12. RequestIsCut /\ DOMAIN buffer' = DOMAIN buffer => RequestIsCut'
  <2> SUFFICES ASSUME RequestIsCut, DOMAIN buffer' = DOMAIN buffer
               PROVE  RequestIsCut'
    OBVIOUS
  <2>1. SumSeq(FlatSizes(request))' <= MemoryLimit'
    BY <1>2, <1>7 DEF RequestIsCut
  <2> QED
    BY <1>1, <1>2, <2>1 DEF RequestIsCut
<1> QED
  BY <1>7, <1>8, <1>9, <1>10, <1>11, <1>12

(* A step that touches none of it. *)
LEMMA StreamingKept ==
  ASSUME Streaming, UNCHANGED <<setup, iterVars, submission>>,
         UNCHANGED <<inflight, responses, buffer, views, count>>
  PROVE  /\ CountIsOne' /\ ChunksHold'
         /\ RequestIsCut => RequestIsCut'
         /\ ViewsAreYielded => ViewsAreYielded'
         /\ consumed' = consumed => (CountIsExact => CountIsExact')
         /\ consumed' = consumed => (NothingIsLost => NothingIsLost')
         /\ Answered' = Answered
<1>1. /\ Ranges' = Ranges /\ Owed' = Owed
      /\ \A r : ChunkOf(r)' = ChunkOf(r) /\ View(r)' = View(r)
      /\ Yielded' = Yielded
      /\ \A r : Filled(r)' = Filled(r)
      /\ RequestIsCut => RequestIsCut'
  BY Kept
<1>2. /\ Files' = Files /\ Chunks' = Chunks /\ FileSet' = FileSet
      /\ chunkIndex' = chunkIndex /\ next' = next
  BY Still DEF iterVars
<1>3. CountIsOne'
  BY DEF Streaming, CountIsOne
<1>4. ChunksHold'
  BY <1>2 DEF Streaming, ChunksHold
<1>5. ViewsAreYielded => ViewsAreYielded'
  BY <1>1 DEF ViewsAreYielded
<1>6. consumed' = consumed => (CountIsExact => CountIsExact')
  BY <1>1, <1>2 DEF CountIsExact
<1>7. Answered' = Answered
  BY DEF Answered
<1>8. consumed' = consumed => (NothingIsLost => NothingIsLost')
  BY <1>1, <1>7 DEF NothingIsLost
<1> QED
  BY <1>1, <1>3, <1>4, <1>5, <1>6, <1>7, <1>8

(* Steps that change neither the request nor its responses. *)
LEMMA QuietSteps ==
  ASSUME TypeOK, Streaming,
         \/ StartList \/ ListStep \/ StreamFilesRaises \/ NextChunkRaises
         \/ Abandon \/ UNCHANGED vars
  PROVE  Streaming'
<1>1. /\ UNCHANGED <<setup, iterVars, submission>>
      /\ UNCHANGED <<inflight, responses, buffer, views, count>>
      /\ UNCHANGED <<consumed, streamer>>
  BY DEF StartList, ListStep, StreamFilesRaises, NextChunkRaises, Abandon,
         vars, sessionVars, cVars, genVars
<1>2. /\ CountIsOne' /\ ChunksHold'
      /\ RequestIsCut => RequestIsCut'
      /\ ViewsAreYielded => ViewsAreYielded'
      /\ CountIsExact => CountIsExact'
      /\ NothingIsLost => NothingIsLost'
  BY <1>1, StreamingKept
<1>3. /\ streams' = streams /\ FileSet' = FileSet
  BY <1>1, Still DEF iterVars
<1>4. CASE StartList \/ ListStep \/ UNCHANGED vars
  <2>1. gen' = gen
    BY <1>4 DEF StartList, ListStep, vars, genVars
  <2> QED
    BY <1>1, <1>2, <1>3, <2>1 DEF Streaming, Active, Reading, Quiet
<1>5. CASE StreamFilesRaises
  <2>1. gen \in {"none", "over", "closed"} /\ gen' = "raised" /\ streamer
    BY <1>5 DEF StreamFilesRaises
  <2>2. inflight = {} /\ responses = {}
    BY <2>1 DEF Streaming, Quiet, Active
  <2> QED
    BY <1>1, <1>2, <1>3, <2>1, <2>2 DEF Streaming, Active, Reading, Quiet
<1>6. CASE NextChunkRaises
  <2>1. ~streamer /\ gen' = "closed"
    BY <1>6 DEF NextChunkRaises
  <2>2. inflight = {} /\ responses = {}
    BY <2>1 DEF Streaming, Quiet
  <2> QED
    BY <1>1, <1>2, <1>3, <2>1, <2>2 DEF Streaming, Active, Reading, Quiet
<1>7. CASE Abandon
  <2>1. gen = "suspended" /\ gen' = "draining"
    BY <1>7 DEF Abandon
  <2> QED
    BY <1>1, <1>2, <1>3, <2>1 DEF Streaming, Active, Reading, Quiet
<1> QED
  BY <1>4, <1>5, <1>6, <1>7

(* A session begins, or ends: nothing is in flight then. *)
LEMMA SessionSteps ==
  ASSUME TypeOK, Streaming, Enter \/ Exit
  PROVE  Streaming'
<1>1. CASE Enter
  <2>1. /\ ~streamer /\ gen' = "none"
        /\ UNCHANGED <<setup, inflight, responses, buffer, views, count>>
    BY <1>1 DEF Enter, cVars
  <2>2. inflight' = {} /\ responses' = {}
    BY <2>1 DEF Streaming, Quiet
  <2>3. Files' = Files
    BY <2>1, Still
  <2>4. CountIsOne' /\ ChunksHold'
    BY <2>1, <2>3 DEF Streaming, CountIsOne, ChunksHold
  <2> QED
    BY <2>1, <2>2, <2>4 DEF Streaming, Active, Reading, Quiet
<1>2. CASE Exit
  <2>1. /\ streamer' = FALSE /\ inflight' = {} /\ responses' = {}
        /\ UNCHANGED <<setup, iterVars, submission, buffer>>
        /\ UNCHANGED <<gen, consumed, views, count, streams>>
    BY <1>2 DEF Exit, genVars, iterVars
  <2>2. /\ Ranges' = Ranges
        /\ \A r : ChunkOf(r)' = ChunkOf(r) /\ View(r)' = View(r)
        /\ Yielded' = Yielded
        /\ RequestIsCut => RequestIsCut'
    BY <2>1, Kept
  <2>3. Files' = Files /\ Chunks' = Chunks
    BY <2>1, Still
  <2>4. CountIsOne' /\ ChunksHold'
    BY <2>1, <2>3 DEF Streaming, CountIsOne, ChunksHold
  <2>5. ViewsAreYielded => ViewsAreYielded'
    BY <2>1, <2>2 DEF ViewsAreYielded
  <2>6. CountIsExact => CountIsExact'
    BY <2>1, <2>2, <2>3 DEF CountIsExact, iterVars
  <2> QED
    BY <2>1, <2>2, <2>4, <2>5, <2>6 DEF Streaming, Active, Reading, Quiet
<1> QED
  BY <1>1, <1>2

(* What the active request is cut from. *)
LEMMA RequestFacts ==
  ASSUME TypeOK, RequestIsCut
  PROVE  /\ CutFrom(request, chunkIndex)
         /\ IsFiniteSet(Ranges) /\ Cardinality(Ranges) = Owed /\ Owed \in Nat
         /\ \A r \in Ranges :
              /\ r.path \in FileSet
              /\ ChunkOf(r) \in Chunks /\ ChunkOf(r)[1] = r.path
              /\ ChunkOf(r)[2] \in Nat
              /\ chunkIndex[r.path] <= ChunkOf(r)[2]
              /\ ChunkOf(r)[2] < next[r.path]
              /\ r.size = Files[r.path].sizes[ChunkOf(r)[2] + 1]
              /\ r.offset = Files[r.path].offsets[ChunkOf(r)[2] + 1]
              /\ r.size \in Nat /\ r.offset \in Nat /\ r.dst \in Nat
              /\ r.dst + r.size <= MemoryLimit
              /\ r.sub = submission /\ r.buffer = streams
         /\ \A r, s \in Ranges : r # s =>
              /\ ChunkOf(r) # ChunkOf(s)
              /\ r.dst + r.size <= s.dst \/ s.dst + s.size <= r.dst
<1>1. setup \in Setups
  BY DEF TypeOK
<1>2. Cut(request)
  <2>1. ASSUME NEW i \in DOMAIN request
        PROVE  /\ request[i].file \in FileSet
               /\ request[i].first < request[i].last
               /\ request[i].last <= Len(Files[request[i].file].sizes)
               /\ \A j \in DOMAIN request :
                    request[j].file = request[i].file => j = i
    BY DEF RequestIsCut
  <2> QED
    BY <2>1 DEF Cut, RequestIsCut
<1>3. CutFrom(request, chunkIndex)
  BY <1>2 DEF CutFrom, RequestIsCut
<1>4. /\ IsFiniteSet(Ranges) /\ Cardinality(Ranges) = Owed /\ Owed \in Nat
  BY <1>1, <1>2, SubmissionSize DEF Ranges, Owed
<1>5. \A r : ChunkOf(r) = ChunkAt(chunkIndex, r)
  BY DEF ChunkOf, ChunkAt
<1>6. ASSUME NEW r \in Ranges
      PROVE  /\ r.path \in FileSet
             /\ ChunkOf(r) \in Chunks /\ ChunkOf(r)[1] = r.path
             /\ ChunkOf(r)[2] \in Nat
             /\ chunkIndex[r.path] <= ChunkOf(r)[2]
             /\ ChunkOf(r)[2] < next[r.path]
             /\ r.size = Files[r.path].sizes[ChunkOf(r)[2] + 1]
             /\ r.offset = Files[r.path].offsets[ChunkOf(r)[2] + 1]
             /\ r.size \in Nat /\ r.offset \in Nat /\ r.dst \in Nat
             /\ r.dst + r.size <= MemoryLimit
             /\ r.sub = submission /\ r.buffer = streams
  <2> DEFINE c == ChunkAt(chunkIndex, r)
  <2>1. r \in SubmitRequest(request, submission, streams)
    BY DEF Ranges
  <2>2. /\ r.path \in FileSet
        /\ c \in Chunks /\ c[1] = r.path /\ c[2] \in Nat
        /\ chunkIndex[r.path] <= c[2]
        /\ \E i \in DOMAIN request : /\ request[i].file = r.path
                                     /\ c[2] < request[i].last
        /\ r.size = Files[r.path].sizes[c[2] + 1]
        /\ r.offset = Files[r.path].offsets[c[2] + 1]
        /\ r.size \in Nat /\ r.offset \in Nat /\ r.dst \in Nat
        /\ r.dst + r.size <= SumSeq(FlatSizes(request))
        /\ r.sub = submission /\ r.buffer = streams
    BY <1>1, <1>3, <2>1, ChunkFacts
  <2>3. c = ChunkOf(r)
    BY <1>5
  <2> HIDE DEF c
  <2>4. c[2] < next[r.path]
    <3>1. PICK i \in DOMAIN request : request[i].file = r.path
                                      /\ c[2] < request[i].last
      BY <2>2
    <3>2. request[i].last = next[r.path]
      BY <3>1 DEF RequestIsCut
    <3> QED
      BY <3>1, <3>2
  <2>5. r.dst + r.size <= MemoryLimit
    <3> DEFINE x == SumSeq(FlatSizes(request))
               y == r.dst + r.size
    <3>1. x \in Nat
      <4>1. Numbers(FlatSizes(request))
        BY <1>1, <1>2, SizesAreNumbers
      <4>2. Len(FlatSizes(request)) \in 0 .. Len(FlatSizes(request))
        BY <4>1 DEF Numbers
      <4> QED
        BY <4>1, <4>2, SumSteps DEF SumSeq
    <3>2. MemoryLimit \in Nat /\ x <= MemoryLimit
      BY <1>1, LimitFacts DEF RequestIsCut
    <3>4. y <= x /\ y \in Nat
      <4>1. \A m, n \in Nat : m + n \in Nat
        OBVIOUS
      <4>2. r.dst \in Nat /\ r.size \in Nat
        BY <2>2
      <4> HIDE DEF x
      <4> QED
        BY <2>2, <4>1, <4>2 DEF x
    <3> HIDE DEF x, y
    <3>3. y <= MemoryLimit
      BY <3>1, <3>2, <3>4
    <3> QED
      BY <3>3 DEF y
  <2> QED
    BY <2>2, <2>3, <2>4, <2>5
<1>7. ASSUME NEW r \in Ranges, NEW s \in Ranges, r # s
      PROVE  /\ ChunkOf(r) # ChunkOf(s)
             /\ r.dst + r.size <= s.dst \/ s.dst + s.size <= r.dst
  <2>1. /\ r \in SubmitRequest(request, submission, streams)
        /\ s \in SubmitRequest(request, submission, streams)
    BY DEF Ranges
  <2>2. /\ ChunkAt(chunkIndex, r) # ChunkAt(chunkIndex, s)
        /\ r.dst + r.size <= s.dst \/ s.dst + s.size <= r.dst
    BY <1>1, <1>3, <1>7, <2>1, ChunksApart
  <2> QED
    BY <1>5, <2>2
<1> QED
  BY <1>3, <1>4, <1>6, <1>7

(* A worker has written, or failed. *)
LEMMA AnswerStep ==
  ASSUME TypeOK, Streaming, NEW r \in inflight, Answer(r)
  PROVE  Streaming'
<1>1. /\ inflight' = inflight \ {r}
      /\ UNCHANGED <<setup, iterVars, submission>>
      /\ UNCHANGED <<gen, consumed, views, count, streamer>>
      /\ streams' = streams
  BY DEF Answer, sessionVars, genVars, iterVars
<1>2. PICK ret \in {"Success", "Error", "Finished"} :
        /\ responses' = responses \cup {[range |-> r, ret |-> ret]}
        /\ buffer' = IF ret # "Success" THEN buffer
                     ELSE [a \in DOMAIN buffer |->
                             IF a \in r.dst .. r.dst + r.size - 1
                             THEN <<r.path, r.offset + a - r.dst>>
                             ELSE buffer[a]]
  BY DEF Answer, Codes
<1>3. /\ Ranges' = Ranges /\ Owed' = Owed
      /\ \A s : ChunkOf(s)' = ChunkOf(s) /\ View(s)' = View(s)
      /\ Yielded' = Yielded
      /\ RequestIsCut /\ DOMAIN buffer' = DOMAIN buffer => RequestIsCut'
  BY <1>1, Kept
<1>4. Files' = Files /\ Chunks' = Chunks /\ FileSet' = FileSet
  BY <1>1, Still
<1>5. CountIsOne'
  BY <1>1 DEF Streaming, CountIsOne
<1>6. streamer /\ (Active \/ gen = "raised") /\ Active' = Active
      /\ Reading' = Reading
  BY <1>1 DEF Streaming, Quiet, Active, Reading
<1>7. Quiet'
  BY <1>1, <1>4, <1>6 DEF Streaming, Quiet
<1>8. CASE gen = "raised"
  <2>1. views' = {} /\ ~Active /\ ~Reading
    BY <1>1, <1>8 DEF Streaming, Quiet, Active, Reading
  <2>2. ChunksHold'
    BY <2>1 DEF ChunksHold
  <2> QED
    BY <1>1, <1>5, <1>6, <1>7, <1>8, <2>1, <2>2 DEF Streaming
<1>9. CASE Active
  <2>1. RequestIsCut /\ ViewsAreYielded /\ NothingIsLost
    BY <1>6, <1>9 DEF Streaming
  <2>2. /\ r \in Ranges /\ count[ChunkOf(r)] = 0
        /\ r.dst \in Nat /\ r.size \in Nat /\ r.dst + r.size <= MemoryLimit
        /\ MemoryLimit \in Nat /\ DOMAIN buffer = 0 .. MemoryLimit - 1
    <3>1. r \in Ranges /\ count[ChunkOf(r)] = 0
      BY <2>1 DEF NothingIsLost
    <3>2. setup \in Setups
      BY DEF TypeOK
    <3> QED
      BY <2>1, <3>1, <3>2, RequestFacts, LimitFacts DEF RequestIsCut
  <2>3. DOMAIN buffer' = DOMAIN buffer
    BY <1>2
  <2>4. ASSUME NEW s \in Ranges, s # r, NEW k \in 0 .. s.size - 1
        PROVE  buffer'[s.dst + k] = buffer[s.dst + k]
    <3>1. /\ s.dst \in Nat /\ s.size \in Nat /\ s.dst + s.size <= MemoryLimit
          /\ r.dst + r.size <= s.dst \/ s.dst + s.size <= r.dst
      BY <2>1, <2>2, <2>4, RequestFacts
    <3>2. /\ s.dst + k \in 0 .. MemoryLimit - 1
          /\ s.dst + k \notin r.dst .. r.dst + r.size - 1
      <4> DEFINE a == s.dst
                 b == s.size
                 c == r.dst
                 d == r.size
                 m == MemoryLimit
      <4>1. /\ a \in Nat /\ b \in Nat /\ c \in Nat /\ d \in Nat /\ m \in Nat
            /\ a + b <= m /\ (c + d <= a \/ a + b <= c)
            /\ k \in 0 .. b - 1
        BY <2>2, <3>1
      <4> HIDE DEF a, b, c, d, m
      <4>2. a + k \in 0 .. m - 1 /\ a + k \notin c .. c + d - 1
        BY <4>1
      <4> QED
        BY <4>2 DEF a, c, d, m
    <3> QED
      BY <1>2, <2>2, <3>2
  <2>5. ret = "Success" => Filled(r)'
    <3> SUFFICES ASSUME ret = "Success", NEW k \in 0 .. r.size - 1
                 PROVE  buffer'[r.dst + k] = <<r.path, r.offset + k>>
      BY DEF Filled
    <3>1. /\ r.dst + k \in 0 .. MemoryLimit - 1
          /\ r.dst + k \in r.dst .. r.dst + r.size - 1
      BY <2>2
    <3>2. buffer'[r.dst + k] = <<r.path, r.offset + (r.dst + k) - r.dst>>
      BY <1>2, <2>2, <3>1
    <3>3. r.offset \in Nat
      BY <2>1, <2>2, RequestFacts
    <3>4. r.offset + (r.dst + k) - r.dst = r.offset + k
      BY <2>2, <3>3
    <3> QED
      BY <3>2, <3>4
  <2>6. \A s \in Ranges : s # r /\ Filled(s) => Filled(s)'
    BY <2>4 DEF Filled
  <2>7. ChunksHold'
    <3> SUFFICES ASSUME NEW v \in views
                 PROVE  /\ v.size = Files[v.chunk[1]].sizes[v.chunk[2] + 1]
                        /\ \A k \in 0 .. v.size - 1 : buffer'[v.start + k] =
                             <<v.chunk[1], Files[v.chunk[1]].offsets
                                             [v.chunk[2] + 1] + k>>
      BY <1>1, <1>4 DEF ChunksHold
    <3>1. PICK s \in Yielded : v = View(s)
      BY <2>1 DEF ViewsAreYielded
    <3>2. s \in Ranges /\ s # r
      BY <2>2, <3>1 DEF Yielded
    <3>3. v.start = s.dst /\ v.size = s.size
      BY <3>1 DEF View
    <3>4. \A k \in 0 .. v.size - 1 : buffer'[v.start + k] = buffer[v.start + k]
      BY <2>4, <3>2, <3>3
    <3> QED
      BY <3>4 DEF Streaming, ChunksHold
  <2>8. ViewsAreYielded'
    BY <1>1, <1>3, <2>1 DEF ViewsAreYielded
  <2>9. CountIsExact => CountIsExact'
    BY <1>1, <1>3, <1>4 DEF CountIsExact, iterVars
  <2> DEFINE rsp == [range |-> r, ret |-> ret]
  <2>10. responses' = responses \cup {rsp} /\ rsp.range = r /\ rsp.ret = ret
    BY <1>2
  <2> HIDE DEF rsp
  <2>11. Answered' = Answered \cup {r}
    BY <2>10 DEF Answered
  <2>12. r \notin Answered /\ rsp \notin responses
    <3>1. r \notin Answered
      BY <2>1 DEF NothingIsLost
    <3> QED
      BY <2>10, <3>1 DEF Answered
  <2>13. /\ IsFiniteSet(inflight') /\ IsFiniteSet(responses')
         /\ Cardinality(inflight') + Cardinality(responses') + consumed = Owed
    <3>1. IsFiniteSet(inflight) /\ IsFiniteSet(responses)
      BY <2>1 DEF NothingIsLost
    <3>2. /\ IsFiniteSet(inflight') /\ Cardinality(inflight) \in Nat
          /\ Cardinality(inflight') = Cardinality(inflight) - 1
      BY <1>1, <3>1, FS_RemoveElement, FS_CardinalityType
    <3>3. /\ IsFiniteSet(responses') /\ Cardinality(responses) \in Nat
          /\ Cardinality(responses') = Cardinality(responses) + 1
      BY <2>10, <2>12, <3>1, FS_AddElement, FS_CardinalityType
    <3>4. /\ Cardinality(inflight) + Cardinality(responses) + consumed = Owed
          /\ consumed \in Nat
      BY <2>1 DEF NothingIsLost, TypeOK
    <3>5. \A x, y, z \in Nat : (x - 1) + (y + 1) + z = x + y + z
      OBVIOUS
    <3> QED
      BY <3>2, <3>3, <3>4, <3>5
  <2>14. NothingIsLost'
    <3>1. inflight' \subseteq Ranges' /\ Answered' \subseteq Ranges'
      BY <1>1, <1>3, <2>1, <2>2, <2>11 DEF NothingIsLost
    <3>2. inflight' \cap Answered' = {}
      BY <1>1, <2>1, <2>11 DEF NothingIsLost
    <3>3. \A s, t \in responses' : s.range = t.range => s = t
      <4>1. \A s \in responses : s.range # r
        BY <2>12 DEF Answered
      <4> QED
        BY <2>1, <2>10, <4>1 DEF NothingIsLost
    <3>4. \A s \in inflight' \cup Answered' : count'[ChunkOf(s)'] = 0
      BY <1>1, <1>3, <2>1, <2>2, <2>11 DEF NothingIsLost
    <3>5. \A t \in responses' : t.ret = "Success" => Filled(t.range)'
      <4> SUFFICES ASSUME NEW t \in responses', t.ret = "Success"
                   PROVE  Filled(t.range)'
        OBVIOUS
      <4>1. CASE t = rsp
        BY <2>5, <2>10, <4>1
      <4>2. CASE t \in responses
        <5>1. t.range \in Answered
          BY <4>2 DEF Answered
        <5>2. t.range \in Ranges /\ t.range # r /\ Filled(t.range)
          BY <2>1, <2>12, <4>2, <5>1 DEF NothingIsLost
        <5> QED
          BY <2>6, <5>2
      <4> QED
        BY <2>10, <4>1, <4>2
    <3> QED
      BY <1>1, <1>3, <2>13, <3>1, <3>2, <3>3, <3>4, <3>5 DEF NothingIsLost
  <2>15. RequestIsCut'
    BY <1>3, <2>1, <2>3
  <2>16. gen # "over"
    BY <1>9 DEF Active
  <2> QED
    BY <1>1, <1>5, <1>6, <1>7, <2>7, <2>8, <2>9, <2>14, <2>15, <2>16
       DEF Streaming
<1> QED
  BY <1>6, <1>8, <1>9

(* A response is taken: as a chunk, or by the draining. *)
LEMMA ResponseTaken ==
  ASSUME TypeOK, Streaming, Active, streamer, NEW r \in responses,
         responses' = responses \ {r}, consumed' = consumed + 1,
         UNCHANGED <<setup, iterVars, submission, inflight, buffer, streamer>>
  PROVE  /\ r.range \in Ranges /\ count[ChunkOf(r.range)] = 0
         /\ consumed + 1 <= Owed
         /\ RequestIsCut'
         /\ Answered' = Answered \ {r.range}
         /\ (\A s \in inflight \cup (Answered \ {r.range}) :
               count'[ChunkOf(s)] = 0) => NothingIsLost'
<1>1. RequestIsCut /\ NothingIsLost
  BY DEF Streaming
<1>2. /\ Ranges' = Ranges /\ Owed' = Owed
      /\ \A s : ChunkOf(s)' = ChunkOf(s)
      /\ \A s : Filled(s)' = Filled(s)
      /\ RequestIsCut'
  BY <1>1, Kept
<1>3. r.range \in Answered /\ r.range \in Ranges /\ count[ChunkOf(r.range)] = 0
  BY <1>1 DEF NothingIsLost, Answered
<1>4. Answered' = Answered \ {r.range}
  <2>1. \A s \in responses : s # r => s.range # r.range
    BY <1>1 DEF NothingIsLost
  <2> QED
    BY <2>1 DEF Answered
<1>5. /\ IsFiniteSet(responses') /\ Cardinality(responses) \in Nat
      /\ Cardinality(responses') = Cardinality(responses) - 1
      /\ Cardinality(responses') \in Nat
  BY <1>1, FS_RemoveElement, FS_CardinalityType DEF NothingIsLost
<1>6. /\ Cardinality(inflight) \in Nat /\ consumed \in Nat /\ Owed \in Nat
      /\ Cardinality(inflight) + Cardinality(responses) + consumed = Owed
  BY <1>1, FS_CardinalityType, RequestFacts DEF NothingIsLost, TypeOK
<1>7. /\ consumed + 1 <= Owed
      /\ Cardinality(inflight) + Cardinality(responses') + (consumed + 1) = Owed
  <2> DEFINE x == Cardinality(inflight)
             y == Cardinality(responses)
             z == Cardinality(responses')
             w == Owed
  <2>1. /\ x \in Nat /\ y \in Nat /\ z \in Nat /\ consumed \in Nat /\ w \in Nat
        /\ z = y - 1 /\ x + y + consumed = w
    BY <1>5, <1>6
  <2> HIDE DEF x, y, z, w
  <2>2. consumed + 1 <= w /\ x + z + (consumed + 1) = w
    BY <2>1
  <2> QED
    BY <2>2 DEF x, z, w
<1>8. ASSUME \A s \in inflight \cup (Answered \ {r.range}) :
               count'[ChunkOf(s)] = 0
      PROVE  NothingIsLost'
  <2>1. inflight' \subseteq Ranges' /\ Answered' \subseteq Ranges'
    BY <1>1, <1>2, <1>4 DEF NothingIsLost
  <2>2. inflight' \cap Answered' = {} /\ IsFiniteSet(inflight')
    BY <1>1, <1>4 DEF NothingIsLost
  <2>3. \A s, t \in responses' : s.range = t.range => s = t
    BY <1>1 DEF NothingIsLost
  <2>4. \A s \in inflight' \cup Answered' : count'[ChunkOf(s)'] = 0
    BY <1>2, <1>4, <1>8
  <2>5. \A t \in responses' : t.ret = "Success" => Filled(t.range)'
    BY <1>1, <1>2 DEF NothingIsLost
  <2>6. Cardinality(inflight') + Cardinality(responses') + consumed' = Owed'
    BY <1>2, <1>7
  <2> QED
    BY <1>5, <2>1, <2>2, <2>3, <2>4, <2>5, <2>6 DEF NothingIsLost
<1> QED
  BY <1>2, <1>3, <1>4, <1>7, <1>8

(* A chunk is yielded under the file and the index it was asked for. *)
LEMMA ChunkIsYielded ==
  ASSUME TypeOK, RequestIsCut, NEW r, r.range \in Ranges, r.ret = "Success",
         NextChunk(r)
  PROVE  /\ gen' = "suspended" /\ views' = views \cup {View(r.range)}
         /\ count' = [count EXCEPT ![ChunkOf(r.range)] = @ + 1]
<1> DEFINE t == r.range
<1>1. CutFrom(request, chunkIndex) /\ setup \in Setups /\ t.sub = submission
  BY RequestFacts DEF TypeOK
<1>2. IsRange(t, request, t.fileIndex, t.index, submission, streams)
      /\ t.fileIndex \in DOMAIN request
  BY <1>1, SubmittedRanges DEF Ranges, CutFrom
<1> DEFINE part == request[t.fileIndex]
<1>3. /\ part.file = t.path
      /\ RangeDsts(request)[FileBase(request, t.fileIndex) + t.index] = t.dst
      /\ SizeAt(part, t.index) = t.size
  BY <1>2 DEF IsRange, Pos, SizeAt
<1>4. /\ gen' = "suspended"
      /\ views' = views \cup
           {[chunk |-> <<part.file, chunkIndex[part.file] + t.index - 1>>,
             start |-> RangeDsts(request)
                         [FileBase(request, t.fileIndex) + t.index],
             size |-> SizeAt(part, t.index)]}
      /\ count' = [count EXCEPT
                     ![<<part.file, chunkIndex[part.file] + t.index - 1>>]
                       = @ + 1]
  BY <1>1 DEF NextChunk
<1> QED
  BY <1>3, <1>4 DEF View, ChunkOf

(* The generator gets a chunk, or begins to drain. *)
LEMMA NextChunkStep ==
  ASSUME TypeOK, Streaming, NEW r \in responses, NextChunk(r)
  PROVE  Streaming'
<1>1. /\ streamer /\ gen \in {"ready", "suspended", "running"}
      /\ responses' = responses \ {r} /\ consumed' = consumed + 1
      /\ UNCHANGED <<setup, iterVars, submission, inflight, buffer, streamer>>
  BY DEF NextChunk, sessionVars
<1>2. Active /\ Reading
  BY <1>1 DEF Active, Reading
<1>3. /\ RequestIsCut /\ ViewsAreYielded /\ NothingIsLost /\ CountIsExact
      /\ CountIsOne
  BY <1>1, <1>2 DEF Streaming
<1>4. /\ r.range \in Ranges /\ count[ChunkOf(r.range)] = 0
      /\ RequestIsCut'
      /\ Answered' = Answered \ {r.range}
      /\ (\A s \in inflight \cup (Answered \ {r.range}) :
            count'[ChunkOf(s)] = 0) => NothingIsLost'
  BY <1>1, <1>2, ResponseTaken
<1>5. /\ Ranges' = Ranges /\ Owed' = Owed
      /\ \A s : ChunkOf(s)' = ChunkOf(s) /\ View(s)' = View(s)
      /\ count' = count => Yielded' = Yielded
  BY <1>1, Kept
<1>6. /\ Files' = Files /\ Chunks' = Chunks /\ FileSet' = FileSet
      /\ streams' = streams /\ chunkIndex' = chunkIndex /\ next' = next
  BY <1>1, Still DEF iterVars
<1>7. Quiet'
  <2>1. gen' \in {"suspended", "draining"}
    BY DEF NextChunk
  <2>2. Active'
    BY <2>1 DEF Active
  <2> QED
    BY <1>1, <1>2, <1>6, <2>1, <2>2 DEF Streaming, Quiet
<1>8. r.range.sub = submission
  BY <1>3, <1>4, RequestFacts
<1>9. CASE r.ret # "Success"
  <2>1. gen' = "draining" /\ UNCHANGED <<views, count>>
    BY <1>9 DEF NextChunk
  <2>2. CountIsOne' /\ ChunksHold' /\ ViewsAreYielded'
    BY <1>1, <1>3, <1>5, <1>6, <2>1
       DEF Streaming, CountIsOne, ChunksHold, ViewsAreYielded
  <2>3. NothingIsLost'
    BY <1>3, <1>4, <2>1 DEF NothingIsLost
  <2> QED
    BY <1>4, <1>7, <2>1, <2>2, <2>3 DEF Streaming, Active, Reading
<1>10. CASE r.ret = "Success"
  <2> DEFINE t == r.range
             c == ChunkOf(t)
  <2>1. gen' = "suspended" /\ views' = views \cup {View(t)}
        /\ count' = [count EXCEPT ![c] = @ + 1]
    BY <1>3, <1>4, <1>10, ChunkIsYielded
  <2>2. c \in Chunks /\ DOMAIN count = Chunks /\ count[c] = 0
    BY <1>3, <1>4, RequestFacts DEF CountIsExact
  <2> HIDE DEF c
  <2>3. /\ DOMAIN count' = Chunks /\ count'[c] = 1
        /\ \A d \in Chunks : d # c => count'[d] = count[d]
    BY <2>1, <2>2
  <2>4. CountIsOne'
    BY <1>3, <2>2, <2>3 DEF CountIsOne
  <2>5. \A s \in Ranges : s # t => ChunkOf(s) # c /\ ChunkOf(s) \in Chunks
    BY <1>3, <1>4, RequestFacts DEF c
  <2>6. Yielded' = Yielded \cup {t} /\ t \notin Yielded
    <3>1. Yielded' = {s \in Ranges : count'[ChunkOf(s)] = 1}
      BY <1>5 DEF Yielded
    <3>2. \A s \in Ranges : s # t => count'[ChunkOf(s)] = count[ChunkOf(s)]
      BY <2>3, <2>5
    <3>3. t \in Ranges /\ count'[ChunkOf(t)] = 1 /\ count[ChunkOf(t)] = 0
      BY <1>4, <2>3 DEF c
    <3> QED
      BY <3>1, <3>2, <3>3 DEF Yielded
  <2>7. ViewsAreYielded'
    <3>1. \A v \in views' : \E s \in Yielded \cup {t} : v = View(s)
      BY <1>3, <2>1 DEF ViewsAreYielded
    <3> QED
      BY <1>5, <2>6, <3>1 DEF ViewsAreYielded
  <2>8. CountIsExact'
    <3>1. Cardinality(Yielded') = consumed'
      <4>1. IsFiniteSet(Ranges) /\ Yielded \subseteq Ranges
        BY <1>3, RequestFacts DEF Yielded
      <4>2. IsFiniteSet(Yielded)
        BY <4>1, FS_Subset
      <4>3. Cardinality(Yielded \cup {t}) = Cardinality(Yielded) + 1
        BY <2>6, <4>2, FS_AddElement
      <4> QED
        BY <1>1, <1>3, <2>6, <4>3 DEF CountIsExact
    <3>2. ASSUME NEW d \in Chunks
          PROVE  /\ d[2] < chunkIndex[d[1]] => count'[d] = 1
                 /\ d[2] >= next[d[1]] => count'[d] = 0
      <4>1. CASE d = c
        <5>1. /\ t.path \in FileSet
              /\ d[1] = t.path /\ d[2] \in Nat
              /\ chunkIndex[t.path] <= d[2] /\ d[2] < next[t.path]
          BY <1>3, <1>4, <4>1, RequestFacts DEF c
        <5>2. chunkIndex[t.path] \in Nat /\ next[t.path] \in Nat
          BY <1>3, <5>1 DEF RequestIsCut
        <5> QED
          BY <2>3, <4>1, <5>1, <5>2
      <4>2. CASE d # c
        BY <1>3, <2>3, <4>2 DEF CountIsExact
      <4> QED
        BY <4>1, <4>2
    <3> QED
      BY <1>6, <2>3, <3>1, <3>2 DEF CountIsExact
  <2>9. NothingIsLost'
    <3>1. \A s \in inflight \cup (Answered \ {t}) : count'[ChunkOf(s)] = 0
      <4> SUFFICES ASSUME NEW s \in inflight \cup (Answered \ {t})
                   PROVE  count'[ChunkOf(s)] = 0
        OBVIOUS
      <4>1. s \in Ranges /\ count[ChunkOf(s)] = 0
        BY <1>3 DEF NothingIsLost
      <4>2. s # t
        BY <1>3 DEF NothingIsLost, Answered
      <4> QED
        BY <2>3, <2>5, <4>1, <4>2
    <3> QED
      BY <1>4, <3>1
  <2>10. ChunksHold'
    <3> SUFFICES ASSUME NEW v \in views'
                 PROVE  /\ v.size = Files[v.chunk[1]].sizes[v.chunk[2] + 1]
                        /\ \A k \in 0 .. v.size - 1 : buffer[v.start + k] =
                             <<v.chunk[1], Files[v.chunk[1]].offsets
                                             [v.chunk[2] + 1] + k>>
      BY <1>1, <1>6 DEF ChunksHold
    <3>1. CASE v \in views
      BY <3>1 DEF Streaming, ChunksHold
    <3>2. CASE v = View(t)
      <4>1. v.chunk = c /\ v.start = t.dst /\ v.size = t.size
        BY <3>2 DEF View, c
      <4>2. /\ c[1] = t.path
            /\ t.size = Files[t.path].sizes[c[2] + 1]
            /\ t.offset = Files[t.path].offsets[c[2] + 1]
        BY <1>3, <1>4, RequestFacts DEF c
      <4>3. Filled(t)
        BY <1>3, <1>10 DEF NothingIsLost
      <4> QED
        BY <4>1, <4>2, <4>3 DEF Filled
    <3> QED
      BY <2>1, <3>1, <3>2
  <2> QED
    BY <1>4, <1>7, <2>1, <2>4, <2>7, <2>8, <2>9, <2>10
       DEF Streaming, Active, Reading
<1> QED
  BY <1>9, <1>10

(* The draining goes on, or ends. *)
LEMMA DrainStep ==
  ASSUME TypeOK, Streaming, DrainOne, ~cut'
  PROVE  Streaming'
<1>1. /\ gen = "draining"
      /\ UNCHANGED <<setup, iterVars, submission, inflight, buffer, streamer>>
      /\ UNCHANGED <<views, count>>
  BY DEF DrainOne, sessionVars, Streaming, Quiet
<1>2. Active /\ ~Reading
  BY <1>1 DEF Active, Reading
<1>3. RequestIsCut /\ ViewsAreYielded
  BY <1>2 DEF Streaming
<1>4. /\ Files' = Files /\ streams' = streams /\ FileSet' = FileSet
      /\ \A s : View(s)' = View(s)
      /\ Yielded' = Yielded
  BY <1>1, Kept, Still DEF iterVars
<1>5. CountIsOne' /\ ChunksHold' /\ ViewsAreYielded'
  BY <1>1, <1>3, <1>4
     DEF Streaming, CountIsOne, ChunksHold, ViewsAreYielded
<1>6. CASE streamer /\ consumed < Owed
  <2>1. PICK r \in responses : responses' = responses \ {r}
                               /\ consumed' = consumed + 1 /\ gen' = gen
    BY <1>6 DEF DrainOne, DrainResponse
  <2>2. /\ RequestIsCut'
        /\ (\A s \in inflight \cup (Answered \ {r.range}) :
              count'[ChunkOf(s)] = 0) => NothingIsLost'
    BY <1>1, <1>2, <1>6, <2>1, ResponseTaken
  <2>3. \A s \in inflight \cup (Answered \ {r.range}) :
          count'[ChunkOf(s)] = 0
    <3>1. NothingIsLost
      BY <1>2, <1>6 DEF Streaming
    <3> QED
      BY <1>1, <3>1 DEF NothingIsLost
  <2>4. Quiet'
    BY <1>1, <1>4, <1>6, <2>1 DEF Streaming, Quiet, Active
  <2> QED
    BY <1>1, <1>5, <2>1, <2>2, <2>3, <2>4 DEF Streaming, Active, Reading
<1>7. CASE ~(streamer /\ consumed < Owed)
  <2>1. gen' = "closed" /\ UNCHANGED <<responses, consumed>>
    BY <1>1, <1>7 DEF DrainOne, Drained
  <2>2. inflight = {} /\ responses = {}
    <3>1. CASE ~streamer
      BY <3>1 DEF Streaming, Quiet
    <3>2. CASE streamer
      <4>1. NothingIsLost /\ ~(consumed < Owed)
        BY <1>2, <1>7, <3>2 DEF Streaming
      <4>2. /\ IsFiniteSet(inflight) /\ IsFiniteSet(responses)
            /\ Cardinality(inflight) \in Nat /\ Cardinality(responses) \in Nat
            /\ Cardinality(inflight) + Cardinality(responses) + consumed = Owed
            /\ consumed \in Nat /\ Owed \in Nat
        BY <1>3, <4>1, FS_CardinalityType, RequestFacts DEF NothingIsLost, TypeOK
      <4>3. Cardinality(inflight) = 0 /\ Cardinality(responses) = 0
        <5> DEFINE x == Cardinality(inflight)
                   y == Cardinality(responses)
                   w == Owed
        <5>1. /\ x \in Nat /\ y \in Nat /\ w \in Nat /\ consumed \in Nat
              /\ x + y + consumed = w /\ ~(consumed < w)
          BY <4>1, <4>2
        <5> HIDE DEF x, y, w
        <5>2. x = 0 /\ y = 0
          BY <5>1
        <5> QED
          BY <5>2 DEF x, y
      <4> QED
        BY <4>2, <4>3, FS_EmptySet
    <3> QED
      BY <3>1, <3>2
  <2> QED
    BY <1>1, <1>5, <2>1, <2>2 DEF Streaming, Active, Reading, Quiet
<1> QED
  BY <1>6, <1>7

-----------------------------------------------------------------------------
(* A request is submitted *)

(* The indices of the next request are where this one ends. *)
LEMMA AdvancedIsNext ==
  ASSUME TypeOK, RequestIsCut
  PROVE  Advanced = next
<1>1. /\ next \in [FileSet -> Nat] /\ chunkIndex \in [FileSet -> Nat]
      /\ request \in Seq(Part)
  BY DEF RequestIsCut
<1>2. Len(request) \in Nat /\ DOMAIN request = 1 .. Len(request)
  BY <1>1, LenProperties
<1>3. ASSUME NEW f \in FileSet
      PROVE  Advanced[f] = next[f]
  <2> DEFINE e(i) == IF request[i].file = f
                     THEN request[i].last - request[i].first ELSE 0
             n == Len(request)
             t == [i \in 1 .. n |-> e(i)]
  <2>1. Advanced[f] = chunkIndex[f] + SumSeq(t)
    BY <1>2 DEF Advanced
  <2>2. ASSUME NEW i \in 1 .. n
        PROVE  /\ e(i) \in Nat
               /\ request[i].file = f => e(i) = next[f] - chunkIndex[f]
    <3>1. /\ request[i].first = chunkIndex[request[i].file]
          /\ request[i].last = next[request[i].file]
          /\ request[i].first < request[i].last
          /\ request[i].file \in FileSet
      BY <1>2 DEF RequestIsCut
    <3> QED
      BY <1>1, <3>1
  <2>3. ASSUME NEW i \in 1 .. n, request[i].file # f
        PROVE  e(i) = 0
    BY <2>3
  <2> HIDE DEF e
  <2>4. t \in [1 .. n -> Nat] /\ \A i \in 1 .. n : t[i] = e(i)
    BY <2>2
  <2> HIDE DEF t
  <2>5. Numbers(t) /\ Len(t) = n /\ n \in Nat
    BY <1>2, <2>4, FunctionsAreNumbers
  <2>6. chunkIndex[f] \in Nat /\ next[f] \in Nat /\ chunkIndex[f] <= next[f]
    BY <1>1 DEF RequestIsCut
  <2>7. CASE \E i \in 1 .. n : request[i].file = f
    <3>1. PICK i \in 1 .. n : request[i].file = f
      BY <2>7
    <3>2. \A j \in 1 .. n : j # i => t[j] = 0
      <4> SUFFICES ASSUME NEW j \in 1 .. n, j # i
                   PROVE  t[j] = 0
        OBVIOUS
      <4>1. request[j].file # f
        BY <1>2, <3>1 DEF RequestIsCut
      <4> QED
        BY <2>3, <2>4, <4>1
    <3>3. i \in 1 .. Len(t) /\ \A j \in 1 .. Len(t) : j # i => t[j] = 0
      BY <2>5, <3>2
    <3> HIDE DEF n
    <3>4. SumSeq(t) = t[i]
      BY <2>5, <3>3, SumOfOne
    <3>5. t[i] = next[f] - chunkIndex[f]
      BY <2>2, <2>4, <3>1
    <3> DEFINE x == chunkIndex[f]
               y == next[f]
    <3>6. x \in Nat /\ y \in Nat /\ Advanced[f] = x + (y - x)
      BY <2>1, <2>6, <3>4, <3>5
    <3> HIDE DEF x, y
    <3>7. Advanced[f] = y
      BY <3>6
    <3> QED
      BY <3>7 DEF y
  <2>8. CASE ~(\E i \in 1 .. n : request[i].file = f)
    <3>1. ~(chunkIndex[f] < next[f])
      BY <1>2, <2>8 DEF RequestIsCut
    <3>2. chunkIndex[f] = next[f]
      BY <2>6, <3>1
    <3>3. \A j \in 1 .. Len(t) : t[j] = 0
      BY <2>3, <2>4, <2>5, <2>8
    <3> HIDE DEF n
    <3>4. SumSeq(t) = 0
      BY <2>5, <3>3, SumOfNone
    <3> QED
      BY <2>1, <2>6, <3>2, <3>4
  <2> QED
    BY <2>7, <2>8
<1>4. Advanced = [f \in FileSet |-> Advanced[f]]
  BY DEF Advanced
<1>5. next = [f \in FileSet |-> next[f]]
  BY <1>1
<1> QED
  BY <1>3, <1>4, <1>5

(* A chunk is a range of a file. *)
LEMMA ChunkTypes ==
  ASSUME TypeOK, NEW c \in Chunks
  PROVE  /\ c[1] \in FileSet /\ c[2] \in Nat
         /\ c[2] < Len(Files[c[1]].sizes)
         /\ Len(Files[c[1]].sizes) \in Nat
         /\ c = <<c[1], c[2]>>
<1>1. PICK f \in FileSet : \E i \in 0 .. Len(Files[f].sizes) - 1 : c = <<f, i>>
  BY DEF Chunks
<1>2. PICK i \in 0 .. Len(Files[f].sizes) - 1 : c = <<f, i>>
  BY <1>1
<1>3. Len(Files[f].sizes) \in Nat
  BY FileFacts DEF TypeOK
<1>4. i \in Nat /\ i < Len(Files[f].sizes)
  BY <1>3
<1> QED
  BY <1>2, <1>3, <1>4

(* A new request is cut where the last one ended. *)
LEMMA NewRequest ==
  ASSUME TypeOK, ~LimitTooSmall, NEW q, NEW index, Position(q, index), NEW new,
         RequestAfter(q, index, Len(Files), new),
         UNCHANGED setup, queue' = new.queue, next' = new.next,
         request' = new.parts, chunkIndex' = index,
         DOMAIN buffer' = 0 .. MemoryLimit - 1
  PROVE  RequestIsCut' /\ CutFrom(new.parts, index)
<1>1. /\ Files' = Files /\ FileSet' = FileSet
      /\ MemoryLimit' = MemoryLimit /\ LimitTooSmall' = LimitTooSmall
  BY Still
<1> DEFINE P == new.parts
<1>2. /\ P \in Seq(Part) /\ Cut(P)
      /\ index \in [FileSet -> Nat] /\ new.next \in [FileSet -> Nat]
  BY DEF RequestAfter, Cut, Position
<1>3. \A i \in DOMAIN P :
        /\ P[i].file \in FileSet
        /\ P[i].first = index[P[i].file] /\ P[i].last = new.next[P[i].file]
        /\ P[i].first < P[i].last
        /\ \A j \in DOMAIN P : P[j].file = P[i].file => j = i
  BY DEF RequestAfter, Cut
<1>4. \A f \in FileSet :
        /\ index[f] <= new.next[f] /\ new.next[f] <= Len(Files[f].sizes)
        /\ index[f] < new.next[f] => \E i \in DOMAIN P : P[i].file = f
        /\ f < new.queue => new.next[f] = Len(Files[f].sizes)
  BY DEF RequestAfter, Position
<1>5. CutFrom(P, index)
  BY <1>2, <1>3 DEF CutFrom
<1>6. SumSeq(FlatSizes(P)) <= MemoryLimit
  <2> DEFINE x == SumSeq(FlatSizes(P))
             y == new.left
  <2>1. x \in Nat
    <3>1. Numbers(FlatSizes(P))
      BY <1>2, SizesAreNumbers DEF TypeOK
    <3>2. Len(FlatSizes(P)) \in 0 .. Len(FlatSizes(P))
      BY <3>1 DEF Numbers
    <3> QED
      BY <3>1, <3>2, SumSteps DEF SumSeq
  <2>2. y \in Nat /\ y + x = MemoryLimit
    BY DEF RequestAfter
  <2> HIDE DEF x, y
  <2>3. x <= MemoryLimit
    BY <2>1, <2>2
  <2> QED
    BY <2>3 DEF x
<1>7. SumSeq(FlatSizes(request))' <= MemoryLimit'
  <2>1. PICK R : R = P
    OBVIOUS
  <2>2. PICK i : i = submission'
    OBVIOUS
  <2>3. PICK s : s = streams'
    OBVIOUS
  <2>4. SumSeq(FlatSizes(request))' = SumSeq(FlatSizes(R))
    BY <2>1, <2>2, <2>3, Submitted
  <2>5. SumSeq(FlatSizes(R)) <= MemoryLimit
    BY <1>6, <2>1
  <2> QED
    BY <1>1, <2>4, <2>5
<1> HIDE DEF P
<1>8. RequestIsCut'
  <2>1. request' = P
    BY DEF P
  <2> QED
    BY <1>1, <1>2, <1>3, <1>4, <1>7, <2>1 DEF RequestIsCut
<1> QED
  BY <1>5, <1>8 DEF P

(* A new request is submitted, or its submission fails. *)
LEMMA SubmitStep ==
  ASSUME TypeOK, ~LimitTooSmall, NEW q, NEW index, Position(q, index), NEW new,
         RequestAfter(q, index, Len(Files), new),
         UNCHANGED <<setup, streamer>>, queue' = new.queue, next' = new.next,
         request' = new.parts, chunkIndex' = index,
         DOMAIN buffer' = 0 .. MemoryLimit - 1,
         inflight = {}, responses' = {}, streams' > 0,
         DOMAIN count' = Chunks,
         \A c \in Chunks : /\ c[2] < index[c[1]] => count'[c] = 1
                           /\ c[2] >= index[c[1]] => count'[c] = 0,
         NEW accepted \in {"ready", "running"}, Submit(new.parts, accepted)
  PROVE  Streaming'
<1>1. RequestIsCut' /\ CutFrom(new.parts, index)
  BY NewRequest
<1>2. consumed' = 0 /\ views' = {}
  BY DEF Submit
<1>3. FileSet' = FileSet /\ Chunks' = Chunks
  BY Still
<1>4. CountIsOne'
  <2> SUFFICES ASSUME NEW c \in Chunks
               PROVE  count'[c] \in {0, 1}
    BY DEF CountIsOne
  <2>1. index \in [FileSet -> Nat] /\ c[1] \in FileSet /\ c[2] \in Nat
    BY ChunkTypes DEF Position
  <2>2. c[2] < index[c[1]] \/ c[2] >= index[c[1]]
    BY <2>1
  <2> QED
    BY <2>2
<1>5. ChunksHold' /\ ViewsAreYielded'
  BY <1>2 DEF ChunksHold, ViewsAreYielded
<1>6. PICK P : P = new.parts
  OBVIOUS
<1>7. PICK s : s = streams'
  OBVIOUS
<1>8. PICK i : i = submission + 1
  OBVIOUS
<1> DEFINE R == SubmitRequest(P, i, s)
<1>9. /\ CutFrom(P, index) /\ setup \in Setups
      /\ IsFiniteSet(R) /\ Cardinality(R) = SumSeq(NumRanges(P))
      /\ SumSeq(NumRanges(P)) \in Nat
  BY <1>1, <1>6, SubmissionSize DEF CutFrom, TypeOK
<1>10. ASSUME NEW r \in R
       PROVE  /\ r.path \in FileSet /\ ChunkAt(index, r) \in Chunks
              /\ count'[ChunkAt(index, r)] = 0
  <2> DEFINE c == ChunkAt(index, r)
  <2>1. /\ r.path \in FileSet /\ c \in Chunks /\ c[1] = r.path
        /\ c[2] \in Nat /\ index[r.path] <= c[2]
    BY <1>9, ChunkFacts
  <2> HIDE DEF c
  <2>2. index[r.path] \in Nat
    BY <2>1 DEF Position
  <2>3. c[2] >= index[c[1]]
    BY <2>1, <2>2
  <2>4. count'[c] = 0
    BY <2>1, <2>3
  <2> QED
    BY <2>1, <2>4 DEF c
<1>11. CASE gen' = accepted /\ submission' = submission + 1 /\ streamer
            /\ inflight' = inflight
                   \cup SubmitRequest(new.parts, submission + 1, streams')
  <2>1. inflight' = R /\ submission' = i /\ request' = P
    BY <1>6, <1>7, <1>8, <1>11
  <2>2. Ranges' = R /\ Owed' = SumSeq(NumRanges(P))
    BY <1>7, <2>1, Submitted
  <2>3. \A r : ChunkOf(r)' = ChunkAt(index, r)
    BY DEF ChunkOf, ChunkAt
  <2> HIDE DEF R
  <2>4. Yielded' = {}
    BY <1>10, <2>2, <2>3 DEF Yielded
  <2>5. CountIsExact'
    <3>1. Cardinality(Yielded') = consumed'
      BY <1>2, <2>4, FS_EmptySet
    <3>2. ASSUME NEW c \in Chunks, c[2] >= next'[c[1]]
          PROVE  count'[c] = 0
      <4>1. c[1] \in FileSet /\ c[2] \in Nat
        BY ChunkTypes
      <4>2. /\ index[c[1]] <= new.next[c[1]]
            /\ index[c[1]] \in Nat /\ new.next[c[1]] \in Nat
        BY <4>1 DEF RequestAfter, Position
      <4>3. c[2] >= index[c[1]]
        BY <3>2, <4>1, <4>2
      <4> QED
        BY <4>3
    <3> QED
      BY <1>3, <3>1, <3>2 DEF CountIsExact
  <2>6. Answered' = {}
    BY DEF Answered
  <2>7. NothingIsLost'
    <3>1. IsFiniteSet({}) /\ Cardinality({}) = 0
      BY FS_EmptySet
    <3>2. Cardinality(inflight') + Cardinality(responses') + consumed' = Owed'
      BY <1>2, <1>9, <2>1, <2>2, <3>1
    <3>3. \A r \in inflight' \cup Answered' : count'[ChunkOf(r)'] = 0
      BY <1>10, <2>1, <2>3, <2>6
    <3> QED
      BY <1>9, <2>1, <2>2, <2>6, <3>1, <3>2, <3>3 DEF NothingIsLost
  <2>8. gen' \in {"ready", "running"}
    BY <1>11
  <2>9. Quiet'
    BY <1>3, <1>10, <1>11, <2>1, <2>8 DEF Quiet, Active
  <2> QED
    BY <1>1, <1>4, <1>5, <2>5, <2>7, <2>8, <2>9 DEF Streaming
<1>12. CASE gen' = "raised" /\ inflight' \subseteq R
            /\ (streamer \/ inflight' = {})
  <2>1. Quiet'
    BY <1>2, <1>3, <1>10, <1>12 DEF Quiet, Active
  <2> QED
    BY <1>4, <1>5, <1>12, <2>1 DEF Streaming, Active, Reading
<1>13. CASE streamer /\ gen' = "raised"
            /\ inflight' = inflight
                   \cup SubmitRequest(new.parts, submission + 1, streams')
  <2>1. inflight' \subseteq R
    BY <1>6, <1>7, <1>8, <1>13
  <2> QED
    BY <1>12, <1>13, <2>1
<1>14. CASE gen' = "raised" /\ UNCHANGED inflight
  BY <1>12, <1>14
<1> QED
  BY <1>11, <1>13, <1>14 DEF Submit

(* stream_files: a new buffer, and the first request. *)
LEMMA StreamFilesStep ==
  ASSUME TypeOK, inflight = {}, responses = {}, StreamFiles
  PROVE  Streaming'
<1> DEFINE zero == [f \in FileSet |-> 0]
           first == NextRequest(1, zero)
<1>1. /\ streamer /\ gen \in {"none", "over", "closed"} /\ ~LimitTooSmall
      /\ streams' = streams + 1 /\ queue' = first.queue /\ next' = first.next
      /\ chunkIndex' = zero /\ request' = first.parts
      /\ buffer' = [a \in 0 .. MemoryLimit - 1 |-> <<0, 0>>]
      /\ count' = [c \in Chunks |-> 0]
      /\ IF first.parts = <<>>
         THEN /\ gen' = "over" /\ consumed' = 0 /\ views' = {}
              /\ UNCHANGED <<submission, inflight>>
         ELSE Submit(first.parts, "ready")
      /\ UNCHANGED <<setup, streamer, responses>>
  BY DEF StreamFiles, sessionVars
<1>2. setup \in Setups
  BY DEF TypeOK
<1>3. Position(1, zero)
  <2>1. \A g \in FileSet : zero[g] = 0 /\ 0 <= Len(Files[g].sizes) /\ ~(g < 1)
    BY <1>2, FileFacts DEF FileSet
  <2> QED
    BY <2>1 DEF Position
<1> HIDE DEF zero
<1>4. RequestAfter(1, zero, Len(Files), first)
  BY <1>1, <1>2, <1>3, NextRequestFacts
<1>5. \A c \in Chunks : zero[c[1]] = 0 /\ c[2] >= 0 /\ ~(c[2] < 0)
  BY ChunkTypes DEF zero
<1> HIDE DEF first
<1>6. inflight = {} /\ responses = {}
  OBVIOUS
<1>7. streams' > 0
  BY <1>1 DEF TypeOK
<1>9. CASE first.parts = <<>>
  <2>1. Chunks = {}
    <3> SUFFICES ASSUME NEW c \in Chunks
                 PROVE  FALSE
      OBVIOUS
    <3>1. c[1] \in FileSet /\ c[2] \in Nat /\ c[2] < Len(Files[c[1]].sizes)
      BY ChunkTypes
    <3>2. c[1] <= Len(Files) /\ c[1] \in Nat /\ Len(Files) \in Nat
      BY <1>2, <3>1, FileFacts DEF FileSet
    <3>3. first.queue > Len(Files) /\ first.queue \in Nat
      BY <1>4, <1>9 DEF RequestAfter, Position
    <3>4. first.next[c[1]] = Len(Files[c[1]].sizes)
      <4>1. c[1] < first.queue
        BY <3>2, <3>3
      <4> QED
        BY <1>4, <3>1, <4>1 DEF RequestAfter, Position
    <3>5. ~(zero[c[1]] < first.next[c[1]])
      <4>1. DOMAIN <<>> = {}
        OBVIOUS
      <4> QED
        BY <1>4, <1>9, <3>1, <4>1 DEF RequestAfter
    <3> QED
      BY <1>5, <3>1, <3>4, <3>5
  <2>2. DOMAIN count' = {} /\ gen' = "over" /\ views' = {}
    BY <1>1, <1>9, <2>1
  <2>3. inflight' = {} /\ responses' = {}
    BY <1>1, <1>6, <1>9
  <2> QED
    BY <1>7, <2>2, <2>3
       DEF Streaming, CountIsOne, Quiet, ChunksHold, Active, Reading
<1>10. CASE first.parts # <<>>
  <2>1. Submit(first.parts, "ready")
    BY <1>1, <1>10
  <2>2. DOMAIN count' = Chunks /\ DOMAIN buffer' = 0 .. MemoryLimit - 1
    BY <1>1
  <2>3. \A c \in Chunks : /\ c[2] < zero[c[1]] => count'[c] = 1
                          /\ c[2] >= zero[c[1]] => count'[c] = 0
    BY <1>1, <1>5
  <2>4. UNCHANGED <<setup, streamer>> /\ responses' = {}
    BY <1>1, <1>6
  <2>5. /\ queue' = first.queue /\ next' = first.next /\ ~LimitTooSmall
        /\ request' = first.parts /\ chunkIndex' = zero
    BY <1>1
  <2>6. "ready" \in {"ready", "running"}
    OBVIOUS
  <2> QED
    BY <1>3, <1>4, <1>6, <1>7, <2>1, <2>2, <2>3, <2>4, <2>5, <2>6, SubmitStep
<1> QED
  BY <1>9, <1>10

(* A request that is drained has yielded all of its ranges. *)
LEMMA RequestIsYielded ==
  ASSUME TypeOK, Streaming, Reading, consumed = Owed
  PROVE  /\ inflight = {} /\ responses = {}
         /\ \A c \in Chunks : c[2] < next[c[1]] => count[c] = 1
<1>1. Active
  BY DEF Active, Reading
<1>2. RequestIsCut /\ CountIsExact /\ setup \in Setups
  BY <1>1 DEF Streaming, TypeOK
<1>3. /\ IsFiniteSet(Ranges) /\ Cardinality(Ranges) = Owed /\ Owed \in Nat
      /\ CutFrom(request, chunkIndex)
  BY <1>2, RequestFacts
<1>4. inflight = {} /\ responses = {}
  <2>1. CASE ~streamer
    BY <2>1 DEF Streaming, Quiet
  <2>2. CASE streamer
    <3>1. NothingIsLost
      BY <1>1, <2>2 DEF Streaming
    <3>2. /\ IsFiniteSet(inflight) /\ IsFiniteSet(responses)
          /\ Cardinality(inflight) \in Nat /\ Cardinality(responses) \in Nat
          /\ Cardinality(inflight) + Cardinality(responses) + consumed = Owed
      BY <3>1, FS_CardinalityType DEF NothingIsLost
    <3>3. Cardinality(inflight) = 0 /\ Cardinality(responses) = 0
      <4> DEFINE x == Cardinality(inflight)
                 y == Cardinality(responses)
                 w == Owed
      <4>1. x \in Nat /\ y \in Nat /\ w \in Nat /\ x + y + w = w
        BY <1>3, <3>2
      <4> HIDE DEF x, y, w
      <4>2. x = 0 /\ y = 0
        BY <4>1
      <4> QED
        BY <4>2 DEF x, y
    <3> QED
      BY <3>2, <3>3, FS_EmptySet
  <2> QED
    BY <2>1, <2>2
<1>5. Yielded = Ranges
  <2>1. Yielded \subseteq Ranges /\ Cardinality(Yielded) = Cardinality(Ranges)
    BY <1>2, <1>3 DEF Yielded, CountIsExact
  <2> QED
    BY <1>3, <2>1, FS_Subset
<1>6. ASSUME NEW c \in Chunks, c[2] < next[c[1]]
      PROVE  count[c] = 1
  <2>1. c[1] \in FileSet /\ c[2] \in Nat /\ c = <<c[1], c[2]>>
    BY ChunkTypes
  <2>2. chunkIndex[c[1]] \in Nat /\ next[c[1]] \in Nat
    BY <1>2, <2>1 DEF RequestIsCut
  <2>3. CASE c[2] < chunkIndex[c[1]]
    BY <1>2, <2>3 DEF CountIsExact
  <2>4. CASE chunkIndex[c[1]] <= c[2]
    <3>1. PICK i \in DOMAIN request : request[i].file = c[1]
      <4>1. chunkIndex[c[1]] < next[c[1]]
        BY <1>6, <2>1, <2>2, <2>4
      <4> QED
        BY <1>2, <2>1, <4>1 DEF RequestIsCut
    <3>2. request[i].first <= c[2] /\ c[2] < request[i].last
      BY <1>2, <1>6, <2>4, <3>1 DEF RequestIsCut
    <3>3. PICK r \in SubmitRequest(request, submission, streams) :
            ChunkAt(chunkIndex, r) = <<request[i].file, c[2]>>
      BY <1>2, <1>3, <2>1, <3>2, RangeExists
    <3>4. r \in Yielded /\ ChunkOf(r) = c
      BY <1>5, <2>1, <3>1, <3>3 DEF Ranges, ChunkOf, ChunkAt
    <3> QED
      BY <3>4 DEF Yielded
  <2> QED
    BY <2>1, <2>2, <2>3, <2>4
<1> QED
  BY <1>4, <1>6

(* The next request, or the end of the stream. *)
LEMMA NextRequestStep ==
  ASSUME TypeOK, Streaming, NextRequestOf
  PROVE  Streaming'
<1> DEFINE new == NextRequest(queue, next)
<1>1. /\ gen = "suspended" /\ consumed = Owed
      /\ queue' = new.queue /\ next' = new.next /\ request' = new.parts
      /\ chunkIndex' = IF queue > Len(Files) THEN chunkIndex ELSE Advanced
      /\ IF new.parts = <<>>
         THEN /\ gen' = "over"
              /\ UNCHANGED <<submission, inflight, consumed, views>>
         ELSE streams' = streams /\ Submit(new.parts, "running")
      /\ UNCHANGED <<setup, streamer, streams, responses, buffer, count>>
  BY DEF NextRequestOf, sessionVars, Streaming, Quiet
<1>2. Active /\ Reading /\ setup \in Setups
  BY <1>1 DEF Active, Reading, TypeOK
<1>3. RequestIsCut /\ CountIsExact /\ CountIsOne /\ streams > 0
  BY <1>2 DEF Streaming, Quiet
<1>4. /\ inflight = {} /\ responses = {}
      /\ \A c \in Chunks : c[2] < next[c[1]] => count[c] = 1
  BY <1>1, <1>2, RequestIsYielded
<1>5. ~LimitTooSmall /\ Position(queue, next)
  BY <1>3 DEF RequestIsCut, Position, TypeOK
<1>6. RequestAfter(queue, next, Len(Files), new)
  BY <1>2, <1>5, NextRequestFacts
<1>7. queue > Len(Files) => new.parts = <<>>
  BY <1>2, NothingLeft DEF TypeOK
<1> HIDE DEF new
<1>9. CASE new.parts = <<>>
  <2>1. \A c \in Chunks : count[c] = 1
    <3> SUFFICES ASSUME NEW c \in Chunks
                 PROVE  count[c] = 1
      OBVIOUS
    <3>1. c[1] \in FileSet /\ c[2] \in Nat /\ c[2] < Len(Files[c[1]].sizes)
      BY ChunkTypes
    <3>2. c[1] <= Len(Files) /\ c[1] \in Nat /\ Len(Files) \in Nat
      BY <1>2, <3>1, FileFacts DEF FileSet
    <3>3. new.queue > Len(Files) /\ new.queue \in Nat
      BY <1>6, <1>9 DEF RequestAfter, Position
    <3>4. new.next[c[1]] = Len(Files[c[1]].sizes)
      <4>1. c[1] < new.queue
        BY <3>2, <3>3
      <4> QED
        BY <1>6, <3>1, <4>1 DEF RequestAfter, Position
    <3>5. ~(next[c[1]] < new.next[c[1]]) /\ next[c[1]] <= new.next[c[1]]
      <4>1. DOMAIN <<>> = {}
        OBVIOUS
      <4> QED
        BY <1>6, <1>9, <3>1, <4>1 DEF RequestAfter
    <3>6. next[c[1]] \in Nat /\ new.next[c[1]] \in Nat
      BY <1>5, <1>6, <3>1 DEF Position, RequestAfter
    <3>7. c[2] < next[c[1]]
      BY <3>1, <3>4, <3>5, <3>6
    <3> QED
      BY <1>4, <3>7
  <2>2. gen' = "over" /\ UNCHANGED <<inflight, views>>
    BY <1>1, <1>9
  <2>3. Files' = Files
    BY <1>1, Still
  <2>4. ChunksHold'
    BY <1>1, <2>2, <2>3 DEF Streaming, ChunksHold
  <2>5. DOMAIN count = Chunks
    BY <1>3 DEF CountIsExact
  <2>6. inflight' = {} /\ responses' = {}
    BY <1>1, <1>4, <2>2
  <2> QED
    BY <1>1, <2>1, <2>2, <2>4, <2>5, <2>6
       DEF Streaming, CountIsOne, Quiet, Active, Reading
<1>10. CASE new.parts # <<>>
  <2>1. chunkIndex' = next
    <3>1. ~(queue > Len(Files))
      BY <1>7, <1>10
    <3>2. Advanced = next
      BY <1>3, AdvancedIsNext
    <3> QED
      BY <1>1, <3>1, <3>2
  <2>2. /\ streams' > 0 /\ Submit(new.parts, "running") /\ responses' = {}
        /\ UNCHANGED <<setup, streamer>>
        /\ queue' = new.queue /\ next' = new.next /\ request' = new.parts
    BY <1>1, <1>3, <1>4, <1>10
  <2>3. DOMAIN count' = Chunks /\ DOMAIN buffer' = 0 .. MemoryLimit - 1
    BY <1>1, <1>3 DEF CountIsExact, RequestIsCut
  <2>4. \A c \in Chunks : /\ c[2] < next[c[1]] => count'[c] = 1
                          /\ c[2] >= next[c[1]] => count'[c] = 0
    BY <1>1, <1>3, <1>4 DEF CountIsExact
  <2>5. "running" \in {"ready", "running"}
    OBVIOUS
  <2>6. PICK index : index = next
    OBVIOUS
  <2>7. PICK q : q = queue
    OBVIOUS
  <2>8. PICK fresh : fresh = new
    OBVIOUS
  <2>9. /\ Position(q, index) /\ RequestAfter(q, index, Len(Files), fresh)
        /\ chunkIndex' = index
        /\ queue' = fresh.queue /\ next' = fresh.next
        /\ request' = fresh.parts /\ Submit(fresh.parts, "running")
        /\ \A c \in Chunks : /\ c[2] < index[c[1]] => count'[c] = 1
                             /\ c[2] >= index[c[1]] => count'[c] = 0
    BY <1>5, <1>6, <2>1, <2>2, <2>4, <2>6, <2>7, <2>8
  <2> QED
    BY <1>4, <1>5, <2>2, <2>3, <2>5, <2>9, SubmitStep
<1> QED
  BY <1>9, <1>10

-----------------------------------------------------------------------------
(* After a None *)

(* A step that only takes responses away, or begins nothing. *)
LEMMA OnceShrinks ==
  ASSUME TypeOK, Once, UNCHANGED <<setup, iterVars, submission, count>>,
         DOMAIN buffer' = DOMAIN buffer,
         inflight' \subseteq inflight, responses' \subseteq responses,
         streamer' = streamer \/ (inflight' = {} /\ responses' = {}),
         Going' => Going, gen' # "raised" => gen # "raised"
  PROVE  Once'
<1>1. /\ Ranges' = Ranges
      /\ \A r : ChunkOf(r)' = ChunkOf(r)
      /\ RequestIsCut => RequestIsCut'
  BY Kept
<1>2. Chunks' = Chunks /\ next' = next /\ streams' = streams
  BY Still DEF iterVars
<1>3. Answered' \subseteq Answered
  BY DEF Answered
<1>4. CountIsOne'
  BY DEF Once, CountIsOne
<1>5. ~streamer' \/ streams' = 0 => inflight' = {} /\ responses' = {}
  BY <1>2 DEF Once
<1>6. /\ \A r, s \in responses' : r.range = s.range => r = s
      /\ inflight' \cap Answered' = {}
      /\ \A r \in inflight' \cup Answered' :
           /\ r.sub \in Nat
           /\ gen' # "raised" => r.sub <= submission'
  BY <1>3 DEF Once
<1>7. ASSUME Going'
      PROVE  /\ RequestIsCut' /\ DOMAIN count' = Chunks' /\ streams' > 0
             /\ \A c \in Chunks' : c[2] >= next'[c[1]] => count'[c] = 0
             /\ \A r \in inflight' \cup Answered' :
                  r.sub = submission' => r \in Ranges'
                                         /\ count'[ChunkOf(r)'] = 0
  BY <1>1, <1>2, <1>3, <1>7 DEF Once
<1> QED
  BY <1>4, <1>5, <1>6, <1>7 DEF Once

(* A session begins. *)
LEMMA OnceEnter ==
  ASSUME TypeOK, Once, Enter
  PROVE  Once'
<1>1. /\ ~streamer /\ gen' = "none"
      /\ UNCHANGED <<inflight, responses, count>>
  BY DEF Enter, cVars
<1>2. inflight' = {} /\ responses' = {}
  BY <1>1 DEF Once
<1>3. Answered' = {} /\ ~Going'
  BY <1>1, <1>2 DEF Answered, Going, Active
<1>4. CountIsOne'
  BY <1>1 DEF Once, CountIsOne
<1> QED
  BY <1>2, <1>3, <1>4 DEF Once

(* A range in flight is answered. *)
LEMMA OnceAnswer ==
  ASSUME TypeOK, Once, NEW r \in inflight, Answer(r)
  PROVE  Once'
<1>1. /\ inflight' = inflight \ {r}
      /\ UNCHANGED <<setup, iterVars, submission>>
      /\ UNCHANGED <<gen, count, streamer>>
      /\ DOMAIN buffer' = DOMAIN buffer
  BY DEF Answer, sessionVars, genVars
<1>2. PICK ret : responses' = responses \cup {[range |-> r, ret |-> ret]}
  BY DEF Answer
<1>3. /\ Ranges' = Ranges
      /\ \A s : ChunkOf(s)' = ChunkOf(s)
      /\ RequestIsCut => RequestIsCut'
  BY <1>1, Kept
<1>4. Chunks' = Chunks /\ next' = next /\ streams' = streams
  BY <1>1, Still DEF iterVars
<1> DEFINE rsp == [range |-> r, ret |-> ret]
<1>5. responses' = responses \cup {rsp} /\ rsp.range = r
  BY <1>2
<1> HIDE DEF rsp
<1>6. Answered' = Answered \cup {r} /\ Going' = Going
  BY <1>1, <1>5 DEF Answered, Going, Active
<1>7. CountIsOne'
  BY <1>1 DEF Once, CountIsOne
<1>8. ~(~streamer' \/ streams' = 0)
  BY <1>1, <1>4 DEF Once
<1>9. \A s, t \in responses' : s.range = t.range => s = t
  <2>1. \A s \in responses : s.range # r
    BY DEF Once, Answered
  <2> QED
    BY <1>5, <2>1 DEF Once
<1>10. inflight' \cap Answered' = {}
  BY <1>1, <1>6 DEF Once
<1>11. inflight' \cup Answered' \subseteq inflight \cup Answered
  BY <1>1, <1>6
<1>12. \A s \in inflight' \cup Answered' :
         /\ s.sub \in Nat
         /\ gen' # "raised" => s.sub <= submission'
  BY <1>1, <1>11 DEF Once
<1>13. ASSUME Going'
       PROVE  /\ RequestIsCut' /\ DOMAIN count' = Chunks' /\ streams' > 0
              /\ \A c \in Chunks' : c[2] >= next'[c[1]] => count'[c] = 0
              /\ \A s \in inflight' \cup Answered' :
                   s.sub = submission' => s \in Ranges'
                                          /\ count'[ChunkOf(s)'] = 0
  BY <1>1, <1>3, <1>4, <1>6, <1>11, <1>13 DEF Once
<1>14. ~streamer' \/ streams' = 0 => inflight' = {} /\ responses' = {}
  BY <1>8
<1> QED
  BY <1>7, <1>9, <1>10, <1>12, <1>13, <1>14 DEF Once

(* A chunk is yielded, or the draining begins. *)
LEMMA OnceNextChunk ==
  ASSUME TypeOK, Once, NEW r \in responses, NextChunk(r)
  PROVE  Once'
<1>1. /\ streamer /\ gen \in {"ready", "suspended", "running"}
      /\ responses' = responses \ {r}
      /\ UNCHANGED <<setup, iterVars, submission, inflight, buffer, streamer>>
  BY DEF NextChunk, sessionVars
<1>2. Going
  BY <1>1 DEF Going, Active
<1>3. CASE ~(r.ret = "Success" /\ r.range.sub = submission)
  <2>1. gen' = "draining" /\ count' = count
    BY <1>3 DEF NextChunk
  <2> QED
    BY <1>1, <1>2, <2>1, OnceShrinks
<1>4. CASE r.ret = "Success" /\ r.range.sub = submission
  <2> DEFINE t == r.range
             c == ChunkOf(t)
  <2>1. t \in Answered
    BY DEF Answered
  <2>2. RequestIsCut /\ t \in Ranges /\ count[c] = 0 /\ DOMAIN count = Chunks
    BY <1>2, <1>4, <2>1 DEF Once
  <2>3. gen' = "suspended" /\ count' = [count EXCEPT ![c] = @ + 1]
    BY <1>4, <2>2, ChunkIsYielded
  <2>4. /\ c \in Chunks /\ c[1] = t.path /\ c[2] \in Nat /\ t.path \in FileSet
        /\ c[2] < next[t.path]
        /\ \A s \in Ranges : s # t => ChunkOf(s) # c
        /\ \A s \in Ranges : ChunkOf(s) \in Chunks
    BY <2>2, RequestFacts
  <2> HIDE DEF c
  <2>5. /\ DOMAIN count' = Chunks /\ count'[c] = 1
        /\ \A d \in Chunks : d # c => count'[d] = count[d]
    BY <2>2, <2>3, <2>4
  <2>6. /\ Ranges' = Ranges
        /\ \A s : ChunkOf(s)' = ChunkOf(s)
        /\ RequestIsCut'
    BY <1>1, <2>2, Kept
  <2>7. /\ Chunks' = Chunks /\ next' = next /\ streams' = streams
        /\ streams > 0
    BY <1>1, <1>2, Still DEF iterVars, Once
  <2>8. Answered' = Answered \ {t}
    <3>1. \A s \in responses : s # r => s.range # t
      BY DEF Once
    <3> QED
      BY <1>1, <3>1 DEF Answered
  <2>9. CountIsOne'
    BY <2>2, <2>5 DEF Once, CountIsOne
  <2>10. ~streamer' \/ streams' = 0 => inflight' = {} /\ responses' = {}
    BY <1>1, <2>7 DEF Once
  <2>11. /\ \A s, u \in responses' : s.range = u.range => s = u
         /\ inflight' \cap Answered' = {}
    BY <1>1, <2>8 DEF Once
  <2>12. \A s \in inflight' \cup Answered' :
           s.sub \in Nat /\ (gen' # "raised" => s.sub <= submission')
    BY <1>1, <2>8 DEF Once
  <2>13. \A d \in Chunks : d[2] >= next[d[1]] => count'[d] = 0
    <3> SUFFICES ASSUME NEW d \in Chunks, d[2] >= next[d[1]]
                 PROVE  count'[d] = 0
      OBVIOUS
    <3>1. next[t.path] \in Nat
      BY <2>2, <2>4 DEF RequestIsCut
    <3>2. d # c
      BY <2>4, <3>1
    <3>3. count[d] = 0
      BY <1>2 DEF Once
    <3> QED
      BY <2>5, <3>2, <3>3
  <2>14. ASSUME NEW s \in inflight' \cup Answered', s.sub = submission
         PROVE  s \in Ranges /\ count'[ChunkOf(s)] = 0
    <3>1. s # t
      BY <1>1, <2>1, <2>8 DEF Once
    <3>2. s \in inflight \cup Answered
      BY <1>1, <2>8
    <3>3. s \in Ranges /\ count[ChunkOf(s)] = 0
      BY <1>2, <2>14, <3>2 DEF Once
    <3> QED
      BY <2>4, <2>5, <3>1, <3>3
  <2> QED
    BY <1>1, <2>5, <2>6, <2>7, <2>9, <2>10, <2>11, <2>12, <2>13, <2>14
       DEF Once
<1> QED
  BY <1>3, <1>4

(* A request is submitted, or its submission fails: what is left of others *)
(* is of an earlier id.                                                    *)
LEMMA OnceSubmit ==
  ASSUME TypeOK, Once, gen # "raised", ~LimitTooSmall,
         NEW q, NEW index, Position(q, index), NEW new,
         RequestAfter(q, index, Len(Files), new),
         UNCHANGED <<setup, streamer, responses>>, queue' = new.queue,
         next' = new.next, request' = new.parts, chunkIndex' = index,
         DOMAIN buffer' = 0 .. MemoryLimit - 1, streams' > 0,
         DOMAIN count' = Chunks, CountIsOne',
         \A c \in Chunks : c[2] >= index[c[1]] => count'[c] = 0,
         NEW accepted \in {"ready", "running"}, Submit(new.parts, accepted)
  PROVE  Once'
<1>1. RequestIsCut' /\ CutFrom(new.parts, index)
  BY NewRequest
<1>2. Chunks' = Chunks
  BY Still
<1>3. Answered' = Answered
  BY DEF Answered
<1>4. PICK P : P = new.parts
  OBVIOUS
<1>5. PICK s : s = streams'
  OBVIOUS
<1>6. PICK i : i = submission + 1
  OBVIOUS
<1>7. submission \in Nat /\ i \in Nat /\ i > submission
  BY <1>6 DEF TypeOK
<1> DEFINE R == SubmitRequest(P, i, s)
<1>8. ASSUME NEW r \in R
      PROVE  /\ r.sub = i /\ ChunkAt(index, r) \in Chunks
             /\ count'[ChunkAt(index, r)] = 0
  <2> DEFINE c == ChunkAt(index, r)
  <2>1. CutFrom(P, index) /\ setup \in Setups
    BY <1>1, <1>4 DEF TypeOK
  <2>2. /\ r.path \in FileSet /\ c \in Chunks /\ c[1] = r.path
        /\ c[2] \in Nat /\ index[r.path] <= c[2] /\ r.sub = i
    BY <2>1, ChunkFacts
  <2> HIDE DEF c
  <2>3. index[r.path] \in Nat
    BY <2>2 DEF Position
  <2>4. count'[c] = 0
    BY <2>2, <2>3
  <2> QED
    BY <2>2, <2>4 DEF c
<1> HIDE DEF R
<1>9. \A r \in inflight \cup Answered : r.sub \in Nat /\ r.sub <= submission
  BY DEF Once
<1>10. R \cap Answered = {} /\ inflight \cap Answered = {}
  <2>1. \A r \in Answered : r.sub # i
    BY <1>7, <1>9
  <2> QED
    BY <1>8, <2>1 DEF Once
<1>11. inflight' \subseteq inflight \cup R
  BY <1>4, <1>5, <1>6 DEF Submit, R
<1>12. ~streamer' \/ streams' = 0 => inflight' = {} /\ responses' = {}
  <2>1. CASE streamer
    BY <2>1
  <2>2. CASE ~streamer
    BY <2>2 DEF Submit, Once
  <2> QED
    BY <2>1, <2>2
<1>13. /\ \A r, t \in responses' : r.range = t.range => r = t
       /\ inflight' \cap Answered' = {}
  BY <1>3, <1>10, <1>11 DEF Once
<1>14. \A r \in inflight' \cup Answered' : r.sub \in Nat
  BY <1>3, <1>7, <1>8, <1>9, <1>11
<1>15. CASE gen' = "raised"
  <2>1. ~Going'
    BY <1>15 DEF Going, Active
  <2> QED
    BY <1>12, <1>13, <1>14, <1>15, <2>1 DEF Once
<1>16. CASE gen' # "raised"
  <2>1. submission' = i
    BY <1>6, <1>16 DEF Submit
  <2>2. Ranges' = R
    BY <1>4, <1>5, <2>1, Submitted DEF R
  <2>3. \A r : ChunkOf(r)' = ChunkAt(index, r)
    BY DEF ChunkOf, ChunkAt
  <2>4. \A r \in inflight' \cup Answered' : r.sub <= submission'
    BY <1>3, <1>7, <1>8, <1>9, <1>11, <2>1
  <2>5. R \subseteq inflight'
    BY <1>4, <1>5, <1>6, <1>16 DEF Submit, R
  <2>6. ASSUME NEW r \in inflight' \cup Answered', r.sub = i
        PROVE  r \in R /\ count'[ChunkAt(index, r)] = 0
    <3>1. r \notin inflight \cup Answered
      BY <1>7, <1>9, <2>6
    <3>2. r \in R
      BY <1>3, <1>11, <3>1
    <3> QED
      BY <1>8, <3>2
  <2>7. ASSUME NEW c \in Chunks, c[2] >= next'[c[1]]
        PROVE  count'[c] = 0
    <3>1. c[1] \in FileSet /\ c[2] \in Nat
      BY ChunkTypes
    <3>2. /\ index[c[1]] <= new.next[c[1]]
          /\ index[c[1]] \in Nat /\ new.next[c[1]] \in Nat
      BY <3>1 DEF RequestAfter, Position
    <3>3. c[2] >= index[c[1]]
      BY <2>7, <3>1, <3>2
    <3> QED
      BY <3>3
  <2> QED
    BY <1>1, <1>2, <1>12, <1>13, <1>14, <2>1, <2>2, <2>3, <2>4, <2>6, <2>7
       DEF Once
<1> QED
  BY <1>15, <1>16

(* There is nothing to submit. *)
LEMMA OnceOver ==
  ASSUME Once, gen # "raised", gen' = "over", CountIsOne', streams' > 0,
         UNCHANGED <<streamer, inflight, responses, submission>>
  PROVE  Once'
<1>1. Answered' = Answered /\ ~Going'
  BY DEF Answered, Going, Active
<1>2. ~streamer' \/ streams' = 0 => inflight' = {} /\ responses' = {}
  BY DEF Once
<1>3. /\ \A r, s \in responses' : r.range = s.range => r = s
      /\ inflight' \cap Answered' = {}
      /\ \A r \in inflight' \cup Answered' :
           /\ r.sub \in Nat
           /\ gen' # "raised" => r.sub <= submission'
  BY <1>1 DEF Once
<1> QED
  BY <1>1, <1>2, <1>3 DEF Once

(* stream_files, whatever is left of an earlier stream. *)
LEMMA OnceStreamFiles ==
  ASSUME TypeOK, Once, StreamFiles
  PROVE  Once' /\ queue' \in Nat \ {0} /\ streams' \in Nat
         /\ submission' \in Nat /\ consumed' \in Nat
<1> DEFINE zero == [f \in FileSet |-> 0]
           first == NextRequest(1, zero)
<1>1. /\ streamer /\ gen \in {"none", "over", "closed"} /\ ~LimitTooSmall
      /\ streams' = streams + 1 /\ queue' = first.queue /\ next' = first.next
      /\ chunkIndex' = zero /\ request' = first.parts
      /\ buffer' = [a \in 0 .. MemoryLimit - 1 |-> <<0, 0>>]
      /\ count' = [c \in Chunks |-> 0]
      /\ IF first.parts = <<>>
         THEN /\ gen' = "over" /\ consumed' = 0 /\ views' = {}
              /\ UNCHANGED <<submission, inflight>>
         ELSE Submit(first.parts, "ready")
      /\ UNCHANGED <<setup, streamer, responses>>
  BY DEF StreamFiles
<1>2. setup \in Setups
  BY DEF TypeOK
<1>3. Position(1, zero)
  <2>1. \A g \in FileSet : zero[g] = 0 /\ 0 <= Len(Files[g].sizes) /\ ~(g < 1)
    BY <1>2, FileFacts DEF FileSet
  <2> QED
    BY <2>1 DEF Position
<1> HIDE DEF zero
<1>4. RequestAfter(1, zero, Len(Files), first)
  BY <1>1, <1>2, <1>3, NextRequestFacts
<1> HIDE DEF first
<1>5. /\ streams' \in Nat /\ streams' > 0 /\ queue' \in Nat \ {0}
      /\ submission' \in Nat /\ consumed' \in Nat
  BY <1>1, <1>4 DEF TypeOK, RequestAfter, Position, Submit
<1>6. CountIsOne' /\ DOMAIN count' = Chunks
      /\ \A c \in Chunks : c[2] >= zero[c[1]] => count'[c] = 0
  BY <1>1 DEF CountIsOne
<1>7. gen # "raised" /\ DOMAIN buffer' = 0 .. MemoryLimit - 1
  BY <1>1
<1>8. CASE first.parts = <<>>
  BY <1>1, <1>5, <1>6, <1>7, <1>8, OnceOver
<1>9. CASE first.parts # <<>>
  <2>1. Submit(first.parts, "ready") /\ "ready" \in {"ready", "running"}
    BY <1>1, <1>9
  <2>2. UNCHANGED <<setup, streamer, responses>>
    BY <1>1
  <2>3. /\ queue' = first.queue /\ next' = first.next /\ ~LimitTooSmall
        /\ request' = first.parts /\ chunkIndex' = zero
    BY <1>1
  <2>4. Once'
    BY <1>3, <1>4, <1>5, <1>6, <1>7, <2>1, <2>2, <2>3, OnceSubmit
  <2> QED
    BY <1>5, <2>4
<1> QED
  BY <1>5, <1>8, <1>9

(* The next request, whatever is left of this one. *)
LEMMA OnceNextRequest ==
  ASSUME TypeOK, Once, NextRequestOf
  PROVE  Once' /\ queue' \in Nat \ {0}
         /\ submission' \in Nat /\ consumed' \in Nat
<1> DEFINE new == NextRequest(queue, next)
<1>1. /\ gen \in {"left", "suspended"}
      /\ queue' = new.queue /\ next' = new.next /\ request' = new.parts
      /\ chunkIndex' = IF queue > Len(Files) THEN chunkIndex ELSE Advanced
      /\ IF new.parts = <<>>
         THEN /\ gen' = "over"
              /\ UNCHANGED <<submission, inflight, consumed, views>>
         ELSE streams' = streams /\ Submit(new.parts, "running")
      /\ UNCHANGED <<setup, streamer, streams, responses, buffer, count>>
  BY DEF NextRequestOf, sessionVars
<1>2. Going /\ setup \in Setups /\ gen # "raised"
  BY <1>1 DEF Going, Active, TypeOK
<1>3. RequestIsCut /\ CountIsOne /\ DOMAIN count = Chunks
      /\ \A c \in Chunks : c[2] >= next[c[1]] => count[c] = 0
  BY <1>2 DEF Once
<1>4. ~LimitTooSmall /\ Position(queue, next)
  BY <1>3 DEF RequestIsCut, Position, TypeOK
<1>5. RequestAfter(queue, next, Len(Files), new)
  BY <1>2, <1>4, NextRequestFacts
<1>6. queue > Len(Files) => new.parts = <<>>
  BY <1>2, NothingLeft DEF TypeOK
<1> HIDE DEF new
<1>7. queue' \in Nat \ {0} /\ submission' \in Nat /\ consumed' \in Nat
  BY <1>1, <1>5 DEF TypeOK, Submit, RequestAfter, Position
<1>8. CountIsOne'
  BY <1>1, <1>3 DEF CountIsOne
<1>9. streams' > 0
  BY <1>1, <1>2 DEF Once
<1>10. CASE new.parts = <<>>
  BY <1>1, <1>2, <1>7, <1>8, <1>9, <1>10, OnceOver
<1>11. CASE new.parts # <<>>
  <2>1. chunkIndex' = next
    <3>1. ~(queue > Len(Files))
      BY <1>6, <1>11
    <3>2. Advanced = next
      BY <1>3, AdvancedIsNext
    <3> QED
      BY <1>1, <3>1, <3>2
  <2>2. PICK index : index = next
    OBVIOUS
  <2>3. PICK q : q = queue
    OBVIOUS
  <2>4. PICK fresh : fresh = new
    OBVIOUS
  <2>5. /\ Position(q, index) /\ RequestAfter(q, index, Len(Files), fresh)
        /\ chunkIndex' = index
        /\ queue' = fresh.queue /\ next' = fresh.next
        /\ request' = fresh.parts /\ Submit(fresh.parts, "running")
    BY <1>1, <1>4, <1>5, <1>11, <2>1, <2>2, <2>3, <2>4
  <2>6. /\ DOMAIN count' = Chunks /\ DOMAIN buffer' = 0 .. MemoryLimit - 1
        /\ \A c \in Chunks : c[2] >= index[c[1]] => count'[c] = 0
    BY <1>1, <1>3, <2>2 DEF RequestIsCut
  <2>7. UNCHANGED <<setup, streamer, responses>>
    BY <1>1
  <2>8. "running" \in {"ready", "running"}
    OBVIOUS
  <2>9. Once'
    BY <1>2, <1>4, <1>8, <1>9, <2>5, <2>6, <2>7, <2>8, OnceSubmit
  <2> QED
    BY <1>7, <2>9
<1> QED
  BY <1>10, <1>11

-----------------------------------------------------------------------------
(* Credentials *)

(* The first credentials in a sequence, as FirstGiven and InForce have it. *)
GivenFirst(seq) ==
  IF \A i \in DOMAIN seq : seq[i] = NoCreds THEN NoCreds
  ELSE seq[CHOOSE i \in DOMAIN seq :
             seq[i] # NoCreds /\ \A j \in 1 .. i - 1 : seq[j] = NoCreds]

ForceOf(seq, boto) ==
  CASE seq = <<>> -> NoCreds
    [] seq # <<>> /\ boto = "off" -> GivenFirst(seq)
    [] OTHER -> IF seq[1] = NoCreds THEN boto ELSE seq[1]

With(seq, given) ==
  IF \A i \in DOMAIN seq : seq[i] # given THEN Append(seq, given) ELSE seq

(* What is in force follows from what was asked for and what boto3 finds. *)
LEMMA ForceOfAsked ==
  /\ InForce = ForceOf(asked, setup.boto)
  /\ \A given : AskedFor(TRUE, given) = With(asked, given)
  /\ \A given : AskedFor(FALSE, given) = asked
<1>1. FirstGiven = GivenFirst(asked)
  BY DEF FirstGiven, GivenFirst
<1>2. InForce = ForceOf(asked, setup.boto)
  BY <1>1 DEF InForce, ForceOf
<1> QED
  BY <1>2 DEF AskedFor, With

(* And so it does after a step. *)
LEMMA ForceOfAskedToo ==
  ASSUME UNCHANGED setup
  PROVE  /\ InForce' = ForceOf(asked', setup.boto)
         /\ asked' = asked => InForce' = InForce
<1>1. FirstGiven' = GivenFirst(asked')
  BY DEF FirstGiven, GivenFirst
<1>2. InForce' = ForceOf(asked', setup.boto)
  BY <1>1 DEF InForce, ForceOf
<1> QED
  BY <1>2, ForceOfAsked

(* It is the one at the least index. *)
LEMMA LeastGiven ==
  ASSUME NEW S, NEW seq \in Seq(S), NEW k \in 1 .. Len(seq),
         seq[k] # NoCreds, \A j \in 1 .. k - 1 : seq[j] = NoCreds
  PROVE  GivenFirst(seq) = seq[k]
<1> DEFINE Least(i) == /\ seq[i] # NoCreds
                       /\ \A j \in 1 .. i - 1 : seq[j] = NoCreds
<1>1. Len(seq) \in Nat /\ DOMAIN seq = 1 .. Len(seq)
  BY LenProperties
<1>2. ASSUME NEW i \in DOMAIN seq, Least(i)
      PROVE  i = k
  <2>1. i \in Nat /\ k \in Nat /\ i >= 1 /\ k >= 1
    BY <1>1
  <2>2. ~(i < k)
    <3>1. i < k => i \in 1 .. k - 1
      BY <2>1
    <3> QED
      BY <1>2, <3>1
  <2>3. ~(k < i)
    <3>1. k < i => k \in 1 .. i - 1
      BY <2>1
    <3> QED
      BY <1>2, <3>1
  <2> QED
    BY <2>1, <2>2, <2>3
<1>3. k \in DOMAIN seq /\ Least(k)
  BY <1>1
<1>4. (CHOOSE i \in DOMAIN seq : Least(i)) = k
  BY <1>2, <1>3
<1> QED
  BY <1>3, <1>4 DEF GivenFirst

(* A sequence that has any has a first one. *)
LEMMA SomeGiven ==
  ASSUME NEW S, NEW seq \in Seq(S), NEW i \in 1 .. Len(seq), seq[i] # NoCreds
  PROVE  \E k \in 1 .. Len(seq) :
           seq[k] # NoCreds /\ \A j \in 1 .. k - 1 : seq[j] = NoCreds
<1> DEFINE Least(k) == seq[k] # NoCreds /\ \A j \in 1 .. k - 1 : seq[j] = NoCreds
           V == {n \in Nat : (\E h \in 1 .. Len(seq) : h <= n /\ seq[h] # NoCreds)
                               => \E k \in 1 .. Len(seq) : Least(k)}
<1>1. Len(seq) \in Nat
  BY LenProperties
<1>2. 0 \in V
  BY <1>1
<1>3. ASSUME NEW n \in Nat, n \in V
      PROVE  n + 1 \in V
  <2> SUFFICES ASSUME NEW h \in 1 .. Len(seq), h <= n + 1, seq[h] # NoCreds
               PROVE  \E k \in 1 .. Len(seq) : Least(k)
    OBVIOUS
  <2>1. CASE \E g \in 1 .. Len(seq) : g <= n /\ seq[g] # NoCreds
    BY <1>3, <2>1
  <2>2. CASE ~(\E g \in 1 .. Len(seq) : g <= n /\ seq[g] # NoCreds)
    <3>1. \A j \in 1 .. h - 1 : j \in 1 .. Len(seq) /\ j <= n
      BY <1>1
    <3>2. Least(h)
      BY <2>2, <3>1
    <3> QED
      BY <3>2
  <2> QED
    BY <2>1, <2>2
<1>4. Nat \subseteq V
  BY <1>2, <1>3, Induction
<1>5. i \in Nat /\ i <= i
  BY <1>1
<1>6. i \in V
  BY <1>4, <1>5
<1> QED
  BY <1>5, <1>6

(* What is asked for once more comes into force if nothing did. *)
LEMMA AskedOnceMore ==
  ASSUME NEW S, NEW seq \in Seq(S), NEW given \in S
  PROVE  /\ With(seq, given) \in Seq(S)
         /\ With(seq, given) # <<>>
         /\ seq # <<>> => With(seq, given)[1] = seq[1]
         /\ seq = <<>> => With(seq, given)[1] = given
         /\ GivenFirst(With(seq, given)) =
              IF GivenFirst(seq) = NoCreds THEN given ELSE GivenFirst(seq)
<1> DEFINE n == Len(seq)
           app == Append(seq, given)
<1>1. n \in Nat /\ DOMAIN seq = 1 .. n
  BY LenProperties
<1>2. /\ app \in Seq(S) /\ Len(app) = n + 1 /\ DOMAIN app = 1 .. n + 1
      /\ \A i \in 1 .. n : app[i] = seq[i]
      /\ app[n + 1] = given
  BY <1>1, AppendProperties, LenProperties
<1> HIDE DEF app
<1>3. app # <<>>
  BY <1>1, <1>2
<1>4. seq # <<>> <=> n # 0
  BY <1>1, EmptySeq
<1> HIDE DEF n
<1>5. /\ seq # <<>> => app[1] = seq[1]
      /\ seq = <<>> => app[1] = given
  BY <1>1, <1>2, <1>4
<1>6. CASE \A i \in DOMAIN seq : seq[i] = NoCreds
  <2>1. GivenFirst(seq) = NoCreds
    BY <1>6 DEF GivenFirst
  <2>2. GivenFirst(app) = given
    <3>1. CASE given = NoCreds
      <4>1. \A i \in DOMAIN app : app[i] = NoCreds
        <5>1. \A i \in 1 .. n + 1 : i \in 1 .. n \/ i = n + 1
          BY <1>1
        <5> QED
          BY <1>1, <1>2, <1>6, <3>1, <5>1
      <4> QED
        BY <3>1, <4>1 DEF GivenFirst
    <3>2. CASE given # NoCreds
      <4>1. n + 1 \in 1 .. Len(app) /\ (n + 1) - 1 = n
        BY <1>1, <1>2
      <4>2. PICK k : k = n + 1
        OBVIOUS
      <4>3. /\ k \in 1 .. Len(app) /\ app[k] # NoCreds
            /\ \A j \in 1 .. k - 1 : app[j] = NoCreds
        BY <1>1, <1>2, <1>6, <3>2, <4>1, <4>2
      <4>4. GivenFirst(app) = app[k]
        BY <1>2, <4>3, LeastGiven
      <4> QED
        BY <1>2, <4>2, <4>4
    <3> QED
      BY <3>1, <3>2
  <2>3. CASE \A i \in DOMAIN seq : seq[i] # given
    BY <1>2, <1>3, <1>5, <2>1, <2>2, <2>3 DEF With, app
  <2>4. CASE \E i \in DOMAIN seq : seq[i] = given
    <3>1. given = NoCreds /\ n # 0
      BY <1>1, <1>6, <2>4
    <3>2. With(seq, given) = seq
      BY <2>4 DEF With
    <3> QED
      BY <1>4, <2>1, <3>1, <3>2
  <2> QED
    BY <2>3, <2>4
<1>7. CASE \E i \in DOMAIN seq : seq[i] # NoCreds
  <2>1. PICK i \in 1 .. Len(seq) : seq[i] # NoCreds
    BY <1>1, <1>7 DEF n
  <2>2. PICK k \in 1 .. Len(seq) :
          seq[k] # NoCreds /\ \A j \in 1 .. k - 1 : seq[j] = NoCreds
    BY <2>1, SomeGiven
  <2>3. GivenFirst(seq) = seq[k]
    BY <2>2, LeastGiven
  <2>4. GivenFirst(app) = seq[k]
    <3>1. k \in 1 .. n /\ \A j \in 1 .. k - 1 : j \in 1 .. n
      BY <1>1, <2>2 DEF n
    <3>2. k \in 1 .. Len(app)
      BY <1>1, <1>2, <3>1
    <3>3. app[k] = seq[k] /\ \A j \in 1 .. k - 1 : app[j] = seq[j]
      BY <1>2, <3>1
    <3>4. GivenFirst(app) = app[k]
      BY <1>2, <2>2, <3>2, <3>3, LeastGiven
    <3> QED
      BY <3>3, <3>4
  <2>5. CASE \A h \in DOMAIN seq : seq[h] # given
    BY <1>2, <1>3, <1>5, <2>2, <2>3, <2>4, <2>5 DEF With, app
  <2>6. CASE \E h \in DOMAIN seq : seq[h] = given
    <3>1. With(seq, given) = seq /\ seq # <<>>
      BY <1>1, <1>4, <2>6 DEF With
    <3> QED
      BY <2>2, <2>3, <3>1
  <2> QED
    BY <2>5, <2>6
<1> QED
  BY <1>6, <1>7

(* The session's streamer is asked to use S3, or another storage. *)
LEMMA HandleStep ==
  ASSUME TypeOK, Credentialed, streamer, NEW s3 \in BOOLEAN,
         NEW given \in Asked, HandleObjectStore(s3, "context", given),
         asked' = AskedFor(s3, given), UNCHANGED <<setup, streamer>>
  PROVE  Credentialed' /\ asked' \in Seq(Asked)
<1> DEFINE boto == setup.boto
           force == ForceOf(asked, boto)
<1>1. asked \in Seq(Asked)
  BY DEF TypeOK
<1>2. CASE ~s3
  <2>1. asked' = asked /\ UNCHANGED <<session, creds, credentialed, applied>>
    BY <1>2, ForceOfAsked DEF HandleObjectStore, credVars
  <2>2. InForce' = InForce
    BY <2>1, ForceOfAskedToo
  <2> QED
    BY <1>1, <2>1, <2>2 DEF Credentialed
<1>3. CASE s3
  <2>1. asked' = With(asked, given)
    BY <1>3, ForceOfAsked
  <2>2. PICK more : more = asked'
    OBVIOUS
  <2>3. /\ more \in Seq(Asked) /\ more # <<>>
        /\ asked # <<>> => more[1] = asked[1]
        /\ asked = <<>> => more[1] = given
        /\ GivenFirst(more) = IF GivenFirst(asked) = NoCreds THEN given
                              ELSE GivenFirst(asked)
    <3> DEFINE one == With(asked, given)
    <3>1. /\ one \in Seq(Asked) /\ one # <<>>
          /\ asked # <<>> => one[1] = asked[1]
          /\ asked = <<>> => one[1] = given
          /\ GivenFirst(one) = IF GivenFirst(asked) = NoCreds THEN given
                               ELSE GivenFirst(asked)
      BY <1>1, AskedOnceMore
    <3>2. one = more
      BY <2>1, <2>2
    <3> HIDE DEF one
    <3> QED
      BY <3>1, <3>2
  <2>4. InForce' = ForceOf(more, boto)
    BY <2>2, ForceOfAskedToo
  <2>5. /\ credentialed \in {"none", "context"}
        /\ credentialed = "context" <=> force # NoCreds
        /\ applied = force
        /\ session <=> (boto # "off" /\ asked # <<>>)
        /\ session => creds = force
    BY ForceOfAsked DEF Credentialed
  <2>6. CASE session
    <3>1. boto # "off" /\ asked # <<>> /\ creds = force
      BY <2>5, <2>6
    <3>2. ForceOf(more, boto) = force
      BY <2>3, <3>1 DEF ForceOf
    <3>3. /\ session' = session /\ creds' = creds
          /\ IF creds # NoCreds /\ "context" # credentialed
             THEN credentialed' = "context" /\ applied' = creds
             ELSE credentialed' = credentialed /\ applied' = applied
      BY <1>3, <2>6 DEF HandleObjectStore
    <3>4. credentialed' = credentialed /\ applied' = applied
      BY <2>5, <3>1, <3>3
    <3> QED
      BY <2>2, <2>3, <2>4, <2>5, <2>6, <3>1, <3>2, <3>3, <3>4 DEF Credentialed
  <2>7. CASE ~session /\ boto = "off"
    <3>1. /\ ~session' /\ creds' = given
          /\ IF given # NoCreds /\ "context" # credentialed
             THEN credentialed' = "context" /\ applied' = given
             ELSE credentialed' = credentialed /\ applied' = applied
      BY <1>3, <2>7 DEF HandleObjectStore, Resolve
    <3>2. force = GivenFirst(asked)
      <4>1. asked = <<>> => GivenFirst(asked) = NoCreds
        BY EmptySeq DEF GivenFirst
      <4> QED
        BY <2>7, <4>1 DEF ForceOf
    <3>3. ForceOf(more, boto) = IF force = NoCreds THEN given ELSE force
      BY <2>3, <2>7, <3>2 DEF ForceOf
    <3> HIDE DEF force
    <3>4. /\ credentialed' \in {"none", "context"}
          /\ credentialed' = "context" <=> ForceOf(more, boto) # NoCreds
          /\ applied' = ForceOf(more, boto)
      BY <2>5, <3>1, <3>3
    <3> QED
      BY <2>2, <2>3, <2>4, <2>7, <3>1, <3>4 DEF Credentialed
  <2>8. CASE ~session /\ boto # "off"
    <3>1. asked = <<>> /\ force = NoCreds
      BY <2>5, <2>8 DEF ForceOf
    <3> DEFINE found == IF given = NoCreds THEN boto ELSE given
    <3>2. /\ session' /\ creds' = found
          /\ IF found # NoCreds /\ "context" # credentialed
             THEN credentialed' = "context" /\ applied' = found
             ELSE credentialed' = credentialed /\ applied' = applied
      BY <1>3, <2>8 DEF HandleObjectStore, Resolve
    <3>3. ForceOf(more, boto) = found
      BY <2>3, <2>8, <3>1 DEF ForceOf
    <3> HIDE DEF force, found
    <3>4. /\ credentialed' \in {"none", "context"}
          /\ credentialed' = "context" <=> found # NoCreds
          /\ applied' = found
      BY <2>5, <3>1, <3>2
    <3> QED
      BY <2>2, <2>3, <2>4, <2>8, <3>2, <3>3, <3>4 DEF Credentialed
  <2> QED
    BY <2>6, <2>7, <2>8
<1> QED
  BY <1>2, <1>3

(* What is in force is what the C++ streamer of the session has. *)
LEMMA CredentialsStep ==
  ASSUME TypeOK, Credentialed, [Next]_vars
  PROVE  Credentialed' /\ asked' \in Seq(Asked)
<1>1. asked \in Seq(Asked)
  BY DEF TypeOK
<1>2. ASSUME UNCHANGED <<setup, credVars, streamer, asked>>
      PROVE  Credentialed' /\ asked' \in Seq(Asked)
  <2>1. InForce' = InForce
    BY <1>2, ForceOfAskedToo
  <2> QED
    BY <1>1, <1>2, <2>1 DEF Credentialed, credVars
<1>3. CASE Enter
  <2>1. /\ credentialed' = "none" /\ session' = FALSE /\ applied' = NoCreds
        /\ asked' = <<>> /\ UNCHANGED setup
    BY <1>3 DEF Enter
  <2>2. InForce' = NoCreds /\ asked' \in Seq(Asked)
    BY <2>1, ForceOfAskedToo, EmptySeq DEF ForceOf
  <2> QED
    BY <2>1, <2>2 DEF Credentialed
<1>4. CASE Exit
  BY <1>1, <1>4 DEF Exit, Credentialed
<1>5. NoCreds \in Asked /\ \A given \in setup.given : given \in Asked
  <2>1. setup.given \in {s.given : s \in Setups}
    BY DEF TypeOK
  <2>2. \A given \in setup.given : given \in UNION {s.given : s \in Setups}
    BY <2>1
  <2> QED
    BY <2>2 DEF Asked
<1>6. CASE StartList
  <2>1. UNCHANGED <<setup, streamer>>
    BY <1>6 DEF StartList
  <2>2. CASE streamer
    <3>1. /\ HandleObjectStore(scheme = "s3", "context", NoCreds)
          /\ asked' = AskedFor(scheme = "s3", NoCreds)
      BY <1>6, <2>2 DEF StartList
    <3>2. PICK s3 \in BOOLEAN : s3 = (scheme = "s3")
      OBVIOUS
    <3> QED
      BY <1>5, <2>1, <2>2, <3>1, <3>2, HandleStep
  <2>3. CASE ~streamer
    <3>1. asked' = asked /\ ~streamer'
      BY <1>6, <2>1, <2>3 DEF StartList, AskedFor
    <3> QED
      BY <1>1, <3>1 DEF Credentialed
  <2> QED
    BY <2>2, <2>3
<1>7. ASSUME streamer, UNCHANGED <<setup, streamer>>,
             NEW given \in setup.given,
             HandleObjectStore(IsS3, "context", given),
             asked' = AskedFor(IsS3, given)
      PROVE  Credentialed' /\ asked' \in Seq(Asked)
  <2>1. PICK s3 \in BOOLEAN : s3 = IsS3
    BY DEF IsS3
  <2> QED
    BY <1>5, <1>7, <2>1, HandleStep
<1>8. CASE StreamFiles
  BY <1>7, <1>8 DEF StreamFiles
<1>9. CASE StreamFilesRaises
  BY <1>2, <1>7, <1>9 DEF StreamFilesRaises
<1>10. CASE NextRequestOf
  BY <1>2, <1>10 DEF NextRequestOf, sessionVars
<1>11. CASE ListStep \/ NextChunkRaises \/ Abandon \/ DrainOne \/ UNCHANGED vars
  BY <1>2, <1>11 DEF ListStep, NextChunkRaises, Abandon, DrainOne, vars,
                     sessionVars
<1>12. ASSUME NEW r, NextChunk(r) \/ NextChunkNone(r) \/ Answer(r)
       PROVE  Credentialed' /\ asked' \in Seq(Asked)
  BY <1>2, <1>12 DEF NextChunk, NextChunkNone, Answer, sessionVars
<1> QED
  BY <1>3, <1>4, <1>6, <1>8, <1>9, <1>10, <1>11, <1>12 DEF Next

-----------------------------------------------------------------------------
(* The invariant *)

(* It holds in a session that was not entered yet. *)
LEMMA InitInv ==
  ASSUME Init
  PROVE  IInv
<1>1. setup \in Setups
  BY DEF Init
<1>2. TypeOK
  <2>1. /\ streamer \in BOOLEAN /\ cut \in BOOLEAN
        /\ asked \in Seq(Asked)
    BY EmptySeq DEF Init
  <2>2. /\ streams = 0 /\ queue = 1 /\ submission = 0 /\ consumed = 0
        /\ gen = "none"
    BY DEF Init
  <2> QED
    BY <1>1, <2>1, <2>2 DEF TypeOK
<1>3. ListInv
  <2>1. setup.stores \subseteq SUBSET KeySet
    BY <1>1, FileStreamerAssumption
  <2>2. /\ objects \in setup.stores /\ touched = {} /\ stage = "idle"
        /\ after = {} /\ results = [k \in KeySet |-> 0]
    BY DEF Init, ListInit
  <2> QED
    BY <2>1, <2>2 DEF ListInv, ListTypeOK, Pages, ListingIsExact
<1>4. /\ gen = "none" /\ inflight = {} /\ responses = {} /\ views = {}
      /\ DOMAIN count = {} /\ ~streamer
  BY EmptySeq DEF Init
<1>5. Streaming
  BY <1>4 DEF Streaming, CountIsOne, Quiet, ChunksHold, Active, Reading
<1>6. Once
  BY <1>4 DEF Once, CountIsOne, Answered, Going, Active
<1>7. Credentialed
  BY <1>4 DEF Credentialed
<1> QED
  BY <1>2, <1>3, <1>5, <1>6, <1>7 DEF IInv

(* Every step keeps it. *)
LEMMA NextInv ==
  ASSUME IInv, [Next]_vars
  PROVE  IInv'
<1>1. TypeOK /\ ListInv /\ Once /\ (~cut => Streaming) /\ Credentialed
  BY DEF IInv
<1>2. Credentialed' /\ asked' \in Seq(Asked)
  BY <1>1, CredentialsStep
<1>3. ListInv'
  <2>1. ListNext \/ ListFiles \/ UNCHANGED listingVars
    BY DEF Next, Enter, Exit, StartList, ListStep, StreamFilesRaises,
           StreamFiles, NextChunk, NextChunkNone, NextChunkRaises,
           NextRequestOf, Abandon, DrainOne, Answer, vars
  <2> QED
    BY <1>1, <2>1, ListingStep
<1>4. CASE Enter \/ Exit
  <2>1. cut' = cut /\ UNCHANGED <<setup, queue, submission, consumed>>
    BY <1>4 DEF Enter, Exit, cVars, iterVars, genVars
  <2>2. ~cut' => Streaming'
    BY <1>1, <1>4, <2>1, SessionSteps
  <2>3. TypeOK'
    <3>1. streamer' \in BOOLEAN
      BY <1>4 DEF Enter, Exit
    <3>2. /\ streams' = 0 \/ streams' = streams
          /\ gen' = "none" \/ gen' = gen
      BY <1>4 DEF Enter, Exit, iterVars, genVars
    <3> QED
      BY <1>1, <1>2, <2>1, <3>1, <3>2 DEF TypeOK
  <2>4. Once'
    <3>1. CASE Enter
      BY <1>1, <3>1, OnceEnter
    <3>2. CASE Exit
      <4>1. /\ UNCHANGED <<setup, iterVars, submission, count, gen, buffer>>
            /\ inflight' = {} /\ responses' = {}
        BY <3>2 DEF Exit, genVars
      <4>2. Going' = Going
        BY <4>1 DEF Going, Active
      <4> QED
        BY <1>1, <4>1, <4>2, OnceShrinks
    <3> QED
      BY <1>4, <3>1, <3>2
  <2> QED
    BY <1>2, <1>3, <2>2, <2>3, <2>4 DEF IInv
<1>5. CASE StartList \/ ListStep \/ StreamFilesRaises \/ NextChunkRaises
           \/ Abandon \/ UNCHANGED vars
  <2>1. /\ UNCHANGED <<setup, iterVars, submission, count, inflight>>
        /\ UNCHANGED <<responses, buffer, streamer, cut, consumed>>
        /\ gen' = gen \/ gen' \in {"raised", "closed"}
                      \/ (gen = "suspended" /\ gen' = "draining")
        /\ gen = "raised" => gen' = "raised"
    BY <1>5 DEF StartList, ListStep, StreamFilesRaises, NextChunkRaises,
                Abandon, vars, sessionVars, cVars, genVars
  <2>2. ~cut' => Streaming'
    BY <1>1, <1>5, <2>1, QuietSteps
  <2>3. TypeOK'
    BY <1>1, <1>2, <2>1 DEF TypeOK, iterVars
  <2>4. Going' => Going
    BY <2>1 DEF Going, Active
  <2>5. Once'
    BY <1>1, <2>1, <2>4, OnceShrinks
  <2> QED
    BY <1>2, <1>3, <2>2, <2>3, <2>5 DEF IInv
<1>6. CASE StreamFiles
  <2>1. /\ Once' /\ queue' \in Nat \ {0} /\ streams' \in Nat
        /\ submission' \in Nat /\ consumed' \in Nat
    BY <1>1, <1>6, OnceStreamFiles
  <2>2. gen' \in {"over", "ready", "raised"}
    BY <1>6 DEF StreamFiles, Submit
  <2>3. /\ UNCHANGED <<setup, streamer>> /\ cut' = (cut /\ streams # 0)
        /\ gen \in {"none", "over", "closed"}
    BY <1>6 DEF StreamFiles
  <2>4. TypeOK'
    BY <1>1, <1>2, <2>1, <2>2, <2>3 DEF TypeOK
  <2>5. ~cut' => Streaming'
    <3> SUFFICES ASSUME ~cut'
                 PROVE  Streaming'
      OBVIOUS
    <3>1. CASE streams = 0
      <4>1. inflight = {} /\ responses = {}
        BY <1>1, <3>1 DEF Once
      <4> QED
        BY <1>1, <1>6, <4>1, StreamFilesStep
    <3>2. CASE ~cut
      <4>1. inflight = {} /\ responses = {}
        BY <1>1, <2>3, <3>2 DEF Streaming, Quiet, Active
      <4> QED
        BY <1>1, <1>6, <4>1, StreamFilesStep
    <3> QED
      BY <2>3, <3>1, <3>2
  <2> QED
    BY <1>2, <1>3, <2>1, <2>4, <2>5 DEF IInv
<1>7. CASE NextRequestOf
  <2>1. /\ Once' /\ queue' \in Nat \ {0}
        /\ submission' \in Nat /\ consumed' \in Nat
    BY <1>1, <1>7, OnceNextRequest
  <2>2. gen' \in {"over", "running", "raised"}
    BY <1>7 DEF NextRequestOf, Submit
  <2>3. UNCHANGED <<setup, streamer, streams, cut>>
    BY <1>7 DEF NextRequestOf, sessionVars
  <2>4. TypeOK'
    BY <1>1, <1>2, <2>1, <2>2, <2>3 DEF TypeOK
  <2>5. ~cut' => Streaming'
    BY <1>1, <1>7, <2>3, NextRequestStep
  <2> QED
    BY <1>2, <1>3, <2>1, <2>4, <2>5 DEF IInv
<1>8. ASSUME NEW r \in responses, NextChunk(r)
      PROVE  IInv'
  <2>1. /\ gen' \in {"suspended", "draining"} /\ consumed' = consumed + 1
        /\ UNCHANGED <<setup, streamer, streams, queue, submission, cut>>
    BY <1>8 DEF NextChunk, sessionVars, iterVars
  <2>2. ~cut' => Streaming'
    BY <1>1, <1>8, <2>1, NextChunkStep
  <2>3. TypeOK'
    BY <1>1, <1>2, <2>1 DEF TypeOK
  <2>4. Once'
    BY <1>1, <1>8, OnceNextChunk
  <2> QED
    BY <1>2, <1>3, <2>2, <2>3, <2>4 DEF IInv
<1>9. ASSUME NEW r \in responses, NextChunkNone(r)
      PROVE  IInv'
  <2>1. /\ gen \in {"ready", "suspended", "running"} /\ gen' = "leaving"
        /\ cut' = TRUE /\ responses' = responses \ {r}
        /\ UNCHANGED <<setup, iterVars, submission, count, inflight, buffer>>
        /\ UNCHANGED <<streamer, consumed>>
    BY <1>9 DEF NextChunkNone, sessionVars
  <2>2. TypeOK'
    BY <1>1, <1>2, <2>1 DEF TypeOK, iterVars
  <2>3. Once'
    <3>1. Going
      BY <2>1 DEF Going, Active
    <3> QED
      BY <1>1, <2>1, <3>1, OnceShrinks
  <2> QED
    BY <1>2, <1>3, <2>1, <2>2, <2>3 DEF IInv
<1>10. CASE DrainOne
  <2>1. /\ gen \in {"draining", "leaving"}
        /\ gen' \in {"closed", "draining", "leaving", "left"}
        /\ consumed' = consumed + 1 \/ consumed' = consumed
        /\ responses' \subseteq responses
        /\ cut' \in BOOLEAN /\ (cut => cut')
        /\ UNCHANGED <<setup, iterVars, submission, count, inflight, buffer>>
        /\ UNCHANGED streamer
    BY <1>1, <1>10 DEF DrainOne, DrainResponse, Drained, sessionVars, TypeOK
  <2>2. ~cut' => Streaming'
    BY <1>1, <1>10, <2>1, DrainStep
  <2>3. TypeOK'
    BY <1>1, <1>2, <2>1 DEF TypeOK, iterVars
  <2>4. Once'
    <3>1. Going
      BY <2>1 DEF Going, Active
    <3> QED
      BY <1>1, <2>1, <3>1, OnceShrinks
  <2> QED
    BY <1>2, <1>3, <2>2, <2>3, <2>4 DEF IInv
<1>11. ASSUME NEW r \in inflight, Answer(r)
       PROVE  IInv'
  <2>1. /\ UNCHANGED <<setup, iterVars, submission, cut, streamer>>
        /\ UNCHANGED <<gen, consumed>>
    BY <1>11 DEF Answer, sessionVars, genVars
  <2>2. ~cut' => Streaming'
    BY <1>1, <1>11, <2>1, AnswerStep
  <2>3. TypeOK'
    BY <1>1, <1>2, <2>1 DEF TypeOK, iterVars
  <2>4. Once'
    BY <1>1, <1>11, OnceAnswer
  <2> QED
    BY <1>2, <1>3, <2>2, <2>3, <2>4 DEF IInv
<1> QED
  BY <1>4, <1>5, <1>6, <1>7, <1>8, <1>9, <1>10, <1>11 DEF Next

(* The invariant holds in every state of every session. *)
THEOREM Invariance == Spec => []IInv
<1>1. Init => IInv
  BY InitInv
<1>2. IInv /\ [Next]_vars => IInv'
  BY NextInv
<1> QED
  BY <1>1, <1>2, PTL DEF Spec

-----------------------------------------------------------------------------
(* Theorems *)

(* TypeOK and ListTypeOK: the state of a session and of a listing. *)
THEOREM StreamerTypeCorrect == Spec => [](TypeOK /\ ListTypeOK)
<1>1. IInv => TypeOK /\ ListTypeOK
  BY DEF IInv, ListInv
<1> QED
  BY <1>1, Invariance, PTL

(* ListingIsExact: list_files over any number of pages returns every file  *)
(* that was there all the time and matches, once, and none that does not.  *)
THEOREM ListingCorrect == Spec => []ListingIsExact
<1>1. IInv => ListingIsExact
  BY DEF IInv, ListInv
<1> QED
  BY <1>1, Invariance, PTL

(* WritesAreInLiveBuffer: what a worker may still write to is a place of   *)
(* the live buffer that is its own, for any request that next_request cuts *)
(* and any moment at which the generator is abandoned.                     *)
THEOREM WritesCorrect == Spec => []WritesAreInLiveBuffer
<1>1. IInv => WritesAreInLiveBuffer
  <2> SUFFICES ASSUME IInv, streamer, gen # "raised", ~cut, NEW r \in inflight
               PROVE  /\ r.sub = submission /\ r.buffer = streams
                      /\ r.dst + r.size <= MemoryLimit
                      /\ \A o \in inflight \ {r} :
                           r.dst + r.size <= o.dst \/ o.dst + o.size <= r.dst
                      /\ \A v \in views :
                           \/ r.dst + r.size <= v.start
                           \/ v.start + v.size <= r.dst
    BY DEF WritesAreInLiveBuffer
  <2>1. TypeOK /\ Streaming
    BY DEF IInv
  <2>2. Active
    BY <2>1 DEF Streaming, Quiet
  <2>3. RequestIsCut /\ NothingIsLost /\ ViewsAreYielded
    BY <2>1, <2>2 DEF Streaming
  <2>4. inflight \subseteq Ranges /\ count[ChunkOf(r)] = 0
    BY <2>3 DEF NothingIsLost
  <2>5. /\ r.sub = submission /\ r.buffer = streams
        /\ r.dst + r.size <= MemoryLimit
    BY <2>1, <2>3, <2>4, RequestFacts
  <2>6. \A o \in Ranges \ {r} :
          r.dst + r.size <= o.dst \/ o.dst + o.size <= r.dst
    BY <2>1, <2>3, <2>4, RequestFacts
  <2>7. ASSUME NEW v \in views
        PROVE  r.dst + r.size <= v.start \/ v.start + v.size <= r.dst
    <3>1. PICK s \in Yielded : v = View(s)
      BY <2>3 DEF ViewsAreYielded
    <3>2. s \in Ranges \ {r}
      BY <2>4, <3>1 DEF Yielded
    <3>3. v.start = s.dst /\ v.size = s.size
      BY <3>1 DEF View
    <3> QED
      BY <2>6, <3>2, <3>3
  <2> QED
    BY <2>4, <2>5, <2>6, <2>7
<1> QED
  BY <1>1, Invariance, PTL

(* ChunksAreTheRanges: a chunk has the bytes of the range it was asked for *)
(* under its file and index until the next request, for any files, ranges  *)
(* and memory limit, as long as no response was None.                      *)
THEOREM ChunksCorrect == Spec => []ChunksAreTheRanges
<1>1. IInv => ChunksAreTheRanges
  BY DEF IInv, Streaming, ChunksHold, ChunksAreTheRanges
<1> QED
  BY <1>1, Invariance, PTL

(* StreamIsComplete: however next_request packs the ranges and whatever    *)
(* the C++ streamer answers, a stream yields no range twice, and one that  *)
(* ends by itself has yielded every range unless a response was None.      *)
THEOREM StreamCorrect == Spec => []StreamIsComplete
<1>1. IInv => StreamIsComplete
  BY DEF IInv, Once, Streaming, CountIsOne, StreamIsComplete
<1> QED
  BY <1>1, Invariance, PTL

(* CredentialsReachReads: the reads of S3 use what is in force in their    *)
(* session, for any order of listings and streams and any credentials      *)
(* given to each of them.                                                  *)
THEOREM CredentialsCorrect == Spec => []CredentialsReachReads
<1>1. IInv => CredentialsReachReads
  BY DEF IInv, Once, Credentialed, CredentialsReachReads
<1> QED
  BY <1>1, Invariance, PTL

=============================================================================
