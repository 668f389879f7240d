-------------------------- MODULE PluginClientProofs --------------------------
(***************************************************************************)
(* Theorems about PluginClient: for any plugin, clients, task and chunk    *)
(* sizes, windows and pool sizes, and any cache libraries, a read is       *)
(* answered once, as a whole and after its last write, and the cache       *)
(* library of a read that is under way is there.                           *)
(*                                                                         *)
(* The invariant has three layers: Requests, where the parts of a read     *)
(* are; Answers, which ties the counter of a read to the parts that were   *)
(* read and its answers to both; and Libraries, who has which handle.      *)
(***************************************************************************)
EXTENDS PluginClient, FiniteSetTheorems, TLAPS

PCs == {"none", "made", "idle", "submit", "wait", "closing", "gone"}
PartStates == {"queued", "running", "ending", "done", "dropped"} \cup Codes
(* The callback of a part has run. *)
Landed == {"ending", "done"} \cup Codes
(* The pool has the object of a part's task. *)
HasTask == {"queued"} \cup Busy

Envs == {s.env : s \in Setups} \cup {NextEnv}
Paths == UNION {{e.explicit, e.discovered} : e \in Envs}
HandleType == [path : Paths, open : BOOLEAN, owners : SUBSET Clients]

TypeOK ==
  /\ kind \in {"s3", "gcs", "azure"}
  /\ pc \in [Clients -> PCs]
  /\ chunk \in [Clients -> Nat \ {0}]
  /\ begun \in [Clients -> Nat]
  /\ nextPart \in [Clients -> Nat]
  /\ queue \in [Clients -> Seq(Reads \X Nat)]
  /\ counter \in [Reads -> Int]
  /\ isSuccess \in [Reads -> BOOLEAN]
  /\ part \in [Reads -> Seq(PartStates)]
  /\ arrived \in [Reads -> SUBSET Int]
  /\ answers \in [Reads -> Seq(Codes)]
  /\ env \in Envs
  /\ handles \in Seq(HandleType)
  /\ shared \in 0 .. Len(handles)
  /\ loader \in [Clients -> 0 .. Len(handles)]
  /\ clientRef \in [Clients -> BOOLEAN]
  /\ down \subseteq DOMAIN handles
  /\ unwinding \subseteq Clients
  /\ dying \subseteq DOMAIN handles

-----------------------------------------------------------------------------
(* Requests *)

(* A client submits the parts of its current read one after the other, and *)
(* has none of the reads that come after it.                               *)
Submitted ==
  \A c \in Clients :
    /\ pc[c] \in {"none", "made"} => begun[c] = 0
    /\ \A r \in ReadsOf[c] : r[2] > begun[c] => part[r] = <<>>
    /\ pc[c] = "submit" =>
         /\ Current(c) \in Reads
         /\ nextPart[c] = Len(part[Current(c)]) + 1

(* What waits for a thread is a part that was not started, once. *)
QueueIsRight ==
  \A c \in Clients :
    /\ \A k \in DOMAIN queue[c] :
         /\ queue[c][k][1] \in ReadsOf[c]
         /\ queue[c][k][2] \in Parts(queue[c][k][1])
         /\ part[queue[c][k][1]][queue[c][k][2]] = "queued"
    /\ \A k, l \in DOMAIN queue[c] : queue[c][k] = queue[c][l] => k = l

Requests == Submitted /\ QueueIsRight

-----------------------------------------------------------------------------
(* Answers *)

(* A read whose counter was set, and whose parts count down from it. *)
Tracked(r) ==
  part[r] # <<>> \/ (pc[r[1]] = "submit" /\ r = Current(r[1]))

(* The parts R have been read: the counter is what is left, what the       *)
(* object has of them has arrived, and if a part failed it is not one of   *)
(* them.                                                                   *)
HaveBeenRead(r, R) ==
  /\ counter[r] = NumParts(r) - Cardinality(R)
  /\ arrived[r] = UNION {HeldPart(r, j) : j \in R}
  /\ \A j \in R : j \in Parts(r) /\ part[r][j] \in Landed /\ Readable(r, j)
  /\ ~isSuccess[r] => \E j \in Parts(r) \ R : part[r][j] \in Landed

CounterIsRight ==
  \A r \in Reads :
    /\ Tracked(r) =>
         /\ Len(part[r]) <= NumParts(r)
         /\ \E R \in SUBSET (1 .. NumParts(r)) : HaveBeenRead(r, R)
    /\ part[r] = <<>> =>
         arrived[r] = {} /\ answers[r] = <<>> /\ isSuccess[r]

(* What an answer, made or about to be made, says of its read. *)
Explained(r, code) ==
  IF code = "Success" THEN counter[r] = 0 ELSE ~isSuccess[r]

AnswersAreRight ==
  \A r \in Reads :
    /\ Len(answers[r]) <= 1
    /\ \A n \in DOMAIN answers[r] : Explained(r, answers[r][n])
    /\ answers[r] # <<>> =>
         \E i \in Parts(r) : part[r][i] \in {"ending", "done"}
    /\ \A i \in Parts(r) : part[r][i] \in Codes =>
         /\ Explained(r, part[r][i])
         /\ answers[r] = <<>>
         /\ \A j \in Parts(r) : part[r][j] \in Codes => i = j

Answers == CounterIsRight /\ AnswersAreRight

-----------------------------------------------------------------------------
(* Libraries *)

Owners(h) == handles[h].owners
LiveOpen(h) == handles[h].open /\ Owners(h) # {}

(* While a client, or a task it left in the pool, refers to its loader,    *)
(* the loader has its handle.                                              *)
LoaderIsKept(c) ==
  /\ pc[c] = "none" => loader[c] = 0 /\ ~clientRef[c]
  /\ kind = "azure" /\ pc[c] \in {"made", "idle", "submit", "wait"}
       => clientRef[c]
  /\ loader[c] # 0 => kind = "azure"
  /\ loader[c] # 0 /\ (clientRef[c] \/ c \in unwinding \/ TasksOf(c) # {})
       => c \in Owners(loader[c])
  /\ c \in unwinding =>
       pc[c] = "gone" /\ begun[c] = 0 /\ ~clientRef[c] /\ loader[c] # 0

LoadersAreKept == \A c \in Clients : LoaderIsKept(c)

(* A handle was made for the path of its time, and is open if its library  *)
(* could be loaded.                                                        *)
HandlesAreOfEnv ==
  \A h \in DOMAIN handles :
    /\ handles[h].open <=> Cache!Loaded(handles[h].path)
    /\ env # NextEnv =>
         /\ handles[h].path = Cache!LibPath
         /\ handles[h].open \/ env.mode = "Auto"

(* A constructor threw although there was a handle: so the environment was *)
(* changed, and no handle can be made any more.                            *)
Frozen ==
  /\ env = NextEnv /\ env.mode = "Required"
  /\ Cache!LibPath # "" /\ ~Cache!Loaded(Cache!LibPath)

(* Two handles in use are not of the same library: only that of the path   *)
(* of now may be reused, and it is the shared one.                         *)
HandlesAreApart ==
  /\ \A g, h \in DOMAIN handles :
       LiveOpen(g) /\ handles[g].path = handles[h].path =>
         /\ LiveOpen(h) => g = h
         /\ h \notin dying
  /\ \A g \in DOMAIN handles :
       LiveOpen(g) =>
         /\ handles[g].path = Cache!LibPath => g = shared
         /\ g \notin down
  /\ unwinding # {} \/ dying # {} => Frozen

Libraries == LoadersAreKept /\ HandlesAreOfEnv /\ HandlesAreApart

IInv == TypeOK /\ Requests /\ Answers /\ Libraries

-----------------------------------------------------------------------------
(* Reads and their parts *)

(* The greater and the lesser of two numbers. *)
LEMMA OfTwo ==
  ASSUME NEW a \in Int, NEW b \in Int
  PROVE  /\ Max({a, b}) \in {a, b} /\ Max({a, b}) >= a /\ Max({a, b}) >= b
         /\ Min({a, b}) \in {a, b} /\ Min({a, b}) <= a /\ Min({a, b}) <= b
<1>1. \E x \in {a, b} : \A y \in {a, b} : x >= y
  OBVIOUS
<1>2. \E x \in {a, b} : \A y \in {a, b} : x <= y
  OBVIOUS
<1> QED  BY <1>1, <1>2 DEF Max, Min

(* A larger factor makes a larger product. *)
LEMMA ProductGrows ==
  ASSUME NEW a \in Nat, NEW b \in Nat, NEW d \in Nat, a <= b
  PROVE  a * d \in Nat /\ b * d \in Nat /\ a * d <= b * d
  OBVIOUS

(* A number lies between its quotient's multiple and the next one. *)
LEMMA Quotient ==
  ASSUME NEW a \in Nat, NEW d \in Nat \ {0}
  PROVE  /\ a \div d \in Nat
         /\ (a \div d) * d <= a /\ a < (a \div d) * d + d
  OBVIOUS

(* A read of the task of a client has at least one byte, and at most a     *)
(* chunk of the worker.                                                    *)
LEMMA ReadShape ==
  ASSUME NEW r \in Reads
  PROVE  /\ r[1] \in Clients /\ r[2] \in Nat \ {0} /\ r = <<r[1], r[2]>>
         /\ r[2] <= NumReads(r[1])
         /\ \A c \in Clients : r \in ReadsOf[c] <=> r[1] = c
         /\ Offset(r) \in Nat
         /\ Length(r) \in Nat \ {0} /\ Length(r) <= WorkerChunk
<1> USE PluginClientAssumption DEF PluginClientAssumption
<1>1. PICK c \in Clients : r \in {c} \X (1 .. NumReads(c))
  BY DEF Reads
<1>2. PICK q : q = NumReads(c)
  OBVIOUS
<1>3. PICK t \in Nat \ {0} : t = TaskBytes[c]
  OBVIOUS
<1>4. q \in Nat /\ q * WorkerChunk <= t + WorkerChunk - 1
  <2>1. t + WorkerChunk - 1 \in Nat
    OBVIOUS
  <2> QED  BY <1>2, <1>3, <2>1, Quotient DEF NumReads
<1>5. r[1] = c /\ r[2] \in 1 .. q /\ r = <<c, r[2]>>
  BY <1>1, <1>2
<1>6. (r[2] - 1) * WorkerChunk \in Nat /\ (r[2] - 1) * WorkerChunk < t
  <2>1. r[2] - 1 \in Nat /\ q - 1 \in Nat /\ r[2] - 1 <= q - 1
    BY <1>4, <1>5
  <2>2. /\ (r[2] - 1) * WorkerChunk \in Nat
        /\ (r[2] - 1) * WorkerChunk <= (q - 1) * WorkerChunk
    <3> HIDE DEF PluginClientAssumption
    <3>1. WorkerChunk \in Nat
      BY DEF PluginClientAssumption
    <3> QED  BY <2>1, <3>1, ProductGrows
  <2>3. (q - 1) * WorkerChunk = q * WorkerChunk - WorkerChunk
    BY <1>4
  <2>4. q * WorkerChunk \in Nat
    BY <1>4
  <2> QED  BY <2>2, <2>3, <2>4, <1>4
<1>7. Offset(r) \in Nat /\ Offset(r) < t
  BY <1>6 DEF Offset
<1>8. Length(r) \in {t - Offset(r), WorkerChunk} /\ Length(r) <= WorkerChunk
  <2>1. PICK x \in Int : x = t - Offset(r)
    BY <1>7
  <2>2. Length(r) = Min({x, WorkerChunk})
    BY <2>1, <1>3, <1>5 DEF Length
  <2>3. Min({x, WorkerChunk}) \in {x, WorkerChunk}
          /\ Min({x, WorkerChunk}) <= WorkerChunk
    <3> HIDE DEF PluginClientAssumption
    <3>1. WorkerChunk \in Int
      BY DEF PluginClientAssumption
    <3> QED  BY <3>1, OfTwo
  <2> QED  BY <2>1, <2>2, <2>3
<1>9. \A d \in Clients : r \in ReadsOf[d] <=> r[1] = d
  BY DEF ReadsOf
<1> QED  BY <1>2, <1>5, <1>7, <1>8, <1>9

(* There is at least one part; several cover the range with whole chunks   *)
(* of the client but for the last.                                         *)
LEMMA PartsShape ==
  ASSUME TypeOK, NEW r \in Reads
  PROVE  /\ NumParts(r) \in Nat \ {0}
         /\ chunk[r[1]] \in Nat \ {0}
         /\ NumParts(r) * chunk[r[1]] <= Length(r) \/ NumParts(r) = 1
<1>1. PICK d \in Nat \ {0} : d = chunk[r[1]]
  BY ReadShape DEF TypeOK
<1>2. PICK n \in Nat \ {0} : n = Length(r)
  BY ReadShape
<1>3. PICK q : q = n \div d
  OBVIOUS
<1>4. q \in Nat /\ q * d <= n
  BY <1>3, Quotient
<1>5. Max({1, q}) \in Nat \ {0} /\ (Max({1, q}) * d <= n \/ Max({1, q}) = 1)
  <2>1. Max({1, q}) \in {1, q} /\ Max({1, q}) >= 1
    BY <1>4, OfTwo
  <2> QED  BY <2>1, <1>4
<1>6. NumParts(r) \in {1, Max({1, q})}
  BY <1>1, <1>2, <1>3 DEF NumParts, GcsNumParts, AzureNumParts, TypeOK
<1> QED  BY <1>1, <1>2, <1>5, <1>6

(* The parts of a read are its range. *)
LEMMA PartsCoverRange ==
  ASSUME TypeOK, NEW r \in Reads
  PROVE  UNION {PartBytes(r, j) : j \in 1 .. NumParts(r)} = Bytes(r)
<1>1. PICK d \in Nat \ {0} : d = chunk[r[1]]
  BY ReadShape DEF TypeOK
<1>2. PICK n \in Nat \ {0} : n = Length(r)
  BY ReadShape
<1>3. PICK o \in Nat : o = Offset(r)
  BY ReadShape
<1>4. PICK p \in Nat \ {0} : p = NumParts(r)
  BY PartsShape
<1>5. p * d <= n \/ p = 1
  BY <1>1, <1>2, <1>4, PartsShape
<1>6. Bytes(r) = o .. o + n - 1
  BY <1>2, <1>3 DEF Bytes
<1>7. \A j \in 1 .. p :
        PartBytes(r, j) = IF j = p THEN {b \in Bytes(r) : b >= o + (j - 1) * d}
                          ELSE o + (j - 1) * d .. o + (j - 1) * d + d - 1
  BY <1>1, <1>3, <1>4 DEF PartBytes
<1>8. ASSUME NEW j \in 1 .. p, NEW b \in PartBytes(r, j)
      PROVE  b \in Bytes(r)
  <2>1. CASE j = p
    BY <2>1, <1>7, <1>8
  <2>2. CASE j # p
    <3>1. b \in o + (j - 1) * d .. o + (j - 1) * d + d - 1
      BY <2>2, <1>7, <1>8
    <3>2. j \in Nat /\ j - 1 \in Nat /\ j <= p
      OBVIOUS
    <3>3. j * d \in Nat /\ j * d <= p * d /\ (j - 1) * d \in Nat
      BY <3>2, ProductGrows
    <3>4. (j - 1) * d + d = j * d
      BY <3>2
    <3>5. p * d <= n
      BY <1>5, <2>2
    <3>6. p * d \in Nat
      OBVIOUS
    <3> QED  BY <3>1, <3>3, <3>4, <3>5, <3>6, <1>6
  <2> QED  BY <2>1, <2>2
<1>9. ASSUME NEW b \in Bytes(r)
      PROVE  \E j \in 1 .. p : b \in PartBytes(r, j)
  <2>1. b - o \in Nat /\ b \in Int /\ b >= o
    BY <1>6
  <2>2. PICK q : q = (b - o) \div d
    OBVIOUS
  <2>3. q \in Nat /\ q * d <= b - o /\ b - o < q * d + d
    BY <2>1, <2>2, Quotient
  <2>4. q * d \in Nat
    BY <2>3
  <2>5. CASE q + 1 < p
    <3>1. PICK j \in 1 .. p : j = q + 1 /\ j # p /\ j - 1 = q
      BY <2>3, <2>5
    <3>2. b \in o + q * d .. o + q * d + d - 1
      BY <2>1, <2>3, <2>4
    <3> QED  BY <3>1, <3>2, <1>7
  <2>6. CASE q + 1 >= p
    <3>1. (p - 1) * d <= q * d /\ (p - 1) * d \in Nat
      <4>1. p - 1 \in Nat /\ p - 1 <= q
        BY <2>3, <2>6
      <4> QED  BY <4>1, <2>3, ProductGrows
    <3>2. b >= o + (p - 1) * d
      BY <3>1, <2>1, <2>3, <2>4
    <3> QED  BY <3>2, <1>7
  <2> QED  BY <2>3, <2>5, <2>6
<1> QED  BY <1>4, <1>8, <1>9

(* A client whose chunks are no smaller than its worker's reads a range in *)
(* one part.                                                               *)
LEMMA OnePart ==
  ASSUME TypeOK, NEW r \in Reads, chunk[r[1]] >= WorkerChunk
  PROVE  NumParts(r) = 1
<1>1. PICK d \in Nat \ {0} : d = chunk[r[1]]
  BY ReadShape DEF TypeOK
<1>2. PICK p \in Nat \ {0} : p = NumParts(r)
  BY PartsShape
<1>3. Length(r) <= d /\ Length(r) \in Nat
  BY <1>1, ReadShape, PluginClientAssumption DEF PluginClientAssumption
<1>4. SUFFICES ASSUME p >= 2
               PROVE  FALSE
  BY <1>2
<1>5. p * d <= Length(r)
  BY <1>1, <1>2, <1>4, PartsShape
<1>6. 2 * d <= p * d /\ p * d \in Nat
  BY <1>4, ProductGrows
<1> QED  BY <1>3, <1>5, <1>6

-----------------------------------------------------------------------------
(* What steps leave alone *)

(* A client has tasks if some part of a read of it has one. *)
LEMMA TasksAreParts ==
  ASSUME NEW c \in Clients
  PROVE  TasksOf(c) # {} <=>
           \E r \in ReadsOf[c] : \E i \in Parts(r) : part[r][i] \in HasTask
<1>1. ASSUME NEW r \in ReadsOf[c], NEW i \in Parts(r), part[r][i] \in HasTask
      PROVE  TasksOf(c) # {}
  <2>1. <<r, i>> \in {<<r, k>> :
                        k \in {j \in Parts(r) : part[r][j] \in HasTask}}
    BY <1>1
  <2>2. <<r, i>> \in UNION {{<<s, k>> :
                       k \in {j \in Parts(s) : part[s][j] \in HasTask}} :
                           s \in ReadsOf[c]}
    BY <2>1
  <2> QED  BY <2>2 DEF TasksOf, PartsIn, HasTask
<1>2. ASSUME NEW t \in TasksOf(c)
      PROVE  \E r \in ReadsOf[c] : \E i \in Parts(r) : part[r][i] \in HasTask
  <2>1. PICK r \in ReadsOf[c] :
          t \in {<<r, i>> : i \in {j \in Parts(r) : part[r][j] \in HasTask}}
    BY <1>2 DEF TasksOf, PartsIn, HasTask
  <2> QED  BY <2>1
<1> QED  BY <1>1, <1>2

(* The same after a step. *)
LEMMA TasksMovedAreParts ==
  ASSUME NEW c \in Clients
  PROVE  TasksOf(c)' # {} <=>
           \E r \in ReadsOf[c] : \E i \in Parts(r)' : part'[r][i] \in HasTask
<1>1. ASSUME NEW r \in ReadsOf[c], NEW i \in Parts(r)', part'[r][i] \in HasTask
      PROVE  TasksOf(c)' # {}
  <2>1. <<r, i>> \in {<<r, k>> :
                        k \in {j \in Parts(r)' : part'[r][j] \in HasTask}}
    BY <1>1
  <2>2. <<r, i>> \in UNION {{<<s, k>> :
                       k \in {j \in Parts(s)' : part'[s][j] \in HasTask}} :
                           s \in ReadsOf[c]}
    BY <2>1
  <2> QED  BY <2>2 DEF TasksOf, PartsIn, HasTask
<1>2. ASSUME NEW t \in TasksOf(c)'
      PROVE  \E r \in ReadsOf[c] :
               \E i \in Parts(r)' : part'[r][i] \in HasTask
  <2>1. PICK r \in ReadsOf[c] :
          t \in {<<r, i>> : i \in {j \in Parts(r)' : part'[r][j] \in HasTask}}
    BY <1>2 DEF TasksOf, PartsIn, HasTask
  <2> QED  BY <2>1
<1> QED  BY <1>1, <1>2

(* The parts of a read depend on the plugin, the chunk size of the client  *)
(* and on whether it reads through a cache.                                *)
LEMMA SamePlan ==
  ASSUME TypeOK, NEW r \in Reads, UNCHANGED <<kind, chunk>>,
         Cached(r[1])' = Cached(r[1])
  PROVE  /\ NumParts(r)' = NumParts(r)
         /\ \A j : /\ HeldPart(r, j)' = HeldPart(r, j)
                   /\ Readable(r, j)' <=> Readable(r, j)
<1>1. NumParts(r)' = NumParts(r)
  BY DEF NumParts, GcsNumParts, AzureNumParts, TypeOK
<1>2. \A j : PartBytes(r, j)' = PartBytes(r, j)
  BY <1>1 DEF PartBytes, Bytes
<1>3. \A j : HeldPart(r, j)' = HeldPart(r, j)
  BY <1>2 DEF HeldPart
<1>4. LengthUnchecked(r[1])' <=> LengthUnchecked(r[1])
  BY DEF LengthUnchecked
<1> QED  BY <1>1, <1>2, <1>3, <1>4 DEF Readable

(* Whether a client reads through a cache is up to its loader's handle. *)
LEMMA SameCache ==
  ASSUME NEW c, UNCHANGED <<kind, loader, handles>>
  PROVE  Cached(c)' = Cached(c)
  BY DEF Cached, Cache!Enabled

(* A part moves from one state to another. *)
LEMMA PartMoved ==
  ASSUME TypeOK, NEW r \in Reads, NEW i \in Parts(r), NEW v \in PartStates,
         part' = [part EXCEPT ![r][i] = v]
  PROVE  /\ part' \in [Reads -> Seq(PartStates)]
         /\ \A s \in Reads :
              Parts(s)' = Parts(s) /\ Len(part'[s]) = Len(part[s])
         /\ \A s \in Reads : part'[s] = <<>> <=> part[s] = <<>>
         /\ part'[r][i] = v
         /\ \A s \in Reads : \A j \in Parts(s) :
              <<s, j>> # <<r, i>> => part'[s][j] = part[s][j]
<1>1. part[r] \in Seq(PartStates)
  BY DEF TypeOK
<1>2. PICK p : p = [part[r] EXCEPT ![i] = v]
  OBVIOUS
<1>3. /\ p \in Seq(PartStates) /\ Len(p) = Len(part[r])
      /\ DOMAIN p = DOMAIN part[r]
  BY <1>1, <1>2 DEF Parts
<1>4. p[i] = v /\ \A j \in DOMAIN part[r] \ {i} : p[j] = part[r][j]
  BY <1>2 DEF Parts
<1>5. part' = [part EXCEPT ![r] = p]
  BY <1>2 DEF TypeOK
<1>6. part'[r] = p /\ \A s \in Reads \ {r} : part'[s] = part[s]
  BY <1>5 DEF TypeOK
<1>7. part' \in [Reads -> Seq(PartStates)]
  BY <1>3, <1>5 DEF TypeOK
<1>8. p # <<>> /\ part[r] # <<>>
  BY <1>3 DEF Parts
<1> QED  BY <1>3, <1>4, <1>6, <1>7, <1>8 DEF Parts

(* Steps that may move clients and what they have begun, but no part. *)
LEMMA RequestsStay ==
  ASSUME TypeOK, Requests, UNCHANGED <<nextPart, part, queue>>,
         begun' \in [Clients -> Nat],
         \A c \in Clients :
           /\ begun[c] <= begun'[c] \/ begun'[c] = NumReads(c)
           /\ pc'[c] \in {"none", "made"} =>
                pc[c] \in {"none", "made"} /\ begun'[c] = begun[c]
           /\ pc'[c] = "submit" => pc[c] = "submit" /\ begun'[c] = begun[c]
  PROVE  Requests'
<1>1. Submitted'
  <2> SUFFICES ASSUME NEW c \in Clients
               PROVE  /\ pc'[c] \in {"none", "made"} => begun'[c] = 0
                      /\ \A r \in ReadsOf[c] :
                           r[2] > begun'[c] => part[r] = <<>>
                      /\ pc'[c] = "submit" =>
                           /\ Current(c)' \in Reads
                           /\ nextPart[c] = Len(part[Current(c)']) + 1
    BY DEF Submitted
  <2>1. pc'[c] \in {"none", "made"} => begun'[c] = 0
    BY DEF Requests, Submitted
  <2>2. ASSUME NEW r \in ReadsOf[c], r[2] > begun'[c]
        PROVE  part[r] = <<>>
    <3>1. r[2] \in Nat /\ begun[c] \in Nat /\ begun'[c] \in Nat
      BY ReadShape DEF ReadsOf, TypeOK
    <3>2. r[1] = c /\ r[2] <= NumReads(c)
      BY ReadShape DEF ReadsOf
    <3>3. begun'[c] # NumReads(c)
      BY <2>2, <3>1, <3>2
    <3> QED  BY <2>2, <3>1, <3>3 DEF Requests, Submitted
  <2>3. ASSUME pc'[c] = "submit"
        PROVE  /\ Current(c)' \in Reads
               /\ nextPart[c] = Len(part[Current(c)']) + 1
    BY <2>3 DEF Requests, Submitted, Current
  <2> QED  BY <2>1, <2>2, <2>3
<1>2. QueueIsRight'
  BY DEF Requests, QueueIsRight, Parts
<1> QED  BY <1>1, <1>2 DEF Requests

(* The parts of a read that is tracked do not change while its client is   *)
(* there; what no step touches stays right.                                *)
LEMMA AnswersStay ==
  ASSUME TypeOK, Answers,
         UNCHANGED <<part, counter, arrived, isSuccess, answers>>,
         \A r \in Reads : Tracked(r)' => Tracked(r),
         \A r \in Reads : Tracked(r) =>
           /\ NumParts(r)' = NumParts(r)
           /\ \A j : /\ HeldPart(r, j)' = HeldPart(r, j)
                     /\ Readable(r, j)' <=> Readable(r, j)
  PROVE  Answers'
<1>1. CounterIsRight'
  BY DEF Answers, CounterIsRight, HaveBeenRead, Parts
<1>2. AnswersAreRight'
  BY DEF Answers, AnswersAreRight, Explained, Parts
<1> QED  BY <1>1, <1>2 DEF Answers

(* Steps that move clients and parts, but touch no loader and no library. *)
LEMMA LibrariesStay ==
  ASSUME TypeOK, Libraries, UNCHANGED <<kind, cacheVars>>,
         begun' \in [Clients -> Nat],
         \A c \in Clients :
           /\ pc'[c] = "none" => pc[c] = "none"
           /\ kind = "azure" /\ pc'[c] \in {"made", "idle", "submit", "wait"}
                => pc[c] \in {"made", "idle", "submit", "wait"}
           /\ pc[c] = "gone" => pc'[c] = "gone" /\ begun'[c] = begun[c]
           /\ TasksOf(c)' # {} =>
                TasksOf(c) # {} \/ clientRef[c] \/ kind # "azure"
  PROVE  Libraries'
<1>1. LoadersAreKept'
  BY DEF Libraries, LoadersAreKept, LoaderIsKept, Owners, cacheVars
<1>2. HandlesAreOfEnv'
  BY DEF Libraries, HandlesAreOfEnv, cacheVars, Cache!Loaded, Cache!LibPath
<1>3. HandlesAreApart'
  BY DEF Libraries, HandlesAreApart, cacheVars, LiveOpen, Owners, Frozen,
     Cache!Loaded, Cache!LibPath
<1> QED  BY <1>1, <1>2, <1>3 DEF Libraries

-----------------------------------------------------------------------------
(* Initial states *)

(* Initially nothing was submitted, read, answered or loaded. *)
LEMMA InitIInv == Init => IInv
<1> SUFFICES ASSUME Init
             PROVE  IInv
  OBVIOUS
<1> USE DEF Init
<1>1. /\ handles = <<>> /\ shared = 0 /\ loader = [c \in Clients |-> 0]
      /\ clientRef = [c \in Clients |-> FALSE] /\ down = {}
      /\ unwinding = {} /\ dying = {} /\ env \in Envs
  BY DEF Cache!Init, Envs
<1>2. TypeOK
  <2>1. /\ kind \in {"s3", "gcs", "azure"} /\ pc \in [Clients -> PCs]
        /\ chunk \in [Clients -> Nat \ {0}]
    BY PluginClientAssumption DEF PluginClientAssumption, PCs
  <2>2. /\ begun \in [Clients -> Nat] /\ nextPart \in [Clients -> Nat]
        /\ counter \in [Reads -> Int] /\ isSuccess \in [Reads -> BOOLEAN]
        /\ arrived \in [Reads -> SUBSET Int]
    OBVIOUS
  <2>3. /\ <<>> \in Seq(Reads \X Nat) /\ <<>> \in Seq(PartStates)
        /\ <<>> \in Seq(Codes) /\ <<>> \in Seq(HandleType)
    OBVIOUS
  <2>4. /\ queue \in [Clients -> Seq(Reads \X Nat)]
        /\ part \in [Reads -> Seq(PartStates)]
        /\ answers \in [Reads -> Seq(Codes)]
    BY <2>3
  <2>5. /\ handles \in Seq(HandleType) /\ shared \in 0 .. Len(handles)
        /\ loader \in [Clients -> 0 .. Len(handles)]
    BY <2>3, <1>1
  <2>6. /\ env \in Envs /\ clientRef \in [Clients -> BOOLEAN]
        /\ down \subseteq DOMAIN handles /\ unwinding \subseteq Clients
        /\ dying \subseteq DOMAIN handles
    BY <1>1
  <2> QED  BY <2>1, <2>2, <2>4, <2>5, <2>6 DEF TypeOK
<1>3. \A r \in Reads : part[r] = <<>> /\ Parts(r) = {}
  BY DEF Parts
<1>4. \A c \in Clients : pc[c] \in {"none", "gone"}
  OBVIOUS
<1>5. Requests
  <2>1. \A c \in Clients : DOMAIN queue[c] = {}
    OBVIOUS
  <2>2. \A c \in Clients : \A r \in ReadsOf[c] : r \in Reads
    BY DEF ReadsOf
  <2> QED  BY <2>1, <2>2, <1>3, <1>4 DEF Requests, Submitted, QueueIsRight
<1>6. Answers
  <2>1. \A r \in Reads : ~Tracked(r)
    BY <1>3, <1>4, ReadShape DEF Tracked
  <2>2. \A r \in Reads : answers[r] = <<>> /\ arrived[r] = {} /\ isSuccess[r]
    OBVIOUS
  <2> QED  BY <2>1, <2>2, <1>3 DEF Answers, CounterIsRight, AnswersAreRight
<1>7. Libraries
  <2>1. DOMAIN handles = {}
    BY <1>1
  <2>2. \A c \in Clients : loader[c] = 0 /\ ~clientRef[c] /\ c \notin unwinding
    BY <1>1
  <2>3. LoadersAreKept
    BY <2>2, <1>4 DEF LoadersAreKept, LoaderIsKept
  <2>4. HandlesAreOfEnv
    BY <2>1 DEF HandlesAreOfEnv
  <2>5. HandlesAreApart
    BY <2>1, <1>1 DEF HandlesAreApart
  <2> QED  BY <2>3, <2>4, <2>5 DEF Libraries
<1> QED  BY <1>2, <1>5, <1>6, <1>7 DEF IInv

-----------------------------------------------------------------------------
(* Types *)

(* Types: the steps of a worker that submit no part, *)
LEMMA WorkerTypeOK ==
  ASSUME TypeOK, NEW c \in Clients,
         \/ ReadWindow(c) \/ BeginRead(c) \/ EndRead(c)
         \/ WaitOne(c) \/ WaitMany(c) \/ WaitFinished(c)
  PROVE  TypeOK'
<1>1. NumReads(c) \in Nat
  <2>1. PICK t \in Nat \ {0} : t = TaskBytes[c]
    BY PluginClientAssumption DEF PluginClientAssumption
  <2>2. t + WorkerChunk - 1 \in Nat /\ WorkerChunk \in Nat \ {0}
    BY PluginClientAssumption DEF PluginClientAssumption
  <2> QED  BY <2>1, <2>2, Quotient DEF NumReads
<1>2. UNCHANGED <<kind, chunk, poolVars, isSuccess, answers, cacheVars>>
  BY DEF ReadWindow, BeginRead, EndRead, WaitOne, WaitMany, WaitFinished, Pop,
     readVars, workerVars
<1>3. pc' \in [Clients -> PCs]
  BY DEF ReadWindow, BeginRead, EndRead, WaitOne, WaitMany, WaitFinished,
     TypeOK, PCs
<1>4. begun' \in [Clients -> Nat] /\ nextPart' \in [Clients -> Nat]
  <2>1. CASE BeginRead(c)
    BY <2>1 DEF BeginRead, TypeOK
  <2>2. CASE WaitFinished(c)
    BY <2>2, <1>1 DEF WaitFinished, TypeOK
  <2>3. CASE ReadWindow(c) \/ EndRead(c) \/ WaitOne(c) \/ WaitMany(c)
    <3>1. UNCHANGED <<begun, nextPart>>
      BY <2>3 DEF ReadWindow, EndRead, WaitOne, WaitMany, Pop, workerVars
    <3> QED  BY <3>1 DEF TypeOK
  <2> QED  BY <2>1, <2>2, <2>3
<1>5. counter' \in [Reads -> Int]
  <2>1. \A r \in Reads : NumParts(r) \in Int
    BY PartsShape
  <2>2. CASE BeginRead(c)
    <3> DEFINE r == <<c, begun[c] + 1>>
    <3>1. counter' = [counter EXCEPT ![r] = NumParts(r)]
      BY <2>2 DEF BeginRead
    <3>2. r \in Reads
      BY <1>1, <2>2 DEF BeginRead, Reads, TypeOK
    <3> QED  BY <2>1, <3>1, <3>2 DEF TypeOK
  <2>3. CASE ~BeginRead(c)
    BY <2>3 DEF ReadWindow, EndRead, WaitOne, WaitMany, WaitFinished, Pop,
       readVars, TypeOK
  <2> QED  BY <2>2, <2>3
<1> QED  BY <1>2, <1>3, <1>4, <1>5 DEF poolVars, cacheVars, TypeOK

(* the submission of a part, *)
LEMMA SubmitTypeOK ==
  ASSUME TypeOK, Requests, NEW c \in Clients, SubmitPart(c)
  PROVE  TypeOK'
<1> DEFINE r == Current(c)
<1>1. r \in Reads
  BY DEF SubmitPart, Requests, Submitted
<1>2. nextPart[c] \in Nat /\ <<r, nextPart[c]>> \in Reads \X Nat
  BY <1>1 DEF TypeOK
<1>3. nextPart' \in [Clients -> Nat]
  BY DEF SubmitPart, TypeOK
<1>4. part' \in [Reads -> Seq(PartStates)]
  <2>1. PICK v \in {"running", "queued"} :
          part' = [part EXCEPT ![r] = Append(@, v)]
    BY DEF SubmitPart
  <2>2. v \in PartStates /\ part[r] \in Seq(PartStates)
    BY <1>1 DEF TypeOK, PartStates
  <2>3. Append(part[r], v) \in Seq(PartStates)
    BY <2>2
  <2> QED  BY <2>1, <2>3, <1>1 DEF TypeOK
<1>5. queue' \in [Clients -> Seq(Reads \X Nat)]
  <2>1. Append(queue[c], <<r, nextPart[c]>>) \in Seq(Reads \X Nat)
    BY <1>2 DEF TypeOK
  <2> QED  BY <2>1 DEF SubmitPart, TypeOK
<1>6. UNCHANGED <<kind, pc, chunk, begun, counter, isSuccess, arrived, answers,
                  cacheVars>>
  BY DEF SubmitPart, readVars
<1> QED  BY <1>3, <1>4, <1>5, <1>6 DEF cacheVars, TypeOK

(* its start, *)
LEMMA StartTypeOK ==
  ASSUME TypeOK, Requests, NEW c \in Clients, StartPart(c)
  PROVE  TypeOK'
<1>1. queue[c] # <<>> /\ queue[c] \in Seq(Reads \X Nat)
  BY DEF StartPart, TypeOK
<1>2. PICK r, i : r = Head(queue[c])[1] /\ i = Head(queue[c])[2]
  OBVIOUS
<1>3. r \in Reads /\ i \in Parts(r)
  <2>1. 1 \in DOMAIN queue[c] /\ Head(queue[c]) = queue[c][1]
    BY <1>1
  <2> QED  BY <2>1, <1>2 DEF Requests, QueueIsRight, ReadsOf
<1>4. part' = [part EXCEPT ![r][i] = "running"]
  BY <1>2 DEF StartPart
<1>5. part' \in [Reads -> Seq(PartStates)]
  BY <1>3, <1>4, PartMoved DEF PartStates
<1>6. queue' \in [Clients -> Seq(Reads \X Nat)]
  <2>1. Tail(queue[c]) \in Seq(Reads \X Nat)
    BY <1>1
  <2> QED  BY <2>1 DEF StartPart, TypeOK
<1>7. UNCHANGED <<kind, pc, chunk, begun, nextPart, counter, isSuccess, arrived,
                  answers, cacheVars>>
  BY DEF StartPart, readVars, workerVars
<1> QED  BY <1>5, <1>6, <1>7 DEF cacheVars, TypeOK

(* What a callback leaves in the place of a part. *)
LEMMA PartTypeOK ==
  ASSUME TypeOK, NEW r \in Reads, NEW i \in Parts(r),
         PartReads(r, i) \/ PartFails(r, i) \/ Reply(r, i) \/ EndTask(r, i)
  PROVE  TypeOK'
<1>1. PICK v \in PartStates : part' = [part EXCEPT ![r][i] = v]
  BY DEF PartReads, PartFails, Reply, EndTask, PartStates, Answered, PartErrors,
     S3Errors, GcsErrors, AzureErrors, CacheErrors, Codes
<1>2. part' \in [Reads -> Seq(PartStates)]
  BY <1>1, PartMoved
<1>3. arrived' \in [Reads -> SUBSET Int]
  <2>1. HeldPart(r, i) \subseteq Int
    <3>1. Offset(r) \in Nat /\ Length(r) \in Nat /\ i \in Nat
      BY ReadShape DEF Parts, TypeOK
    <3>2. Bytes(r) \subseteq Int
      BY <3>1 DEF Bytes
    <3>3. PICK d \in Nat : d = chunk[r[1]]
      BY ReadShape DEF TypeOK
    <3>4. PICK f \in Int : f = Offset(r) + (i - 1) * d
      BY <3>1
    <3> QED  BY <3>2, <3>3, <3>4 DEF HeldPart, PartBytes
  <2> QED  BY <2>1 DEF PartReads, PartFails, Reply, EndTask, TypeOK
<1>4. counter' \in [Reads -> Int] /\ isSuccess' \in [Reads -> BOOLEAN]
  <2>1. CASE PartReads(r, i)
    BY <2>1 DEF PartReads, TypeOK
  <2>2. CASE PartFails(r, i)
    BY <2>2 DEF PartFails, TypeOK
  <2>3. CASE Reply(r, i) \/ EndTask(r, i)
    <3>1. UNCHANGED <<counter, isSuccess>>
      BY <2>3 DEF Reply, EndTask, readVars
    <3> QED  BY <3>1 DEF TypeOK
  <2> QED  BY <2>1, <2>2, <2>3
<1>5. answers' \in [Reads -> Seq(Codes)]
  <2>1. CASE Reply(r, i)
    <3>1. part[r][i] \in Codes /\ answers[r] \in Seq(Codes)
      BY <2>1 DEF Reply, TypeOK
    <3>2. Append(answers[r], part[r][i]) \in Seq(Codes)
      BY <3>1
    <3> QED  BY <2>1, <3>2 DEF Reply, TypeOK
  <2>2. CASE ~Reply(r, i)
    BY <2>2 DEF PartReads, PartFails, EndTask, readVars, TypeOK
  <2> QED  BY <2>1, <2>2
<1>6. UNCHANGED <<kind, pc, chunk, begun, nextPart, queue, cacheVars>>
  BY DEF PartReads, PartFails, Reply, EndTask, workerVars
<1> QED  BY <1>2, <1>3, <1>4, <1>5, <1>6 DEF cacheVars, TypeOK

(* and the steps of the owner that touch no loader. *)
LEMMA OwnerTypeOK ==
  ASSUME TypeOK, NEW c \in Clients,
         Create(c) \/ StopFlag(c) \/ StopResponder(c) \/ Close(c) \/ Join(c)
  PROVE  TypeOK'
<1>1. UNCHANGED <<kind, chunk, workerVars, counter, isSuccess, arrived,
                  answers>>
  BY DEF Create, Made, StopFlag, StopResponder, Close, Join, poolVars, readVars
<1>2. pc' \in [Clients -> PCs]
  BY DEF Create, Made, StopFlag, StopResponder, Close, Join, TypeOK, PCs
<1>3. clientRef' \in [Clients -> BOOLEAN]
  BY DEF Create, StopFlag, StopResponder, Close, Join, cacheVars, TypeOK
<1>4. UNCHANGED <<env, handles, shared, loader, down, unwinding, dying>>
  BY DEF Create, StopFlag, StopResponder, Close, Join, cacheVars
<1>5. queue' \in [Clients -> Seq(Reads \X Nat)]
  <2>1. CASE Join(c)
    <3>1. <<>> \in Seq(Reads \X Nat)
      OBVIOUS
    <3> QED  BY <2>1, <3>1 DEF Join, TypeOK
  <2>2. CASE ~Join(c)
    BY <2>2 DEF Create, Made, StopFlag, StopResponder, Close, poolVars, TypeOK
  <2> QED  BY <2>1, <2>2
<1>6. part' \in [Reads -> Seq(PartStates)]
  <2>1. CASE Join(c)
    <3> SUFFICES ASSUME NEW r \in Reads
                 PROVE  part'[r] \in Seq(PartStates)
      BY <2>1 DEF Join
    <3>1. part[r] \in Seq(PartStates)
      BY DEF TypeOK
    <3>2. PICK n \in Nat : n = Len(part[r]) /\ DOMAIN part[r] = 1 .. n
      BY <3>1
    <3>3. PICK p : p = [i \in 1 .. n |-> IF part[r][i] = "queued" THEN "dropped"
                                         ELSE part[r][i]]
      OBVIOUS
    <3>4. p \in [1 .. n -> PartStates]
      BY <3>1, <3>2, <3>3 DEF PartStates
    <3>5. p \in Seq(PartStates)
      BY <3>4
    <3>6. part'[r] = p \/ part'[r] = part[r]
      BY <2>1, <3>2, <3>3 DEF Join, Parts
    <3> QED  BY <3>1, <3>5, <3>6
  <2>2. CASE ~Join(c)
    BY <2>2 DEF Create, Made, StopFlag, StopResponder, Close, poolVars, TypeOK
  <2> QED  BY <2>1, <2>2
<1> QED  BY <1>1, <1>2, <1>3, <1>4, <1>5, <1>6 DEF workerVars, TypeOK

-----------------------------------------------------------------------------
(* Loaders and handles *)

(* The path a loader is made for is one that an environment names. *)
LEMMA PathIsKnown ==
  ASSUME TypeOK
  PROVE  Cache!LibPath \in Paths
<1>1. Cache!LibPath \in {env.explicit, env.discovered}
  BY DEF Cache!LibPath
<1>2. {env.explicit, env.discovered}
        \in {{e.explicit, e.discovered} : e \in Envs}
  BY DEF TypeOK
<1> QED  BY <1>1, <1>2 DEF Paths

(* Owners are clients. *)
LEMMA OwnersAreClients ==
  ASSUME TypeOK, NEW h \in DOMAIN handles
  PROVE  Owners(h) \subseteq Clients
<1>1. handles[h] \in HandleType
  BY DEF TypeOK
<1> QED  BY <1>1 DEF Owners, HandleType

(* As long as the environment and the libraries stay, handles that do not  *)
(* change what they are of stay right.                                     *)
LEMMA HandlesStay ==
  ASSUME HandlesAreOfEnv, UNCHANGED <<env, libs>>,
         DOMAIN handles' = DOMAIN handles,
         \A g \in DOMAIN handles :
           /\ handles'[g].path = handles[g].path
           /\ handles'[g].open = handles[g].open
  PROVE  /\ HandlesAreOfEnv'
         /\ Cache!LibPath' = Cache!LibPath /\ Frozen' = Frozen
<1>1. Cache!LibPath' = Cache!LibPath
  BY DEF Cache!LibPath
<1>2. \A p : Cache!Loaded(p)' = Cache!Loaded(p)
  BY DEF Cache!Loaded
<1>3. \A g \in DOMAIN handles :
        Cache!Loaded(handles[g].path)' = Cache!Loaded(handles[g].path)
  BY DEF Cache!Loaded
<1>4. Frozen' = Frozen
  BY <1>1 DEF Frozen, Cache!Loaded
<1> QED  BY <1>1, <1>3, <1>4 DEF HandlesAreOfEnv

(* A handle gets other owners. *)
LEMMA OwnersChanged ==
  ASSUME TypeOK, NEW h \in DOMAIN handles, NEW S \in SUBSET Clients,
         handles' = [handles EXCEPT ![h].owners = S]
  PROVE  /\ handles' \in Seq(HandleType) /\ Len(handles') = Len(handles)
         /\ DOMAIN handles' = DOMAIN handles
         /\ \A g \in DOMAIN handles :
              /\ handles'[g].path = handles[g].path
              /\ handles'[g].open = handles[g].open
              /\ Owners(g)' = IF g = h THEN S ELSE Owners(g)
<1>1. handles \in Seq(HandleType) /\ handles[h] \in HandleType
  BY DEF TypeOK
<1>2. PICK x : x = [handles[h] EXCEPT !.owners = S]
  OBVIOUS
<1>3. /\ x \in HandleType /\ x.owners = S
      /\ x.path = handles[h].path /\ x.open = handles[h].open
  BY <1>1, <1>2 DEF HandleType
<1>4. handles' = [handles EXCEPT ![h] = x]
  BY <1>2
<1>5. handles' \in Seq(HandleType) /\ Len(handles') = Len(handles)
        /\ DOMAIN handles' = DOMAIN handles
  BY <1>1, <1>3, <1>4
<1>6. /\ handles'[h] = x
      /\ \A g \in DOMAIN handles \ {h} : handles'[g] = handles[g]
  BY <1>4
<1> QED  BY <1>3, <1>5, <1>6 DEF Owners

(* What s_shared_handle.lock() gets is a handle with an owner. *)
LEMMA LockedIsLive ==
  ASSUME TypeOK, Cache!Locked # 0
  PROVE  /\ Cache!Locked = shared /\ shared \in DOMAIN handles
         /\ Owners(shared) # {}
<1>1. shared # 0 /\ Cache!Locked = shared /\ handles[shared].owners # {}
  BY DEF Cache!Locked
<1>2. DOMAIN handles = 1 .. Len(handles) /\ Len(handles) \in Nat
  BY DEF TypeOK
<1> QED  BY <1>1, <1>2 DEF TypeOK, Owners

(* A client that has begun nothing has no task. *)
LEMMA NoTasksYet ==
  ASSUME TypeOK, Requests, NEW c \in Clients, begun[c] = 0
  PROVE  TasksOf(c) = {}
<1>1. \A r \in ReadsOf[c] : Parts(r) = {}
  BY ReadShape DEF Requests, Submitted, ReadsOf, Parts
<1> QED  BY <1>1, TasksAreParts

(* An owner more for a handle that has one: the loader of c is made, or c  *)
(* throws and is left with the handle it locked.                           *)
LEMMA OwnerMore ==
  ASSUME TypeOK, HandlesAreOfEnv, HandlesAreApart, NEW c \in Clients,
         Cache!Locked # 0,
         handles' = [handles EXCEPT ![Cache!Locked].owners = @ \cup {c}],
         UNCHANGED <<env, libs, shared, down, dying>>,
         unwinding' = unwinding \/ Frozen
  PROVE  /\ handles' \in Seq(HandleType) /\ Len(handles') = Len(handles)
         /\ DOMAIN handles' = DOMAIN handles
         /\ c \in Owners(Cache!Locked)'
         /\ \A g \in DOMAIN handles : Owners(g) \subseteq Owners(g)'
         /\ HandlesAreOfEnv' /\ HandlesAreApart'
<1>1. PICK h \in DOMAIN handles : h = Cache!Locked /\ Owners(h) # {}
  BY LockedIsLive
<1>2. handles' = [handles EXCEPT ![h].owners = Owners(h) \cup {c}]
  BY <1>1 DEF Owners
<1>3. Owners(h) \cup {c} \in SUBSET Clients
  BY <1>1, OwnersAreClients
<1>4. /\ handles' \in Seq(HandleType) /\ Len(handles') = Len(handles)
      /\ DOMAIN handles' = DOMAIN handles
      /\ \A g \in DOMAIN handles :
           /\ handles'[g].path = handles[g].path
           /\ handles'[g].open = handles[g].open
           /\ Owners(g)' = IF g = h THEN Owners(h) \cup {c} ELSE Owners(g)
  BY <1>2, <1>3, OwnersChanged
<1>5. \A g \in DOMAIN handles : LiveOpen(g)' = LiveOpen(g)
  BY <1>1, <1>4 DEF LiveOpen
<1>6. /\ HandlesAreOfEnv'
      /\ Cache!LibPath' = Cache!LibPath /\ Frozen' = Frozen
  BY <1>4, HandlesStay
<1>7. HandlesAreApart'
  BY <1>4, <1>5, <1>6 DEF HandlesAreApart
<1>8. Cache!Locked' = Cache!Locked
  BY <1>1, <1>4 DEF Cache!Locked, Owners
<1>9. c \in Owners(Cache!Locked)'
  BY <1>1, <1>4, <1>8
<1> QED  BY <1>4, <1>6, <1>7, <1>9

(* A handle loses an owner: its library is shut down only if it was the    *)
(* last, at once or, after a constructor that threw, in a later step.      *)
LEMMA OwnerLess ==
  ASSUME TypeOK, HandlesAreOfEnv, HandlesAreApart, NEW c \in Clients,
         NEW h \in DOMAIN handles,
         handles' = [handles EXCEPT ![h].owners = @ \ {c}],
         UNCHANGED <<env, libs, shared>>, unwinding' \subseteq unwinding,
         \/ UNCHANGED <<down, dying>>
         \/ Owners(h) = {c} /\ UNCHANGED dying /\ Cache!ShutDown(h)
         \/ /\ Owners(h) = {c} /\ UNCHANGED down
            /\ Frozen /\ dying' = dying \cup {h}
  PROVE  /\ handles' \in Seq(HandleType) /\ Len(handles') = Len(handles)
         /\ DOMAIN handles' = DOMAIN handles
         /\ down' \subseteq DOMAIN handles /\ dying' \subseteq DOMAIN handles
         /\ \A g \in DOMAIN handles : Owners(g) \ {c} \subseteq Owners(g)'
         /\ \A g \in DOMAIN handles \ {h} : Owners(g)' = Owners(g)
         /\ HandlesAreOfEnv' /\ HandlesAreApart'
<1>1. handles' = [handles EXCEPT ![h].owners = Owners(h) \ {c}]
  BY DEF Owners
<1>2. Owners(h) \ {c} \in SUBSET Clients
  BY OwnersAreClients
<1>3. /\ handles' \in Seq(HandleType) /\ Len(handles') = Len(handles)
      /\ DOMAIN handles' = DOMAIN handles
      /\ \A g \in DOMAIN handles :
           /\ handles'[g].path = handles[g].path
           /\ handles'[g].open = handles[g].open
           /\ Owners(g)' = IF g = h THEN Owners(h) \ {c} ELSE Owners(g)
  BY <1>1, <1>2, OwnersChanged
<1>4. \A g \in DOMAIN handles : LiveOpen(g)' => LiveOpen(g)
  BY <1>3 DEF LiveOpen
<1>5. ASSUME Owners(h) = {c}, NEW g \in DOMAIN handles, LiveOpen(g)'
      PROVE  handles[g].path # handles[h].path
  <2>1. g # h
    BY <1>3, <1>5 DEF LiveOpen
  <2>2. SUFFICES ASSUME handles[g].path = handles[h].path
                 PROVE  FALSE
    OBVIOUS
  <2>3. handles[h].open
    BY <2>2, <1>4, <1>5 DEF HandlesAreOfEnv, LiveOpen
  <2>4. LiveOpen(h)
    BY <2>3, <1>5 DEF LiveOpen
  <2> QED  BY <2>1, <2>2, <2>4, <1>4, <1>5 DEF HandlesAreApart
<1>6. /\ HandlesAreOfEnv'
      /\ Cache!LibPath' = Cache!LibPath /\ Frozen' = Frozen
  BY <1>3, HandlesStay
<1>7. /\ down' \subseteq DOMAIN handles
      /\ \A g \in DOMAIN handles : LiveOpen(g)' => g \notin down'
  <2>1. CASE UNCHANGED down
    BY <2>1, <1>4 DEF TypeOK, HandlesAreApart
  <2>2. CASE Owners(h) = {c} /\ Cache!ShutDown(h)
    <3>1. down' \subseteq
            down \cup {g \in DOMAIN handles : handles[g].path = handles[h].path}
      BY <2>2 DEF Cache!ShutDown
    <3> QED  BY <3>1, <2>2, <1>4, <1>5 DEF TypeOK, HandlesAreApart
  <2> QED  BY <2>1, <2>2
<1>8. /\ dying' \subseteq DOMAIN handles
      /\ \A g, k \in DOMAIN handles :
           LiveOpen(g)' /\ handles[g].path = handles[k].path => k \notin dying'
      /\ dying' # {} => dying # {} \/ Frozen
  BY <1>4, <1>5 DEF TypeOK, HandlesAreApart
<1>9. HandlesAreApart'
  <2>1. unwinding' # {} \/ dying' # {} => Frozen'
    BY <1>6, <1>8 DEF HandlesAreApart
  <2>2. \A g \in DOMAIN handles :
          LiveOpen(g)' /\ handles[g].path = Cache!LibPath => g = shared
    BY <1>4 DEF HandlesAreApart
  <2>3. \A g, k \in DOMAIN handles :
          LiveOpen(g)' /\ handles[g].path = handles[k].path /\ LiveOpen(k)'
            => g = k
    BY <1>4 DEF HandlesAreApart
  <2> QED  BY <2>1, <2>2, <2>3, <1>3, <1>6, <1>7, <1>8 DEF HandlesAreApart
<1>10. \A g \in DOMAIN handles : Owners(g) \ {c} \subseteq Owners(g)'
  BY <1>3
<1> QED  BY <1>3, <1>6, <1>7, <1>8, <1>9, <1>10

(* Steps of loaders and libraries move no part.  They change the loader of *)
(* a client only while it has begun no read, and never what a handle is    *)
(* of, so the plan of every read that was begun stays.                     *)
LEMMA LoaderStep ==
  ASSUME TypeOK, Requests, Answers, LoadersAreKept,
         UNCHANGED <<kind, chunk, begun, nextPart, poolVars, counter, isSuccess,
                     answers>>,
         \A d \in Clients :
           /\ \/ pc'[d] = pc[d] \/ pc'[d] \in {"closing", "gone"}
              \/ pc[d] = "none" /\ pc'[d] = "made"
           /\ loader'[d] = loader[d] \/ begun[d] = 0,
         \A g \in DOMAIN handles : handles'[g].open = handles[g].open
  PROVE  Requests' /\ Answers'
<1>1. Requests'
  <2>1. begun' \in [Clients -> Nat]
    BY DEF TypeOK
  <2>2. \A d \in Clients :
          /\ begun[d] <= begun'[d]
          /\ pc'[d] \in {"none", "made"} =>
               pc[d] \in {"none", "made"} /\ begun'[d] = begun[d]
          /\ pc'[d] = "submit" => pc[d] = "submit" /\ begun'[d] = begun[d]
    <3>1. begun' = begun
      OBVIOUS
    <3>2. \A d \in Clients : begun[d] \in Nat
      BY DEF TypeOK
    <3> QED  BY <3>1, <3>2
  <2> QED  BY <2>1, <2>2, RequestsStay DEF poolVars
<1>2. \A r \in Reads : Tracked(r)' => Tracked(r)
  BY ReadShape DEF Tracked, poolVars, Current
<1>3. ASSUME NEW r \in Reads, Tracked(r)
      PROVE  /\ NumParts(r)' = NumParts(r)
             /\ \A j : /\ HeldPart(r, j)' = HeldPart(r, j)
                       /\ Readable(r, j)' <=> Readable(r, j)
  <2>1. r[1] \in Clients /\ r[2] \in Nat \ {0} /\ r \in ReadsOf[r[1]]
    BY ReadShape
  <2>2. begun[r[1]] # 0
    <3>1. CASE part[r] # <<>>
      BY <3>1, <2>1 DEF Requests, Submitted
    <3>2. CASE pc[r[1]] = "submit" /\ r = Current(r[1])
      BY <3>2, <2>1 DEF Current
    <3> QED  BY <3>1, <3>2, <1>3 DEF Tracked
  <2>3. loader'[r[1]] = loader[r[1]]
    BY <2>1, <2>2
  <2>4. loader[r[1]] # 0 => loader[r[1]] \in DOMAIN handles
    <3>1. DOMAIN handles = 1 .. Len(handles) /\ Len(handles) \in Nat
      BY DEF TypeOK
    <3> QED  BY <2>1, <3>1 DEF TypeOK
  <2>5. Cached(r[1])' = Cached(r[1])
    BY <2>3, <2>4 DEF Cached, Cache!Enabled
  <2> QED  BY <2>5, SamePlan
<1>4. Answers'
  BY <1>2, <1>3, AnswersStay DEF poolVars
<1> QED  BY <1>1, <1>4

(* What a client is left with when another one's loader changes. *)
LEMMA LoaderOfOther ==
  ASSUME TypeOK, LoadersAreKept, NEW d \in Clients,
         UNCHANGED <<kind, begun, part, unwinding>>,
         pc'[d] = pc[d], loader'[d] = loader[d], clientRef'[d] = clientRef[d],
         d \in Owners(loader[d]) /\ loader[d] # 0 => d \in Owners(loader[d])'
  PROVE  LoaderIsKept(d)'
<1>1. TasksOf(d)' = TasksOf(d)
  BY DEF TasksOf, PartsIn, Parts
<1> QED  BY <1>1 DEF LoadersAreKept, LoaderIsKept

(* A client that was made reads without a loader's library, shares the     *)
(* handle of the path, or made one.                                        *)
LEMMA CreateAzureIInv ==
  ASSUME IInv, NEW c \in Clients, CreateAzure(c)
  PROVE  IInv'
<1>1. /\ pc[c] = "none" /\ kind = "azure" /\ begun[c] = 0 /\ loader[c] = 0
      /\ c \notin unwinding
  BY DEF CreateAzure, IInv, Requests, Submitted, Libraries, LoadersAreKept,
     LoaderIsKept
<1>2. /\ pc' = [pc EXCEPT ![c] = "made"]
      /\ clientRef' = [clientRef EXCEPT ![c] = TRUE]
      /\ UNCHANGED <<kind, chunk, poolVars, readVars, workerVars, env, libs,
                     down, unwinding, dying>>
  BY DEF CreateAzure, Made, Cache!MakeLoader
<1>3. PICK n \in Nat : n = Len(handles) /\ DOMAIN handles = 1 .. n
  BY DEF IInv, TypeOK
<1>4. /\ handles' \in Seq(HandleType) /\ shared' \in 0 .. Len(handles')
      /\ n <= Len(handles')
      /\ \A g \in 1 .. n : handles'[g].open = handles[g].open
                             /\ Owners(g) \subseteq Owners(g)'
      /\ \E h \in 0 .. Len(handles') :
           /\ loader' = [loader EXCEPT ![c] = h]
           /\ h # 0 => c \in Owners(h)'
      /\ HandlesAreOfEnv' /\ HandlesAreApart'
  <2>1. CASE UNCHANGED <<handles, shared, loader>>
    <3>1. HandlesAreOfEnv' /\ HandlesAreApart'
      BY <1>2, <2>1 DEF IInv, Libraries, HandlesAreOfEnv, HandlesAreApart,
         LiveOpen, Owners, Frozen, Cache!Loaded, Cache!LibPath
    <3>2. loader' = [loader EXCEPT ![c] = 0]
      BY <1>1, <2>1 DEF IInv, TypeOK
    <3> QED  BY <1>3, <2>1, <3>1, <3>2 DEF IInv, TypeOK, Owners
  <2>2. CASE /\ Cache!Reusable
             /\ handles' = [handles EXCEPT ![Cache!Locked].owners = @ \cup {c}]
             /\ loader' = [loader EXCEPT ![c] = Cache!Locked]
             /\ UNCHANGED shared
    <3>1. Cache!Locked # 0
      BY <2>2 DEF Cache!Reusable
    <3>2. Cache!Locked = shared /\ shared \in DOMAIN handles
      BY <3>1, LockedIsLive DEF IInv
    <3>3. /\ handles' \in Seq(HandleType) /\ Len(handles') = Len(handles)
          /\ c \in Owners(Cache!Locked)'
          /\ \A g \in DOMAIN handles : Owners(g) \subseteq Owners(g)'
          /\ HandlesAreOfEnv' /\ HandlesAreApart'
      BY <1>2, <2>2, <3>1, OwnerMore DEF IInv, Libraries
    <3>4. Cache!Locked' = Cache!Locked
      <4>1. handles'[shared].owners # {}
        <5>1. PICK h \in DOMAIN handles : h = shared
          BY <3>2
        <5>2. Owners(h) # {} /\ Owners(h) \subseteq Owners(h)'
          BY <5>1, <3>1, <3>3, LockedIsLive DEF IInv
        <5> QED  BY <5>1, <5>2 DEF Owners
      <4> QED  BY <4>1, <2>2, <3>1, <3>2 DEF Cache!Locked
    <3>5. \A g \in DOMAIN handles : handles'[g].open = handles[g].open
      <4>1. handles' =
              [handles EXCEPT ![shared].owners = Owners(shared) \cup {c}]
        BY <2>2, <3>2 DEF Owners
      <4>2. Owners(shared) \cup {c} \in SUBSET Clients
        BY <3>2, OwnersAreClients DEF IInv
      <4> QED  BY <4>1, <4>2, <3>2, OwnersChanged DEF IInv
    <3>6. c \in Owners(shared)'
      BY <2>2, <3>2, <3>3, <3>4
    <3>7. PICK h \in 1 .. n : h = shared
      BY <1>3, <3>2
    <3>8. /\ h \in 0 .. Len(handles') /\ h # 0
          /\ loader' = [loader EXCEPT ![c] = h] /\ c \in Owners(h)'
      <4>1. c \in Owners(h)'
        BY <2>2, <3>6, <3>7 DEF Owners
      <4> QED  BY <4>1, <1>3, <2>2, <3>2, <3>3, <3>7
    <3>9. shared' \in 0 .. Len(handles') /\ n <= Len(handles')
      BY <1>3, <2>2, <3>3, <3>7
    <3>10. \A g \in 1 .. n : handles'[g].open = handles[g].open
                              /\ Owners(g) \subseteq Owners(g)'
      BY <1>3, <3>3, <3>5
    <3> QED  BY <3>3, <3>8, <3>9, <3>10
  <2>3. CASE /\ env.mode # "Disabled"
             /\ ~(env.mode = "Auto" /\ Cache!LibPath = "")
             /\ Cache!LibPath # "" /\ ~Cache!Reusable
             /\ Cache!Loaded(Cache!LibPath) \/ env.mode = "Auto"
             /\ handles' = Append(handles,
                                  [path |-> Cache!LibPath,
                                   open |-> Cache!Loaded(Cache!LibPath),
                                   owners |-> {c}])
             /\ shared' = Len(handles')
             /\ loader' = [loader EXCEPT ![c] = Len(handles')]
    <3>1. PICK x : x = [path |-> Cache!LibPath,
                        open |-> Cache!Loaded(Cache!LibPath), owners |-> {c}]
      OBVIOUS
    <3>2. x \in HandleType
      <4>1. Cache!Loaded(Cache!LibPath) \in BOOLEAN
        BY DEF Cache!Loaded
      <4> QED  BY <3>1, <4>1, PathIsKnown DEF IInv, HandleType
    <3>3. handles' = Append(handles, x) /\ handles \in Seq(HandleType)
      BY <2>3, <3>1 DEF IInv, TypeOK
    <3>4. /\ handles' \in Seq(HandleType) /\ Len(handles') = n + 1
          /\ DOMAIN handles' = 1 .. n + 1 /\ handles'[n + 1] = x
          /\ \A g \in 1 .. n : handles'[g] = handles[g]
      BY <1>3, <3>2, <3>3
    <3>5. shared' = n + 1 /\ loader' = [loader EXCEPT ![c] = n + 1]
      BY <2>3, <3>4
    <3>6. /\ x.path = Cache!LibPath /\ x.owners = {c}
          /\ x.open <=> Cache!Loaded(Cache!LibPath)
      BY <3>1
    <3>7. Owners(n + 1)' = {c} /\ \A g \in 1 .. n : Owners(g)' = Owners(g)
      BY <3>4, <3>6 DEF Owners
    <3>8. Cache!LibPath' = Cache!LibPath
      BY <1>2 DEF Cache!LibPath
    <3>9. HandlesAreOfEnv'
      <4>1. ASSUME NEW h \in 1 .. n + 1
            PROVE  /\ handles'[h].open <=> Cache!Loaded(handles[h].path)'
                   /\ env # NextEnv => /\ handles'[h].path = Cache!LibPath
                                       /\ handles'[h].open \/ env.mode = "Auto"
        <5>1. CASE h = n + 1
          BY <5>1, <1>2, <2>3, <3>4, <3>6 DEF Cache!Loaded
        <5>2. CASE h # n + 1
          <6>1. h \in 1 .. n
            BY <5>2
          <6> QED  BY <6>1, <1>2, <1>3, <3>4
                   DEF IInv, Libraries, HandlesAreOfEnv, Cache!Loaded
        <5> QED  BY <5>1, <5>2
      <4> QED  BY <4>1, <1>2, <3>4, <3>8 DEF HandlesAreOfEnv
    <3>10. unwinding = {} /\ dying = {}
      BY <2>3 DEF IInv, Libraries, HandlesAreApart, Frozen
    <3>11. ASSUME NEW g \in 1 .. n, LiveOpen(g)
           PROVE  handles[g].path # Cache!LibPath
      <4>1. SUFFICES ASSUME handles[g].path = Cache!LibPath
                     PROVE  FALSE
        OBVIOUS
      <4>2. g = shared /\ handles[g].open /\ handles[g].owners # {}
        BY <1>3, <3>11, <4>1 DEF IInv, Libraries, HandlesAreApart, LiveOpen,
           Owners
      <4>3. Cache!Locked = g /\ g # 0
        BY <4>2 DEF Cache!Locked
      <4> QED  BY <4>1, <4>2, <4>3, <2>3 DEF Cache!Reusable
    <3>12. \A g \in 1 .. n : LiveOpen(g)' = LiveOpen(g)
      BY <3>4 DEF LiveOpen, Owners
    <3>13. n + 1 \notin down
      BY <1>3 DEF IInv, TypeOK
    <3>14. HandlesAreApart'
      <4>1. \A g, h \in 1 .. n + 1 :
              (/\ LiveOpen(g)' /\ handles'[g].path = handles'[h].path
               /\ LiveOpen(h)') => g = h
        <5> SUFFICES ASSUME NEW g \in 1 .. n + 1, NEW h \in 1 .. n + 1,
                            LiveOpen(g)', handles'[g].path = handles'[h].path,
                            LiveOpen(h)'
                     PROVE  g = h
          OBVIOUS
        <5>1. CASE g \in 1 .. n /\ h \in 1 .. n
          BY <5>1, <1>3, <3>4, <3>12 DEF IInv, Libraries, HandlesAreApart
        <5>2. CASE g = n + 1 /\ h \in 1 .. n
          BY <5>2, <3>4, <3>6, <3>11, <3>12
        <5>3. CASE g \in 1 .. n /\ h = n + 1
          BY <5>3, <3>4, <3>6, <3>11, <3>12
        <5> QED  BY <5>1, <5>2, <5>3
      <4>2. \A g \in 1 .. n + 1 : LiveOpen(g)' =>
              /\ handles'[g].path = Cache!LibPath => g = n + 1
              /\ g \notin down
        <5> SUFFICES ASSUME NEW g \in 1 .. n + 1, LiveOpen(g)'
                     PROVE  /\ handles'[g].path = Cache!LibPath => g = n + 1
                            /\ g \notin down
          OBVIOUS
        <5>1. CASE g \in 1 .. n
          BY <5>1, <1>3, <3>4, <3>11, <3>12
          DEF IInv, Libraries, HandlesAreApart
        <5>2. CASE g = n + 1
          BY <5>2, <3>13
        <5> QED  BY <5>1, <5>2
      <4> QED  BY <4>1, <4>2, <1>2, <3>4, <3>5, <3>8, <3>10 DEF HandlesAreApart
    <3>15. /\ n + 1 \in 0 .. Len(handles') /\ c \in Owners(n + 1)'
           /\ loader' = [loader EXCEPT ![c] = n + 1]
           /\ shared' \in 0 .. Len(handles') /\ n <= Len(handles')
      BY <3>4, <3>5, <3>7
    <3>16. \A g \in 1 .. n : handles'[g].open = handles[g].open
                              /\ Owners(g) \subseteq Owners(g)'
      BY <3>4, <3>7
    <3> QED  BY <3>4, <3>9, <3>14, <3>15, <3>16
  <2> QED  BY <2>1, <2>2, <2>3
           DEF CreateAzure, Cache!MakeLoader, Cache!NoLibrary
<1>5. PICK h \in 0 .. Len(handles') :
        loader' = [loader EXCEPT ![c] = h] /\ (h # 0 => c \in Owners(h)')
  BY <1>4
<1>6. TypeOK'
  <2>1. loader' \in [Clients -> 0 .. Len(handles')]
    BY <1>3, <1>4, <1>5 DEF IInv, TypeOK
  <2>2. DOMAIN handles \subseteq DOMAIN handles'
    <3>1. DOMAIN handles' = 1 .. Len(handles') /\ Len(handles') \in Nat
      BY <1>4
    <3> QED  BY <3>1, <1>3, <1>4
  <2>3. pc' \in [Clients -> PCs] /\ clientRef' \in [Clients -> BOOLEAN]
    BY <1>2 DEF IInv, TypeOK, PCs
  <2> QED  BY <2>1, <2>2, <2>3, <1>2, <1>4
           DEF IInv, TypeOK, poolVars, readVars, workerVars
<1>7. Requests' /\ Answers'
  <2>1. \A d \in Clients :
          /\ pc'[d] = pc[d] \/ (pc[d] = "none" /\ pc'[d] = "made")
          /\ loader'[d] = loader[d] \/ begun[d] = 0
    BY <1>1, <1>2, <1>5 DEF IInv, TypeOK
  <2> QED  BY <2>1, <1>2, <1>3, <1>4, LoaderStep
           DEF IInv, Libraries, readVars, workerVars
<1>8. LoadersAreKept'
  <2> SUFFICES ASSUME NEW d \in Clients
               PROVE  LoaderIsKept(d)'
    BY DEF LoadersAreKept
  <2>1. CASE d = c
    BY <2>1, <1>1, <1>2, <1>5 DEF IInv, TypeOK, LoaderIsKept
  <2>2. CASE d # c
    <3>1. /\ pc'[d] = pc[d] /\ loader'[d] = loader[d]
          /\ clientRef'[d] = clientRef[d]
      BY <2>2, <1>2, <1>5 DEF IInv, TypeOK
    <3>2. loader[d] # 0 => loader[d] \in 1 .. n
      BY <1>3 DEF IInv, TypeOK
    <3>3. d \in Owners(loader[d]) /\ loader[d] # 0 => d \in (Owners(loader[d]))'
      BY <3>1, <3>2, <1>4 DEF Owners
    <3> QED  BY <3>1, <3>3, <1>2, LoaderOfOther
             DEF IInv, Libraries, workerVars, poolVars
  <2> QED  BY <2>1, <2>2
<1> QED  BY <1>4, <1>6, <1>7, <1>8 DEF IInv, Libraries

(* A constructor throws.  Had the environment not changed since the handle *)
(* it locked was made, that handle would have been the one it wanted.      *)
LEMMA CreateAzureThrowsIInv ==
  ASSUME IInv, NEW c \in Clients, CreateAzureThrows(c)
  PROVE  IInv'
<1>1. /\ pc[c] = "none" /\ kind = "azure" /\ begun[c] = 0 /\ loader[c] = 0
      /\ c \notin unwinding /\ ~clientRef[c] /\ TasksOf(c) = {}
  BY NoTasksYet
  DEF CreateAzureThrows, IInv, Requests, Submitted, Libraries, LoadersAreKept,
     LoaderIsKept
<1>2. /\ pc' = [pc EXCEPT ![c] = "gone"]
      /\ UNCHANGED <<kind, chunk, poolVars, readVars, workerVars, env, libs,
                     down, dying, shared, clientRef>>
  BY DEF CreateAzureThrows, Cache!MakeLoaderThrows
<1>3. PICK n \in Nat : n = Len(handles) /\ DOMAIN handles = 1 .. n
  BY DEF IInv, TypeOK
<1>4. CASE UNCHANGED <<handles, loader, unwinding>>
  <2>1. TypeOK'
    BY <1>2, <1>4 DEF IInv, TypeOK, PCs, poolVars, readVars, workerVars
  <2>2. Requests' /\ Answers'
    BY <1>2, <1>4, LoaderStep
    DEF IInv, TypeOK, Libraries, readVars, workerVars
  <2>3. HandlesAreOfEnv' /\ HandlesAreApart'
    BY <1>2, <1>4 DEF IInv, Libraries, HandlesAreOfEnv, HandlesAreApart,
       LiveOpen, Owners, Frozen, Cache!Loaded, Cache!LibPath
  <2>4. LoadersAreKept'
    <3> SUFFICES ASSUME NEW d \in Clients
                 PROVE  LoaderIsKept(d)'
      BY DEF LoadersAreKept
    <3>1. CASE d = c
      <4>1. pc'[c] = "gone" /\ loader'[c] = 0
        BY <1>1, <1>2, <1>4 DEF IInv, TypeOK
      <4> QED  BY <3>1, <4>1, <1>1, <1>4 DEF LoaderIsKept
    <3>2. CASE d # c
      <4>1. pc'[d] = pc[d]
        BY <3>2, <1>2 DEF IInv, TypeOK
      <4> QED  BY <4>1, <1>2, <1>4, LoaderOfOther
               DEF IInv, Libraries, workerVars, poolVars, Owners
    <3> QED  BY <3>1, <3>2
  <2> QED  BY <2>1, <2>2, <2>3, <2>4 DEF IInv, Libraries
<1>5. CASE /\ env.mode = "Required" /\ Cache!LibPath # ""
           /\ ~Cache!Reusable /\ ~Cache!Loaded(Cache!LibPath)
           /\ Cache!Locked # 0
           /\ handles' = [handles EXCEPT ![Cache!Locked].owners = @ \cup {c}]
           /\ loader' = [loader EXCEPT ![c] = Cache!Locked]
           /\ unwinding' = unwinding \cup {c}
  <2>1. PICK h \in 1 .. n : h = Cache!Locked /\ h = shared
    BY <1>3, <1>5, LockedIsLive DEF IInv
  <2>2. Frozen
    BY <2>1, <1>3, <1>5 DEF IInv, Libraries, HandlesAreOfEnv, Frozen
  <2>3. handles' = [handles EXCEPT ![h].owners = Owners(h) \cup {c}]
    BY <2>1, <1>5 DEF Owners
  <2>4. Owners(h) \cup {c} \in SUBSET Clients
    BY <1>3, OwnersAreClients DEF IInv
  <2>5. /\ handles' \in Seq(HandleType) /\ Len(handles') = n
        /\ DOMAIN handles' = 1 .. n
        /\ \A g \in 1 .. n :
             /\ handles'[g].open = handles[g].open
             /\ Owners(g)' = IF g = h THEN Owners(h) \cup {c} ELSE Owners(g)
    <3>1. h \in DOMAIN handles /\ TypeOK
      BY <1>3 DEF IInv
    <3>2. PICK S \in SUBSET Clients : S = Owners(h) \cup {c}
      BY <2>4
    <3>3. handles' = [handles EXCEPT ![h].owners = S]
      BY <2>3, <3>2
    <3>4. /\ handles' \in Seq(HandleType) /\ Len(handles') = Len(handles)
          /\ DOMAIN handles' = DOMAIN handles
          /\ \A g \in DOMAIN handles :
               /\ handles'[g].open = handles[g].open
               /\ Owners(g)' = IF g = h THEN S ELSE Owners(g)
      BY <3>1, <3>3, OwnersChanged
    <3> QED  BY <1>3, <3>2, <3>4
  <2>6. HandlesAreOfEnv' /\ HandlesAreApart'
    BY <1>2, <1>5, <2>2, OwnerMore DEF IInv, Libraries
  <2>7. loader' = [loader EXCEPT ![c] = h]
    BY <1>5, <2>1
  <2>8. TypeOK'
    <3>1. loader' \in [Clients -> 0 .. n] /\ pc' \in [Clients -> PCs]
      BY <1>2, <1>3, <2>7 DEF IInv, TypeOK, PCs
    <3>2. unwinding' \subseteq Clients
      BY <1>5 DEF IInv, TypeOK
    <3> QED  BY <3>1, <3>2, <1>2, <1>3, <2>5
             DEF IInv, TypeOK, poolVars, readVars, workerVars
  <2>9. Requests' /\ Answers'
    <3>1. \A d \in Clients :
            /\ pc'[d] = pc[d] \/ pc'[d] \in {"closing", "gone"}
            /\ loader'[d] = loader[d] \/ begun[d] = 0
      BY <1>1, <1>2, <2>7 DEF IInv, TypeOK
    <3> QED  BY <3>1, <1>2, <1>3, <2>5, LoaderStep
             DEF IInv, Libraries, readVars, workerVars
  <2>10. LoadersAreKept'
    <3> SUFFICES ASSUME NEW d \in Clients
                 PROVE  LoaderIsKept(d)'
      BY DEF LoadersAreKept
    <3>1. CASE d = c
      <4>1. /\ pc'[c] = "gone" /\ loader'[c] = h /\ h # 0
            /\ begun'[c] = 0 /\ ~clientRef'[c] /\ kind' = "azure"
        BY <1>1, <1>2, <2>7 DEF IInv, TypeOK, workerVars
      <4>2. c \in (Owners(h))'
        BY <2>5
      <4>3. c \in (Owners(loader[c]))'
        BY <4>1, <4>2 DEF Owners
      <4> QED  BY <3>1, <4>1, <4>3 DEF LoaderIsKept
    <3>2. CASE d # c
      <4>1. /\ pc'[d] = pc[d] /\ loader'[d] = loader[d]
            /\ d \in unwinding' => d \in unwinding
        <5>1. pc'[d] = pc[d]
          BY <3>2, <1>2 DEF IInv, TypeOK
        <5>2. loader'[d] = loader[d]
          BY <3>2, <2>7 DEF IInv, TypeOK
        <5>3. d \in unwinding' => d \in unwinding
          BY <3>2, <1>5
        <5> QED  BY <5>1, <5>2, <5>3
      <4>2. loader[d] # 0 => loader[d] \in 1 .. n
        BY <1>3 DEF IInv, TypeOK
      <4>3. d \in Owners(loader[d]) /\ loader[d] # 0
              => d \in (Owners(loader[d]))'
        BY <4>1, <4>2, <2>5 DEF Owners
      <4>4. TasksOf(d)' = TasksOf(d)
        BY <1>2 DEF TasksOf, PartsIn, Parts, poolVars
      <4> QED  BY <4>1, <4>3, <4>4, <1>2
               DEF IInv, Libraries, LoadersAreKept, LoaderIsKept, workerVars
    <3> QED  BY <3>1, <3>2
  <2> QED  BY <2>6, <2>8, <2>9, <2>10 DEF IInv, Libraries
<1>6. UNCHANGED <<handles, loader, unwinding>> \/
      (/\ env.mode = "Required" /\ Cache!LibPath # ""
       /\ ~Cache!Reusable /\ ~Cache!Loaded(Cache!LibPath)
       /\ Cache!Locked # 0
       /\ handles' = [handles EXCEPT ![Cache!Locked].owners = @ \cup {c}]
       /\ loader' = [loader EXCEPT ![c] = Cache!Locked]
       /\ unwinding' = unwinding \cup {c})
  BY DEF CreateAzureThrows, Cache!MakeLoaderThrows
<1> QED  BY <1>4, <1>5, <1>6

(* Steps that take an owner from a handle, and move no client. *)
LEMMA OwnerGoes ==
  ASSUME IInv, NEW c \in Clients, NEW h \in DOMAIN handles, h = loader[c],
         ~clientRef[c], TasksOf(c) = {}, c \notin unwinding',
         unwinding' \subseteq unwinding,
         unwinding \subseteq unwinding' \cup {c},
         handles' = [handles EXCEPT ![h].owners = @ \ {c}],
         UNCHANGED <<kind, pc, chunk, poolVars, readVars, workerVars, env, libs,
                     shared, loader, clientRef>>,
         \/ UNCHANGED <<down, dying>>
         \/ Owners(h) = {c} /\ UNCHANGED dying /\ Cache!ShutDown(h)
         \/ /\ Owners(h) = {c} /\ UNCHANGED down
            /\ Frozen /\ dying' = dying \cup {h}
  PROVE  IInv'
<1>1. /\ handles' \in Seq(HandleType) /\ Len(handles') = Len(handles)
      /\ DOMAIN handles' = DOMAIN handles
      /\ down' \subseteq DOMAIN handles /\ dying' \subseteq DOMAIN handles
      /\ \A g \in DOMAIN handles : Owners(g) \ {c} \subseteq Owners(g)'
      /\ HandlesAreOfEnv' /\ HandlesAreApart'
  BY OwnerLess DEF IInv, Libraries
<1>2. TypeOK'
  BY <1>1 DEF IInv, TypeOK, poolVars, readVars, workerVars
<1>3. \A g \in DOMAIN handles : handles'[g].open = handles[g].open
  <2>1. handles' = [handles EXCEPT ![h].owners = Owners(h) \ {c}]
    BY DEF Owners
  <2>2. Owners(h) \ {c} \in SUBSET Clients
    BY OwnersAreClients DEF IInv
  <2> QED  BY <2>1, <2>2, OwnersChanged DEF IInv
<1>4. Requests' /\ Answers'
  BY <1>3, LoaderStep DEF IInv, Libraries, readVars, workerVars
<1>5. LoadersAreKept'
  <2> SUFFICES ASSUME NEW d \in Clients
               PROVE  LoaderIsKept(d)'
    BY DEF LoadersAreKept
  <2>1. TasksOf(d)' = TasksOf(d)
    BY DEF TasksOf, PartsIn, Parts, poolVars
  <2>2. LoaderIsKept(d)
    BY DEF IInv, Libraries, LoadersAreKept
  <2>3. begun' = begun
    BY DEF workerVars
  <2>4. CASE d = c
    BY <2>1, <2>2, <2>3, <2>4 DEF LoaderIsKept
  <2>5. CASE d # c
    <3>1. (d \in unwinding') = (d \in unwinding)
      BY <2>5
    <3>2. loader[d] # 0 => loader[d] \in DOMAIN handles
      BY DEF IInv, TypeOK
    <3>3. d \in Owners(loader[d]) /\ loader[d] # 0
            => d \in (Owners(loader[d]))'
      BY <2>5, <3>2, <1>1 DEF Owners
    <3> QED  BY <2>1, <2>2, <2>3, <3>1, <3>3 DEF LoaderIsKept
  <2> QED  BY <2>4, <2>5
<1> QED  BY <1>1, <1>2, <1>4, <1>5 DEF IInv, Libraries

(* The last reference to a loader goes: no task has it. *)
LEMMA DestroyLoaderIInv ==
  ASSUME IInv, NEW c \in Clients, DestroyLoader(c)
  PROVE  IInv'
<1>1. loader[c] \in DOMAIN handles
  BY DEF DestroyLoader, Cache!DestroyLoader, IInv, TypeOK
<1>2. handles[loader[c]].owners = Owners(loader[c])
  BY DEF Owners
<1> QED  BY <1>1, <1>2, OwnerGoes DEF DestroyLoader, Cache!DestroyLoader

(* A constructor that threw lets go of the handle it had locked. *)
LEMMA UnwindIInv ==
  ASSUME IInv, Cache!Unwind,
         UNCHANGED <<kind, pc, chunk, poolVars, readVars, workerVars>>
  PROVE  IInv'
<1>1. PICK c \in unwinding :
        /\ unwinding' = unwinding \ {c}
        /\ handles' = [handles EXCEPT ![loader[c]].owners = @ \ {c}]
        /\ dying' = IF handles[loader[c]].owners = {c}
                    THEN dying \cup {loader[c]} ELSE dying
        /\ UNCHANGED <<env, libs, shared, loader, clientRef, down>>
  BY DEF Cache!Unwind
<1>2. c \in Clients /\ loader[c] # 0 /\ ~clientRef[c] /\ begun[c] = 0 /\ Frozen
  BY DEF IInv, TypeOK, Libraries, LoadersAreKept, LoaderIsKept, HandlesAreApart
<1>3. TasksOf(c) = {}
  BY <1>2, NoTasksYet DEF IInv
<1>4. loader[c] \in DOMAIN handles
  BY <1>2 DEF IInv, TypeOK
<1> QED  BY <1>1, <1>2, <1>3, <1>4, OwnerGoes DEF Owners

(* The environment changes while no constructor that threw is unwinding;   *)
(* whatever handle is for the new path was for the old one.                *)
LEMMA ChangeEnvIInv ==
  ASSUME IInv, Cache!ChangeEnv,
         UNCHANGED <<kind, pc, chunk, poolVars, readVars, workerVars>>
  PROVE  IInv'
<1>1. /\ env # NextEnv /\ env' = NextEnv
      /\ UNCHANGED <<libs, handles, shared, loader, clientRef, down, unwinding,
                     dying>>
  BY DEF Cache!ChangeEnv
<1>2. TypeOK'
  BY <1>1 DEF IInv, TypeOK, Envs, poolVars, readVars, workerVars
<1>3. Requests' /\ Answers'
  BY <1>1, LoaderStep DEF IInv, Libraries, readVars, workerVars
<1>4. LoadersAreKept'
  <2>1. \A d : TasksOf(d)' = TasksOf(d)
    BY DEF TasksOf, PartsIn, Parts, poolVars
  <2>2. begun' = begun
    BY DEF workerVars
  <2> QED  BY <1>1, <2>1, <2>2
           DEF IInv, Libraries, LoadersAreKept, LoaderIsKept, Owners
<1>5. \A h \in DOMAIN handles :
        Cache!Loaded(handles[h].path)' <=> Cache!Loaded(handles[h].path)
  BY <1>1 DEF Cache!Loaded
<1>6. HandlesAreOfEnv'
  BY <1>1, <1>5 DEF IInv, Libraries, HandlesAreOfEnv
<1>7. \A g \in DOMAIN handles : handles[g].path = Cache!LibPath
  BY <1>1 DEF IInv, Libraries, HandlesAreOfEnv
<1>8. unwinding = {} /\ dying = {}
  BY <1>1 DEF IInv, Libraries, HandlesAreApart, Frozen
<1>9. \A g : LiveOpen(g)' = LiveOpen(g)
  BY <1>1 DEF LiveOpen, Owners
<1>10. HandlesAreApart'
  BY <1>1, <1>7, <1>8, <1>9 DEF IInv, Libraries, HandlesAreApart
<1> QED  BY <1>2, <1>3, <1>4, <1>6, <1>10 DEF IInv, Libraries

(* A handle without owner shuts its library down: no other handle of that  *)
(* library is in use.                                                      *)
LEMMA ShutdownIInv ==
  ASSUME IInv, Cache!Shutdown,
         UNCHANGED <<kind, pc, chunk, poolVars, readVars, workerVars>>
  PROVE  IInv'
<1>1. PICK h \in dying :
        /\ dying' = dying \ {h}
        /\ Cache!ShutDown(h)
        /\ UNCHANGED <<env, libs, handles, shared, loader, clientRef,
                       unwinding>>
  BY DEF Cache!Shutdown
<1>2. down' \subseteq
        down \cup {g \in DOMAIN handles : handles[g].path = handles[h].path}
  BY <1>1 DEF Cache!ShutDown
<1>3. h \in DOMAIN handles /\ down' \subseteq DOMAIN handles
  BY <1>2 DEF IInv, TypeOK
<1>4. TypeOK'
  BY <1>1, <1>3 DEF IInv, TypeOK, poolVars, readVars, workerVars
<1>5. Requests' /\ Answers'
  BY <1>1, LoaderStep DEF IInv, Libraries, readVars, workerVars
<1>6. LoadersAreKept'
  <2>1. \A d : TasksOf(d)' = TasksOf(d)
    BY DEF TasksOf, PartsIn, Parts, poolVars
  <2>2. begun' = begun
    BY DEF workerVars
  <2> QED  BY <1>1, <2>1, <2>2
           DEF IInv, Libraries, LoadersAreKept, LoaderIsKept, Owners
<1>7. /\ HandlesAreOfEnv'
      /\ Cache!LibPath' = Cache!LibPath /\ Frozen' = Frozen
  BY <1>1, HandlesStay DEF IInv, Libraries
<1>8. \A g : LiveOpen(g)' = LiveOpen(g)
  BY <1>1 DEF LiveOpen, Owners
<1>9. \A g \in DOMAIN handles : LiveOpen(g) => g \notin down'
  BY <1>2, <1>3 DEF IInv, Libraries, HandlesAreApart
<1>10. HandlesAreApart'
  BY <1>1, <1>7, <1>8, <1>9 DEF IInv, Libraries, HandlesAreApart
<1> QED  BY <1>4, <1>5, <1>6, <1>7, <1>10 DEF IInv, Libraries

-----------------------------------------------------------------------------
(* Steps of clients *)

(* Steps that move no part, no loader and no counter. *)
LEMMA QuietIInv ==
  ASSUME IInv, NEW c \in Clients,
         \/ Create(c) \/ ReadWindow(c) \/ EndRead(c) \/ WaitOne(c)
         \/ WaitMany(c) \/ WaitFinished(c) \/ StopFlag(c) \/ StopResponder(c)
  PROVE  IInv'
<1>1. TypeOK'
  BY WorkerTypeOK, OwnerTypeOK DEF IInv
<1>2. UNCHANGED <<kind, chunk, nextPart, poolVars, counter, isSuccess, answers,
                  cacheVars>>
  BY DEF Create, Made, ReadWindow, EndRead, WaitOne, WaitMany, WaitFinished,
     Pop, StopFlag, StopResponder, workerVars, readVars
<1>3. /\ pc' \in [Clients -> PCs] /\ begun' \in [Clients -> Nat]
      /\ pc \in [Clients -> PCs] /\ begun \in [Clients -> Nat]
  BY <1>1 DEF IInv, TypeOK
<1>4. \A d \in Clients :
        /\ begun[d] <= begun'[d] \/ begun'[d] = NumReads(d)
        /\ pc'[d] \in {"none", "made"} =>
             pc[d] \in {"none", "made"} /\ begun'[d] = begun[d]
        /\ pc'[d] = "submit" => pc[d] = "submit" /\ begun'[d] = begun[d]
        /\ pc[d] = "gone" => pc'[d] = "gone" /\ begun'[d] = begun[d]
        /\ pc'[d] = "none" => pc[d] = "none"
        /\ kind = "azure" /\ pc'[d] \in {"made", "idle", "submit", "wait"}
             => pc[d] \in {"made", "idle", "submit", "wait"}
  <2>1. CASE Create(c) \/ ReadWindow(c) \/ EndRead(c) \/ StopFlag(c)
               \/ StopResponder(c)
    <3>1. begun' = begun
      BY <2>1 DEF Create, Made, ReadWindow, EndRead, StopFlag, StopResponder,
         workerVars
    <3>2. \/ kind # "azure" /\ pc[c] = "none" /\ pc' = [pc EXCEPT ![c] = "made"]
          \/ pc[c] \in {"made", "submit"} /\ pc' = [pc EXCEPT ![c] = "idle"]
          \/ pc' = pc
      BY <2>1 DEF Create, Made, ReadWindow, EndRead, StopFlag, StopResponder
    <3> QED  BY <3>1, <3>2, <1>3
  <2>2. CASE WaitOne(c) \/ WaitMany(c) \/ WaitFinished(c)
    <3>1. /\ pc[c] \in {"idle", "wait"}
          /\ \E x \in {"idle", "wait"} : pc' = [pc EXCEPT ![c] = x]
      BY <2>2, <1>3 DEF WaitOne, WaitMany, WaitFinished, Pop, Waiting
    <3>2. \/ begun' = begun
          \/ begun' = [begun EXCEPT ![c] = NumReads(c)]
      BY <2>2 DEF WaitOne, WaitMany, WaitFinished, Pop
    <3> QED  BY <3>1, <3>2, <1>3
  <2> QED  BY <2>1, <2>2
<1>5. Requests'
  BY <1>2, <1>3, <1>4, RequestsStay DEF IInv, poolVars
<1>6. Answers'
  <2>1. \A r \in Reads : Tracked(r)' => Tracked(r)
    BY <1>2, <1>4, ReadShape DEF Tracked, Current, poolVars
  <2>2. \A r \in Reads : Cached(r[1])' = Cached(r[1])
    BY <1>2, SameCache DEF cacheVars
  <2> QED  BY <2>1, <2>2, <1>2, SamePlan, AnswersStay DEF IInv, poolVars
<1>7. Libraries'
  <2>1. \A d \in Clients : TasksOf(d)' = TasksOf(d)
    BY <1>2 DEF TasksOf, PartsIn, Parts, poolVars
  <2> QED  BY <2>1, <1>2, <1>3, <1>4, LibrariesStay DEF IInv
<1> QED  BY <1>1, <1>5, <1>6, <1>7 DEF IInv

(* Close lets go of the loader; tasks in the pool may still have it. *)
LEMMA CloseIInv ==
  ASSUME IInv, NEW c \in Clients, Close(c)
  PROVE  IInv'
<1>1. TypeOK'
  BY OwnerTypeOK DEF IInv
<1>2. /\ pc[c] = "idle" /\ pc' = [pc EXCEPT ![c] = "closing"]
      /\ clientRef' = [clientRef EXCEPT ![c] = FALSE]
      /\ UNCHANGED <<kind, chunk, poolVars, readVars, workerVars, env, libs,
                     handles, shared, loader, down, unwinding, dying>>
  BY DEF Close
<1>3. Requests' /\ Answers'
  BY <1>2, LoaderStep DEF IInv, TypeOK, Libraries, readVars, workerVars
<1>4. LoadersAreKept'
  <2> SUFFICES ASSUME NEW d \in Clients
               PROVE  LoaderIsKept(d)'
    BY DEF LoadersAreKept
  <2>1. TasksOf(d)' = TasksOf(d)
    BY <1>2 DEF TasksOf, PartsIn, Parts, poolVars
  <2>2. LoaderIsKept(d)
    BY DEF IInv, Libraries, LoadersAreKept
  <2>3. begun' = begun
    BY <1>2 DEF workerVars
  <2>4. CASE d = c
    <3>1. pc'[c] = "closing" /\ clientRef'[c] = FALSE
      BY <1>2 DEF IInv, TypeOK
    <3> QED  BY <2>1, <2>2, <2>4, <3>1, <1>2 DEF LoaderIsKept, Owners
  <2>5. CASE d # c
    <3>1. pc'[d] = pc[d] /\ clientRef'[d] = clientRef[d]
      BY <2>5, <1>2 DEF IInv, TypeOK
    <3> QED  BY <2>1, <2>2, <2>3, <3>1, <1>2 DEF LoaderIsKept, Owners
  <2> QED  BY <2>4, <2>5
<1>5. HandlesAreOfEnv' /\ HandlesAreApart'
  BY <1>2 DEF IInv, Libraries, HandlesAreOfEnv, HandlesAreApart,
     LiveOpen, Owners, Frozen, Cache!Loaded, Cache!LibPath
<1> QED  BY <1>1, <1>3, <1>4, <1>5 DEF IInv, Libraries

(* Join drops the parts that no thread has taken: they have not ended. *)
LEMMA JoinIInv ==
  ASSUME IInv, NEW c \in Clients, Join(c)
  PROVE  IInv'
<1>1. TypeOK'
  BY OwnerTypeOK DEF IInv
<1>2. /\ pc[c] = "closing" /\ pc' = [pc EXCEPT ![c] = "gone"]
      /\ queue' = [queue EXCEPT ![c] = <<>>]
      /\ UNCHANGED <<kind, chunk, arrived, readVars, workerVars, cacheVars>>
  BY DEF Join
<1>3. \A r \in Reads :
        /\ Parts(r)' = Parts(r) /\ Len(part'[r]) = Len(part[r])
        /\ part'[r] = <<>> <=> part[r] = <<>>
        /\ \A i \in Parts(r) :
             \/ part'[r][i] = part[r][i]
             \/ part[r][i] = "queued" /\ part'[r][i] = "dropped" /\ r[1] = c
        /\ r[1] # c => part'[r] = part[r]
  <2> SUFFICES ASSUME NEW r \in Reads
               PROVE  /\ Parts(r)' = Parts(r) /\ Len(part'[r]) = Len(part[r])
                      /\ part'[r] = <<>> <=> part[r] = <<>>
                      /\ \A i \in Parts(r) :
                           \/ part'[r][i] = part[r][i]
                           \/ /\ part[r][i] = "queued"
                              /\ part'[r][i] = "dropped" /\ r[1] = c
                      /\ r[1] # c => part'[r] = part[r]
    OBVIOUS
  <2>1. part[r] \in Seq(PartStates) /\ part'[r] \in Seq(PartStates)
    BY <1>1 DEF IInv, TypeOK
  <2>2. CASE r[1] # c
    BY <2>2 DEF Join, Parts
  <2>3. CASE r[1] = c
    <3>1. part'[r] = [i \in Parts(r) |-> IF part[r][i] = "queued" THEN "dropped"
                                         ELSE part[r][i]]
      BY <2>3 DEF Join
    <3>2. Parts(r)' = Parts(r)
      BY <3>1 DEF Parts
    <3>3. Len(part'[r]) = Len(part[r])
      BY <2>1, <3>2 DEF Parts
    <3>4. part'[r] = <<>> <=> part[r] = <<>>
      BY <2>1, <3>2 DEF Parts
    <3> QED  BY <2>3, <3>1, <3>2, <3>3, <3>4
  <2> QED  BY <2>2, <2>3
<1>4. pc' \in [Clients -> PCs] /\ pc \in [Clients -> PCs]
        /\ begun' = begun /\ nextPart' = nextPart
  BY <1>1, <1>2 DEF IInv, TypeOK, workerVars
<1>5. Submitted'
  <2> SUFFICES ASSUME NEW d \in Clients
               PROVE  /\ pc'[d] \in {"none", "made"} => begun[d] = 0
                      /\ \A r \in ReadsOf[d] :
                           r[2] > begun[d] => part'[r] = <<>>
                      /\ pc'[d] = "submit" =>
                           /\ Current(d) \in Reads
                           /\ nextPart[d] = Len(part'[Current(d)]) + 1
    BY <1>4 DEF Submitted, Current
  <2>1. pc'[d] \in {"none", "made"} => begun[d] = 0
    BY <1>2, <1>4 DEF IInv, Requests, Submitted
  <2>2. \A r \in ReadsOf[d] : r[2] > begun[d] => part'[r] = <<>>
    BY <1>3 DEF IInv, Requests, Submitted, ReadsOf
  <2>3. pc'[d] = "submit" =>
          Current(d) \in Reads /\ nextPart[d] = Len(part'[Current(d)]) + 1
    BY <1>2, <1>3, <1>4 DEF IInv, Requests, Submitted
  <2> QED  BY <2>1, <2>2, <2>3
<1>6. QueueIsRight'
  <2> SUFFICES ASSUME NEW d \in Clients
               PROVE  /\ \A k \in DOMAIN queue'[d] :
                           /\ queue'[d][k][1] \in ReadsOf[d]
                           /\ queue'[d][k][2] \in DOMAIN part'[queue'[d][k][1]]
                           /\ part'[queue'[d][k][1]][queue'[d][k][2]] = "queued"
                      /\ \A k, l \in DOMAIN queue'[d] :
                           queue'[d][k] = queue'[d][l] => k = l
    BY DEF QueueIsRight, Parts
  <2>1. CASE d = c
    <3>1. queue'[c] = <<>>
      BY <1>2 DEF IInv, TypeOK
    <3> QED  BY <2>1, <3>1
  <2>2. CASE d # c
    <3>1. queue'[d] = queue[d]
      BY <2>2, <1>2 DEF IInv, TypeOK
    <3>2. \A r \in ReadsOf[d] : r \in Reads /\ part'[r] = part[r]
      BY <2>2, <1>3 DEF ReadsOf
    <3>3. \A k \in DOMAIN queue[d] :
            /\ queue[d][k][1] \in ReadsOf[d]
            /\ queue[d][k][2] \in DOMAIN part[queue[d][k][1]]
            /\ part[queue[d][k][1]][queue[d][k][2]] = "queued"
      BY DEF IInv, Requests, QueueIsRight, Parts
    <3>4. \A k, l \in DOMAIN queue[d] : queue[d][k] = queue[d][l] => k = l
      BY DEF IInv, Requests, QueueIsRight
    <3> QED  BY <3>1, <3>2, <3>3, <3>4
  <2> QED  BY <2>1, <2>2
<1>7. \A r \in Reads : Tracked(r)' => Tracked(r)
  BY <1>2, <1>3, <1>4, ReadShape DEF Tracked, Current
<1>8. \A r \in Reads : /\ NumParts(r)' = NumParts(r)
                       /\ \A j : /\ HeldPart(r, j)' = HeldPart(r, j)
                                 /\ Readable(r, j)' <=> Readable(r, j)
  BY <1>2, SameCache, SamePlan DEF IInv, cacheVars
<1>9. \A r \in Reads : \A i \in Parts(r) :
        /\ part'[r][i] \in Landed <=> part[r][i] \in Landed
        /\ part'[r][i] \in Landed => part'[r][i] = part[r][i]
  BY <1>3 DEF Landed, Codes
<1>10. CounterIsRight'
  <2> SUFFICES ASSUME NEW r \in Reads
               PROVE  /\ Tracked(r)' =>
                           /\ Len(part'[r]) <= NumParts(r)
                           /\ \E R \in SUBSET (1 .. NumParts(r)) :
                                HaveBeenRead(r, R)'
                      /\ part'[r] = <<>> =>
                           arrived[r] = {} /\ answers[r] = <<>> /\ isSuccess[r]
    BY <1>2, <1>8 DEF CounterIsRight, readVars
  <2>1. ASSUME NEW R \in SUBSET (1 .. NumParts(r)), HaveBeenRead(r, R)
        PROVE  HaveBeenRead(r, R)'
    BY <2>1, <1>2, <1>3, <1>8, <1>9 DEF HaveBeenRead, readVars
  <2> QED  BY <2>1, <1>3, <1>7 DEF IInv, Answers, CounterIsRight
<1>11. AnswersAreRight'
  <2>1. \A r \in Reads : \A i \in Parts(r) :
          part'[r][i] \in Codes \cup {"ending", "done"} \/
          part[r][i] \in Codes \cup {"ending", "done"}
            => part'[r][i] = part[r][i]
    BY <1>3 DEF Codes
  <2> QED  BY <2>1, <1>2, <1>3
           DEF IInv, Answers, AnswersAreRight, Explained, readVars
<1>12. Libraries'
  <2>1. \A d \in Clients : TasksOf(d)' # {} => TasksOf(d) # {}
    <3> SUFFICES ASSUME NEW d \in Clients, TasksOf(d)' # {}
                 PROVE  TasksOf(d) # {}
      OBVIOUS
    <3>0. PICK r \in ReadsOf[d] : \E i \in Parts(r)' : part'[r][i] \in HasTask
      BY TasksMovedAreParts
    <3>1. PICK i \in Parts(r)' : part'[r][i] \in HasTask
      BY <3>0
    <3>2. r \in Reads /\ i \in Parts(r)
      BY <3>1, <1>3 DEF ReadsOf
    <3>3. part[r][i] \in HasTask
      BY <3>1, <3>2, <1>3 DEF HasTask
    <3> QED  BY <3>1, <3>2, <3>3, TasksAreParts
  <2> QED  BY <2>1, <1>2, <1>4, LibrariesStay DEF IInv, TypeOK
<1> QED  BY <1>1, <1>5, <1>6, <1>10, <1>11, <1>12
         DEF IInv, Requests, Answers

-----------------------------------------------------------------------------
(* Steps of reads *)

(* A new read has no part yet, and all of them to come. *)
LEMMA BeginReadIInv ==
  ASSUME IInv, NEW c \in Clients, BeginRead(c)
  PROVE  IInv'
<1>1. TypeOK'
  BY WorkerTypeOK DEF IInv
<1>2. PICK r : r = <<c, begun[c] + 1>>
  OBVIOUS
<1>3. /\ pc[c] = "idle" /\ pc' = [pc EXCEPT ![c] = "submit"]
      /\ begun' = [begun EXCEPT ![c] = begun[c] + 1]
      /\ nextPart' = [nextPart EXCEPT ![c] = 1]
      /\ counter' = [counter EXCEPT ![r] = NumParts(r)]
      /\ UNCHANGED <<kind, chunk, part, queue, arrived, isSuccess, answers,
                     cacheVars>>
  BY <1>2 DEF BeginRead, poolVars
<1>4. /\ begun[c] \in Nat /\ r[1] = c /\ r[2] = begun[c] + 1
      /\ r \in Reads /\ r \in ReadsOf[c]
  <2>1. begun[c] \in Nat
    BY DEF IInv, TypeOK
  <2>2. begun[c] + 1 \in 1 .. NumReads(c)
    <3>1. PICK t \in Nat \ {0} : t = TaskBytes[c]
      BY PluginClientAssumption DEF PluginClientAssumption
    <3>2. t + WorkerChunk - 1 \in Nat /\ WorkerChunk \in Nat \ {0}
      BY PluginClientAssumption DEF PluginClientAssumption
    <3>3. NumReads(c) \in Nat
      BY <3>1, <3>2, Quotient DEF NumReads
    <3> QED  BY <2>1, <3>3 DEF BeginRead
  <2> QED  BY <2>1, <2>2, <1>2 DEF Reads, ReadsOf
<1>5. part[r] = <<>> /\ answers[r] = <<>> /\ arrived[r] = {} /\ isSuccess[r]
  <2>1. part[r] = <<>>
    BY <1>4 DEF IInv, Requests, Submitted
  <2> QED  BY <2>1, <1>4 DEF IInv, Answers, CounterIsRight
<1>6. \A d \in Clients :
        /\ pc'[d] = IF d = c THEN "submit" ELSE pc[d]
        /\ begun'[d] = IF d = c THEN begun[c] + 1 ELSE begun[d]
        /\ nextPart'[d] = IF d = c THEN 1 ELSE nextPart[d]
  BY <1>3 DEF IInv, TypeOK
<1>7. Current(c)' = r /\ \A d \in Clients \ {c} : Current(d)' = Current(d)
  BY <1>2, <1>6 DEF Current
<1>8. Submitted'
  <2> SUFFICES ASSUME NEW d \in Clients
               PROVE  /\ pc'[d] \in {"none", "made"} => begun'[d] = 0
                      /\ \A s \in ReadsOf[d] :
                           s[2] > begun'[d] => part[s] = <<>>
                      /\ pc'[d] = "submit" =>
                           /\ Current(d)' \in Reads
                           /\ nextPart'[d] = Len(part[Current(d)']) + 1
    BY <1>3 DEF Submitted
  <2>1. CASE d = c
    <3>1. \A s \in ReadsOf[c] : s[2] > begun'[c] => part[s] = <<>>
      <4>1. \A s \in ReadsOf[c] : s[2] \in Nat
        BY ReadShape DEF ReadsOf
      <4> QED  BY <4>1, <1>4, <1>6 DEF IInv, Requests, Submitted
    <3>2. Len(part[r]) = 0
      BY <1>5
    <3> QED  BY <2>1, <3>1, <3>2, <1>4, <1>6, <1>7
  <2>2. CASE d # c
    BY <2>2, <1>6, <1>7 DEF IInv, Requests, Submitted
  <2> QED  BY <2>1, <2>2
<1>9. QueueIsRight'
  BY <1>3 DEF IInv, Requests, QueueIsRight, Parts
<1>10. \A s \in Reads \ {r} :
         counter'[s] = counter[s] /\ (Tracked(s)' => Tracked(s))
  <2> SUFFICES ASSUME NEW s \in Reads \ {r}
               PROVE  counter'[s] = counter[s] /\ (Tracked(s)' => Tracked(s))
    OBVIOUS
  <2>1. counter'[s] = counter[s]
    BY <1>3 DEF IInv, TypeOK
  <2>2. s[1] \in Clients
    BY ReadShape
  <2> QED  BY <2>1, <2>2, <1>3, <1>6, <1>7 DEF Tracked
<1>11. \A s \in Reads : /\ NumParts(s)' = NumParts(s)
                        /\ \A j : /\ HeldPart(s, j)' = HeldPart(s, j)
                                  /\ Readable(s, j)' <=> Readable(s, j)
  BY <1>3, SameCache, SamePlan DEF IInv, cacheVars
<1>12. CounterIsRight'
  <2> SUFFICES ASSUME NEW s \in Reads
               PROVE  /\ Tracked(s)' =>
                           /\ Len(part[s]) <= NumParts(s)
                           /\ \E R \in SUBSET (1 .. NumParts(s)) :
                                HaveBeenRead(s, R)'
                      /\ part[s] = <<>> =>
                           arrived[s] = {} /\ answers[s] = <<>> /\ isSuccess[s]
    BY <1>3, <1>11 DEF CounterIsRight
  <2>1. CASE s = r
    <3>1. NumParts(r) \in Nat \ {0} /\ Len(part[r]) = 0
      BY <1>4, <1>5, PartsShape DEF IInv
    <3>2. counter'[r] = NumParts(r) /\ Cardinality({}) = 0
      BY <1>3, <1>4, FS_EmptySet DEF IInv, TypeOK
    <3>3. NumParts(r)' = NumParts(r)
      BY <1>4, <1>11
    <3>4. counter'[r] = NumParts(r)' - Cardinality({})
      BY <3>1, <3>2, <3>3
    <3>5. arrived'[r] = UNION {HeldPart(r, j)' : j \in {}}
      BY <1>3, <1>5
    <3>6. isSuccess'[r]
      BY <1>3, <1>5
    <3>7. HaveBeenRead(r, {})'
      BY <3>4, <3>5, <3>6 DEF HaveBeenRead
    <3>8. {} \in SUBSET (1 .. NumParts(r))
      OBVIOUS
    <3> QED  BY <2>1, <3>1, <3>7, <3>8, <1>5
  <2>2. CASE s # r
    <3>1. ASSUME NEW R \in SUBSET (1 .. NumParts(s)), HaveBeenRead(s, R)
          PROVE  HaveBeenRead(s, R)'
      BY <2>2, <3>1, <1>3, <1>10, <1>11 DEF HaveBeenRead, Parts
    <3> QED  BY <2>2, <3>1, <1>10 DEF IInv, Answers, CounterIsRight
  <2> QED  BY <2>1, <2>2
<1>13. AnswersAreRight'
  <2> SUFFICES ASSUME NEW s \in Reads
               PROVE  /\ Len(answers[s]) <= 1
                      /\ \A n \in DOMAIN answers[s] :
                           Explained(s, answers[s][n])'
                      /\ answers[s] # <<>> =>
                           \E i \in Parts(s) : part[s][i] \in {"ending", "done"}
                      /\ \A i \in Parts(s) : part[s][i] \in Codes =>
                           /\ Explained(s, part[s][i])'
                           /\ answers[s] = <<>>
                           /\ \A j \in Parts(s) : part[s][j] \in Codes => i = j
    BY <1>3 DEF AnswersAreRight, Parts, Explained
  <2>1. CASE s = r
    BY <2>1, <1>5 DEF Parts
  <2>2. CASE s # r
    BY <2>2, <1>3, <1>10 DEF IInv, Answers, AnswersAreRight, Explained
  <2> QED  BY <2>1, <2>2
<1>14. Libraries'
  <2>1. \A d \in Clients : TasksOf(d)' = TasksOf(d)
    BY <1>3 DEF TasksOf, PartsIn, Parts
  <2>2. begun' \in [Clients -> Nat]
    BY <1>1 DEF TypeOK
  <2> QED  BY <2>1, <2>2, <1>3, <1>6, LibrariesStay DEF IInv
<1> QED  BY <1>1, <1>8, <1>9, <1>12, <1>13, <1>14 DEF IInv, Requests, Answers

(* The next part goes to the pool, or to the SDK at once. *)
LEMMA SubmitPartIInv ==
  ASSUME IInv, NEW c \in Clients, SubmitPart(c)
  PROVE  IInv'
<1>1. TypeOK'
  BY SubmitTypeOK DEF IInv
<1>2. PICK r \in Reads : r = Current(c)
  BY DEF SubmitPart, IInv, Requests, Submitted
<1>3. PICK n \in Nat : n = Len(part[r]) /\ Parts(r) = 1 .. n
  BY DEF IInv, TypeOK, Parts
<1>4. /\ pc[c] = "submit" /\ nextPart[c] = n + 1 /\ n + 1 <= NumParts(r)
      /\ nextPart' = [nextPart EXCEPT ![c] = n + 2]
      /\ UNCHANGED <<kind, pc, chunk, begun, counter, isSuccess, arrived,
                     answers, cacheVars>>
  <2>1. pc[c] = "submit" /\ nextPart[c] <= NumParts(r)
    BY <1>2 DEF SubmitPart
  <2>2. nextPart[c] = n + 1
    BY <2>1, <1>2, <1>3 DEF IInv, Requests, Submitted
  <2>3. nextPart' = [nextPart EXCEPT ![c] = nextPart[c] + 1]
    BY DEF SubmitPart
  <2>4. (n + 1) + 1 = n + 2
    OBVIOUS
  <2>5. UNCHANGED <<kind, pc, chunk, begun, counter, isSuccess, arrived,
                    answers, cacheVars>>
    BY DEF SubmitPart, readVars
  <2>6. nextPart' = [nextPart EXCEPT ![c] = n + 2]
    BY <2>2, <2>3, <2>4
  <2> QED  BY <2>1, <2>2, <2>5, <2>6
<1>5. PICK v \in {"running", "queued"} :
        /\ part' = [part EXCEPT ![r] = Append(part[r], v)]
        /\ v = "queued" =>
             queue' = [queue EXCEPT ![c] = Append(queue[c], <<r, n + 1>>)]
        /\ v = "running" => queue' = queue
  BY <1>2, <1>4 DEF SubmitPart
<1>6. r[1] = c /\ r[2] = begun[c] /\ r \in ReadsOf[c] /\ begun[c] \in Nat
  BY <1>2 DEF Current, ReadsOf, IInv, TypeOK
<1>7. /\ Parts(r)' = 1 .. n + 1 /\ Len(part'[r]) = n + 1
      /\ part'[r][n + 1] = v /\ \A j \in 1 .. n : part'[r][j] = part[r][j]
      /\ part'[r] # <<>>
      /\ \A s \in Reads \ {r} : part'[s] = part[s] /\ Parts(s)' = Parts(s)
  <2>1. part[r] \in Seq(PartStates) /\ v \in PartStates
    BY DEF IInv, TypeOK, PartStates
  <2>2. part'[r] = Append(part[r], v)
    BY <1>5 DEF IInv, TypeOK
  <2>3. /\ DOMAIN part'[r] = 1 .. n + 1 /\ Len(part'[r]) = n + 1
        /\ part'[r][n + 1] = v /\ \A j \in 1 .. n : part'[r][j] = part[r][j]
    BY <2>1, <2>2, <1>3
  <2>4. part'[r] # <<>>
    BY <2>3
  <2>5. \A s \in Reads \ {r} : part'[s] = part[s] /\ Parts(s)' = Parts(s)
    BY <1>5 DEF IInv, TypeOK, Parts
  <2> QED  BY <2>3, <2>4, <2>5 DEF Parts
<1>8. Submitted'
  <2> SUFFICES ASSUME NEW d \in Clients
               PROVE  /\ pc[d] \in {"none", "made"} => begun[d] = 0
                      /\ \A s \in ReadsOf[d] :
                           s[2] > begun[d] => part'[s] = <<>>
                      /\ pc[d] = "submit" =>
                           /\ Current(d) \in Reads
                           /\ nextPart'[d] = Len(part'[Current(d)]) + 1
    BY <1>4 DEF Submitted, Current
  <2>1. \A s \in ReadsOf[d] : s[2] > begun[d] => s \in Reads \ {r}
    BY <1>6 DEF ReadsOf
  <2>2. CASE d = c
    <3>1. nextPart'[c] = n + 2
      BY <1>4 DEF IInv, TypeOK
    <3> QED  BY <2>1, <2>2, <3>1, <1>2, <1>4, <1>7 DEF IInv, Requests, Submitted
  <2>3. CASE d # c
    <3>1. nextPart'[d] = nextPart[d]
      BY <2>3, <1>4 DEF IInv, TypeOK
    <3>2. Current(d) # r
      BY <2>3, <1>6 DEF Current
    <3> QED  BY <2>1, <3>1, <3>2, <1>7 DEF IInv, Requests, Submitted
  <2> QED  BY <2>2, <2>3
<1>9. \A s \in Reads : \A j \in Parts(s) :
        j \in Parts(s)' /\ part'[s][j] = part[s][j] /\ <<s, j>> # <<r, n + 1>>
  BY <1>3, <1>7
<1>10. QueueIsRight'
  <2> SUFFICES ASSUME NEW d \in Clients
               PROVE  /\ \A k \in DOMAIN queue'[d] :
                           /\ queue'[d][k][1] \in ReadsOf[d]
                           /\ queue'[d][k][2] \in DOMAIN part'[queue'[d][k][1]]
                           /\ part'[queue'[d][k][1]][queue'[d][k][2]] = "queued"
                      /\ \A k, l \in DOMAIN queue'[d] :
                           queue'[d][k] = queue'[d][l] => k = l
    BY DEF QueueIsRight, Parts
  <2>1. /\ \A k \in DOMAIN queue[d] :
             /\ queue[d][k][1] \in ReadsOf[d]
             /\ queue[d][k][2] \in DOMAIN part'[queue[d][k][1]]
             /\ part'[queue[d][k][1]][queue[d][k][2]] = "queued"
             /\ queue[d][k] # <<r, n + 1>>
        /\ \A k, l \in DOMAIN queue[d] : queue[d][k] = queue[d][l] => k = l
    <3>1. \A s \in ReadsOf[d] : s \in Reads
      BY DEF ReadsOf
    <3>2. ASSUME NEW k \in DOMAIN queue[d]
          PROVE  /\ queue[d][k][1] \in ReadsOf[d]
                 /\ queue[d][k][2] \in Parts(queue[d][k][1])
                 /\ part[queue[d][k][1]][queue[d][k][2]] = "queued"
      BY DEF IInv, Requests, QueueIsRight
    <3>3. ASSUME NEW k \in DOMAIN queue[d]
          PROVE  /\ queue[d][k][2] \in DOMAIN part'[queue[d][k][1]]
                 /\ part'[queue[d][k][1]][queue[d][k][2]] = "queued"
                 /\ queue[d][k] # <<r, n + 1>>
      <4>1. PICK s \in Reads : s = queue[d][k][1]
        BY <3>1, <3>2
      <4>2. PICK j \in Parts(s) : j = queue[d][k][2]
        BY <3>2, <4>1
      <4>3. /\ j \in DOMAIN part'[s] /\ part'[s][j] = part[s][j]
            /\ <<s, j>> # <<r, n + 1>>
        BY <1>9 DEF Parts
      <4> QED  BY <3>2, <4>1, <4>2, <4>3
    <3> QED  BY <3>2, <3>3 DEF IInv, Requests, QueueIsRight
  <2>2. CASE queue'[d] = queue[d]
    BY <2>1, <2>2
  <2>3. CASE d = c /\ v = "queued"
    <3>1. queue[c] \in Seq(Reads \X Nat)
      BY DEF IInv, TypeOK
    <3>2. PICK m \in Nat : m = Len(queue[c]) /\ DOMAIN queue[c] = 1 .. m
      BY <3>1
    <3>3. queue'[c] = Append(queue[c], <<r, n + 1>>)
      BY <2>3, <1>5 DEF IInv, TypeOK
    <3>4. /\ DOMAIN queue'[c] = 1 .. m + 1 /\ queue'[c][m + 1] = <<r, n + 1>>
          /\ \A k \in 1 .. m : queue'[c][k] = queue[c][k]
      BY <3>1, <3>2, <3>3
    <3>5. \A k \in 1 .. m + 1 : k \in 1 .. m \/ k = m + 1
      BY <3>2
    <3>6. /\ queue'[c][m + 1][1] \in ReadsOf[c]
          /\ queue'[c][m + 1][2] \in DOMAIN part'[queue'[c][m + 1][1]]
          /\ part'[queue'[c][m + 1][1]][queue'[c][m + 1][2]] = "queued"
      BY <2>3, <3>4, <1>3, <1>6, <1>7 DEF Parts
    <3>7. ASSUME NEW k \in 1 .. m + 1
          PROVE  /\ queue'[c][k][1] \in ReadsOf[c]
                 /\ queue'[c][k][2] \in DOMAIN part'[queue'[c][k][1]]
                 /\ part'[queue'[c][k][1]][queue'[c][k][2]] = "queued"
      BY <2>1, <2>3, <3>2, <3>4, <3>5, <3>6
    <3>8. ASSUME NEW k \in 1 .. m + 1, NEW l \in 1 .. m + 1,
                 queue'[c][k] = queue'[c][l]
          PROVE  k = l
      <4>1. CASE k \in 1 .. m /\ l \in 1 .. m
        BY <4>1, <2>1, <2>3, <3>2, <3>4, <3>8
      <4>2. CASE k \in 1 .. m /\ l = m + 1
        BY <4>2, <2>1, <2>3, <3>2, <3>4, <3>8
      <4>3. CASE k = m + 1 /\ l \in 1 .. m
        <5>1. queue[c][l] = <<r, n + 1>>
          BY <4>3, <3>4, <3>8
        <5> QED  BY <4>3, <5>1, <2>1, <2>3, <3>2
      <4> QED  BY <4>1, <4>2, <4>3, <3>5
    <3> QED  BY <2>3, <3>4, <3>7, <3>8
  <2> QED  BY <2>2, <2>3, <1>5 DEF IInv, TypeOK
<1>11. \A s \in Reads : /\ NumParts(s)' = NumParts(s)
                        /\ \A j : /\ HeldPart(s, j)' = HeldPart(s, j)
                                  /\ Readable(s, j)' <=> Readable(s, j)
  BY <1>4, SameCache, SamePlan DEF IInv, cacheVars
<1>12. CounterIsRight'
  <2> SUFFICES ASSUME NEW s \in Reads
               PROVE  /\ Tracked(s)' =>
                           /\ Len(part'[s]) <= NumParts(s)
                           /\ \E R \in SUBSET (1 .. NumParts(s)) :
                                HaveBeenRead(s, R)'
                      /\ part'[s] = <<>> =>
                           arrived[s] = {} /\ answers[s] = <<>> /\ isSuccess[s]
    BY <1>4, <1>11 DEF CounterIsRight
  <2>1. ASSUME NEW R \in SUBSET (1 .. NumParts(s)), HaveBeenRead(s, R)
        PROVE  HaveBeenRead(s, R)'
    BY <2>1, <1>4, <1>9, <1>11 DEF HaveBeenRead
  <2>2. CASE s = r
    <3>1. Tracked(r)
      BY <1>2, <1>4, <1>6 DEF Tracked
    <3> QED  BY <2>1, <2>2, <3>1, <1>4, <1>7 DEF IInv, Answers, CounterIsRight
  <2>3. CASE s # r
    <3>1. Tracked(s)' => Tracked(s)
      BY <2>3, <1>4, <1>7 DEF Tracked, Current
    <3> QED  BY <2>1, <2>3, <3>1, <1>7 DEF IInv, Answers, CounterIsRight
  <2> QED  BY <2>2, <2>3
<1>13. AnswersAreRight'
  <2>1. \A s \in Reads : \A j \in Parts(s)' :
          j \in Parts(s) \/ part'[s][j] \notin Codes
    BY <1>3, <1>7 DEF Codes
  <2> QED  BY <2>1, <1>4, <1>9 DEF IInv, Answers, AnswersAreRight, Explained
<1>14. Libraries'
  <2>1. ASSUME NEW d \in Clients \ {c}
        PROVE  TasksOf(d)' = TasksOf(d)
    <3>1. \A s \in ReadsOf[d] : s \in Reads \ {r}
      BY <1>6 DEF ReadsOf
    <3> QED  BY <3>1, <1>7 DEF TasksOf, PartsIn
  <2>2. clientRef[c] \/ kind # "azure"
    BY <1>4 DEF IInv, Libraries, LoadersAreKept, LoaderIsKept
  <2> QED  BY <2>1, <2>2, <1>4, LibrariesStay DEF IInv, TypeOK
<1> QED  BY <1>1, <1>8, <1>10, <1>12, <1>13, <1>14 DEF IInv, Requests, Answers


-----------------------------------------------------------------------------
(* Steps of parts *)

(* The parts of a read stay as long as the plugin, the chunk sizes and the *)
(* cache do.                                                               *)
LEMMA PlanStays ==
  ASSUME TypeOK, UNCHANGED <<kind, chunk, cacheVars>>
  PROVE  \A s \in Reads : /\ NumParts(s)' = NumParts(s)
                          /\ \A j : /\ HeldPart(s, j)' = HeldPart(s, j)
                                    /\ Readable(s, j)' <=> Readable(s, j)
  BY SameCache, SamePlan DEF cacheVars

(* A part that moves disturbs no order of submission, *)
LEMMA MovedSubmitted ==
  ASSUME IInv, NEW r \in Reads, NEW i \in Parts(r), NEW v \in PartStates,
         part' = [part EXCEPT ![r][i] = v],
         UNCHANGED <<pc, begun, nextPart>>
  PROVE  Submitted'
<1>1. \A s \in Reads : Len(part'[s]) = Len(part[s])
                         /\ (part'[s] = <<>> <=> part[s] = <<>>)
  BY PartMoved DEF IInv
<1>2. \A c \in Clients : \A s \in ReadsOf[c] : s \in Reads
  BY DEF ReadsOf
<1>3. \A c \in Clients : Current(c)' = Current(c)
  BY DEF Current
<1> SUFFICES ASSUME NEW c \in Clients
             PROVE  /\ pc[c] \in {"none", "made"} => begun[c] = 0
                    /\ \A s \in ReadsOf[c] :
                         s[2] > begun[c] => part'[s] = <<>>
                    /\ pc[c] = "submit" =>
                         /\ Current(c) \in Reads
                         /\ nextPart[c] = Len(part'[Current(c)]) + 1
  BY <1>3 DEF Submitted
<1> QED  BY <1>1, <1>2 DEF IInv, Requests, Submitted

(* nor, unless it waited for a thread, the queue, *)
LEMMA MovedQueue ==
  ASSUME IInv, NEW r \in Reads, NEW i \in Parts(r), NEW v \in PartStates,
         part' = [part EXCEPT ![r][i] = v], part[r][i] # "queued",
         queue' = queue
  PROVE  QueueIsRight'
<1>1. \A s \in Reads : Parts(s)' = Parts(s)
  BY PartMoved DEF IInv
<1>2. \A s \in Reads : \A j \in Parts(s) :
        part[s][j] = "queued" => part'[s][j] = "queued"
  BY PartMoved DEF IInv
<1> SUFFICES ASSUME NEW c \in Clients
             PROVE  /\ \A k \in DOMAIN queue[c] :
                         /\ queue[c][k][1] \in ReadsOf[c]
                         /\ queue[c][k][2] \in DOMAIN part'[queue[c][k][1]]
                         /\ part'[queue[c][k][1]][queue[c][k][2]] = "queued"
                    /\ \A k, l \in DOMAIN queue[c] :
                         queue[c][k] = queue[c][l] => k = l
  BY DEF QueueIsRight, Parts
<1>3. ASSUME NEW k \in DOMAIN queue[c]
      PROVE  /\ queue[c][k][1] \in ReadsOf[c]
             /\ queue[c][k][2] \in DOMAIN part'[queue[c][k][1]]
             /\ part'[queue[c][k][1]][queue[c][k][2]] = "queued"
  <2>1. /\ queue[c][k][1] \in ReadsOf[c]
        /\ queue[c][k][2] \in Parts(queue[c][k][1])
        /\ part[queue[c][k][1]][queue[c][k][2]] = "queued"
    BY DEF IInv, Requests, QueueIsRight
  <2>2. PICK s \in Reads : s = queue[c][k][1]
    BY <2>1 DEF ReadsOf
  <2>3. PICK j \in Parts(s) : j = queue[c][k][2]
    BY <2>1, <2>2
  <2>4. j \in DOMAIN part'[s] /\ part'[s][j] = "queued"
    BY <2>1, <2>2, <2>3, <1>1, <1>2 DEF Parts
  <2> QED  BY <2>1, <2>2, <2>3, <2>4
<1> QED  BY <1>3 DEF IInv, Requests, QueueIsRight

(* nor, since it had a task, the loader its client refers to, *)
LEMMA MovedLibraries ==
  ASSUME IInv, NEW r \in Reads, NEW i \in Parts(r), NEW v \in PartStates,
         part' = [part EXCEPT ![r][i] = v], part[r][i] \in HasTask,
         UNCHANGED <<kind, pc, begun, cacheVars>>
  PROVE  Libraries'
<1>1. TypeOK
  BY DEF IInv
<1>2. /\ \A s \in Reads : Parts(s)' = Parts(s)
      /\ \A s \in Reads : \A j \in Parts(s) :
           (s = r /\ j = i) \/ part'[s][j] = part[s][j]
  <2>1. \A s \in Reads : Parts(s)' = Parts(s)
    BY <1>1, PartMoved
  <2> SUFFICES ASSUME NEW s \in Reads, NEW j \in Parts(s),
                      <<s, j>> # <<r, i>>
               PROVE  part'[s][j] = part[s][j]
    BY <2>1
  <2> QED  BY <1>1, PartMoved
<1>3. \A c \in Clients : TasksOf(c)' # {} => TasksOf(c) # {}
  <2> SUFFICES ASSUME NEW c \in Clients, TasksOf(c)' # {}
               PROVE  TasksOf(c) # {}
    OBVIOUS
  <2>1. PICK s \in ReadsOf[c] : \E j \in Parts(s)' : part'[s][j] \in HasTask
    BY TasksMovedAreParts
  <2>2. PICK j \in Parts(s)' : part'[s][j] \in HasTask
    BY <2>1
  <2>3. s \in Reads /\ j \in Parts(s)
    BY <2>2, <1>2 DEF ReadsOf
  <2>4. part[s][j] \in HasTask
    BY <2>2, <2>3, <1>2
  <2> QED  BY <2>3, <2>4, TasksAreParts
<1>4. begun' \in [Clients -> Nat]
  BY <1>1 DEF TypeOK
<1> QED  BY <1>3, <1>4, LibrariesStay DEF IInv

(* nor, unless it takes back that it landed, what was read of a range.     *)
LEMMA MovedRead ==
  ASSUME IInv, NEW r \in Reads, NEW i \in Parts(r), NEW v \in PartStates,
         part' = [part EXCEPT ![r][i] = v],
         part[r][i] \in Landed => v \in Landed,
         UNCHANGED <<kind, chunk, cacheVars>>,
         NEW s \in Reads, counter'[s] = counter[s], arrived'[s] = arrived[s],
         isSuccess'[s] = isSuccess[s],
         NEW R \in SUBSET (1 .. NumParts(s)), HaveBeenRead(s, R)
  PROVE  HaveBeenRead(s, R)'
<1>1. /\ NumParts(s)' = NumParts(s)
      /\ \A j : /\ HeldPart(s, j)' = HeldPart(s, j)
                /\ Readable(s, j)' <=> Readable(s, j)
  BY PlanStays DEF IInv
<1>2. /\ Parts(s)' = Parts(s)
      /\ \A j \in Parts(s) : part[s][j] \in Landed => part'[s][j] \in Landed
  <2>1. Parts(s)' = Parts(s)
    BY PartMoved DEF IInv
  <2>2. ASSUME NEW j \in Parts(s), <<s, j>> # <<r, i>>
        PROVE  part'[s][j] = part[s][j]
    BY <2>2, PartMoved DEF IInv
  <2>3. part'[r][i] = v
    <3>1. part \in [Reads -> Seq(PartStates)]
      BY DEF IInv, TypeOK
    <3> QED  BY <3>1 DEF Parts
  <2> QED  BY <2>1, <2>2, <2>3
<1>3. UNION {HeldPart(s, j)' : j \in R} = UNION {HeldPart(s, j) : j \in R}
  BY <1>1
<1>4. \A j \in R : j \in Parts(s) /\ part'[s][j] \in Landed /\ Readable(s, j)'
  BY <1>1, <1>2 DEF HaveBeenRead
<1>5. ~isSuccess[s] => \E j \in Parts(s) \ R : part'[s][j] \in Landed
  BY <1>2 DEF HaveBeenRead
<1>6. counter'[s] = NumParts(s)' - Cardinality(R)
        /\ arrived'[s] = UNION {HeldPart(s, j)' : j \in R}
  BY <1>1, <1>3 DEF HaveBeenRead
<1> QED  BY <1>2, <1>4, <1>5, <1>6 DEF HaveBeenRead

(* Reads that a step of a part of r does not touch. *)
LEMMA OtherReads ==
  ASSUME IInv, NEW r \in Reads, NEW i \in Parts(r), NEW v \in PartStates,
         part' = [part EXCEPT ![r][i] = v],
         UNCHANGED <<kind, pc, begun, chunk, cacheVars>>,
         \A s \in Reads \ {r} :
           /\ counter'[s] = counter[s] /\ arrived'[s] = arrived[s]
           /\ isSuccess'[s] = isSuccess[s] /\ answers'[s] = answers[s],
         \E R \in SUBSET (1 .. NumParts(r)) : HaveBeenRead(r, R)',
         /\ Len(answers'[r]) <= 1
         /\ \A n \in DOMAIN answers'[r] : Explained(r, answers[r][n])'
         /\ answers'[r] # <<>> =>
              \E k \in Parts(r) : part'[r][k] \in {"ending", "done"}
         /\ \A k \in Parts(r) : part'[r][k] \in Codes =>
              /\ Explained(r, part[r][k])'
              /\ answers'[r] = <<>>
              /\ \A j \in Parts(r) : part'[r][j] \in Codes => k = j
  PROVE  Answers'
<1>1. /\ \A s \in Reads : /\ Parts(s)' = Parts(s)
                          /\ Len(part'[s]) = Len(part[s])
                          /\ part'[s] = <<>> <=> part[s] = <<>>
      /\ \A s \in Reads \ {r} : \A j \in Parts(s) : part'[s][j] = part[s][j]
  BY PartMoved DEF IInv
<1>2. \A s \in Reads : NumParts(s)' = NumParts(s)
  BY PlanStays DEF IInv
<1>3. \A s \in Reads : Tracked(s)' => Tracked(s)
  BY <1>1 DEF Tracked, Current
<1>4. ASSUME NEW s \in Reads \ {r}, NEW R \in SUBSET (1 .. NumParts(s)),
             HaveBeenRead(s, R)
      PROVE  HaveBeenRead(s, R)'
  <2>1. /\ \A j : /\ HeldPart(s, j)' = HeldPart(s, j)
                  /\ Readable(s, j)' <=> Readable(s, j)
        /\ NumParts(s)' = NumParts(s)
    BY PlanStays DEF IInv
  <2>2. UNION {HeldPart(s, j)' : j \in R} = UNION {HeldPart(s, j) : j \in R}
    BY <2>1
  <2>3. \A j \in R :
          j \in Parts(s)' /\ part'[s][j] \in Landed /\ Readable(s, j)'
    BY <2>1, <1>1, <1>4 DEF HaveBeenRead
  <2>4. ~isSuccess'[s] => \E j \in Parts(s)' \ R : part'[s][j] \in Landed
    BY <1>1, <1>4 DEF HaveBeenRead
  <2>5. /\ counter'[s] = NumParts(s)' - Cardinality(R)
        /\ arrived'[s] = UNION {HeldPart(s, j)' : j \in R}
    BY <1>4, <2>1, <2>2 DEF HaveBeenRead
  <2> QED  BY <2>3, <2>4, <2>5 DEF HaveBeenRead
<1>5. CounterIsRight'
  <2> SUFFICES ASSUME NEW s \in Reads
               PROVE  /\ Tracked(s)' =>
                           /\ Len(part'[s]) <= NumParts(s)
                           /\ \E R \in SUBSET (1 .. NumParts(s)) :
                                HaveBeenRead(s, R)'
                      /\ part'[s] = <<>> =>
                           /\ arrived'[s] = {} /\ answers'[s] = <<>>
                           /\ isSuccess'[s]
    BY <1>2 DEF CounterIsRight
  <2>1. CASE s = r
    <3>1. part[r] # <<>> /\ Tracked(r)
      BY DEF Parts, Tracked
    <3>2. Len(part[r]) <= NumParts(r)
      BY <3>1 DEF IInv, Answers, CounterIsRight
    <3> QED  BY <2>1, <3>1, <3>2, <1>1
  <2>2. CASE s # r
    <3>1. Tracked(s)' =>
            /\ Len(part'[s]) <= NumParts(s)
            /\ \E R \in SUBSET (1 .. NumParts(s)) : HaveBeenRead(s, R)
      BY <1>1, <1>3 DEF IInv, Answers, CounterIsRight
    <3>2. part'[s] = <<>> =>
            arrived'[s] = {} /\ answers'[s] = <<>> /\ isSuccess'[s]
      BY <2>2, <1>1 DEF IInv, Answers, CounterIsRight
    <3> QED  BY <2>2, <3>1, <3>2, <1>4
  <2> QED  BY <2>1, <2>2
<1>6. AnswersAreRight'
  <2> SUFFICES ASSUME NEW s \in Reads
               PROVE  /\ Len(answers'[s]) <= 1
                      /\ \A n \in DOMAIN answers'[s] :
                           Explained(s, answers[s][n])'
                      /\ answers'[s] # <<>> =>
                           \E k \in Parts(s) :
                             part'[s][k] \in {"ending", "done"}
                      /\ \A k \in Parts(s) : part'[s][k] \in Codes =>
                           /\ Explained(s, part[s][k])'
                           /\ answers'[s] = <<>>
                           /\ \A j \in Parts(s) : part'[s][j] \in Codes => k = j
    <3>1. \A s \in Reads : Parts(s)' = Parts(s)
      BY <1>1
    <3> QED  BY <3>1 DEF AnswersAreRight
  <2>1. CASE s = r
    BY <2>1
  <2>2. CASE s # r
    <3>1. answers'[s] = answers[s]
            /\ \A j \in Parts(s) : part'[s][j] = part[s][j]
      BY <2>2, <1>1
    <3>2. counter'[s] = counter[s] /\ isSuccess'[s] = isSuccess[s]
      BY <2>2
    <3> QED  BY <3>1, <3>2 DEF IInv, Answers, AnswersAreRight, Explained
  <2> QED  BY <2>1, <2>2
<1> QED  BY <1>5, <1>6 DEF Answers

(* Of the parts of r, only i moves. *)
LEMMA MovedHere ==
  ASSUME TypeOK, NEW r \in Reads, NEW i \in Parts(r), NEW v,
         part' = [part EXCEPT ![r][i] = v]
  PROVE  /\ part'[r][i] = v
         /\ \A j \in Parts(r) \ {i} : part'[r][j] = part[r][j]
<1>1. part \in [Reads -> Seq(PartStates)]
  BY DEF TypeOK
<1>2. part'[r] = [part[r] EXCEPT ![i] = v]
  BY <1>1
<1> QED  BY <1>2 DEF Parts

(* A part that is under way is still counted; if it is the last that is,   *)
(* no part of its read failed.                                             *)
LEMMA RunningCounts ==
  ASSUME IInv, NEW r \in Reads, NEW i \in Parts(r), part[r][i] = "running"
  PROVE  /\ counter[r] \in Nat \ {0}
         /\ counter[r] = 1 => isSuccess[r]
         /\ \E R \in SUBSET (1 .. NumParts(r)) :
              /\ HaveBeenRead(r, R) /\ i \notin R
              /\ R \cup {i} \in SUBSET (1 .. NumParts(r))
              /\ Cardinality(R) \in Nat
              /\ Cardinality(R \cup {i}) = Cardinality(R) + 1
<1>1. Tracked(r) /\ "running" \notin Landed
  BY DEF Tracked, Parts, Landed, Codes
<1>2. Len(part[r]) <= NumParts(r)
  BY <1>1 DEF IInv, Answers, CounterIsRight
<1>3. PICK R \in SUBSET (1 .. NumParts(r)) : HaveBeenRead(r, R)
  BY <1>1 DEF IInv, Answers, CounterIsRight
<1>4. PICK N \in Nat \ {0} : N = NumParts(r)
  BY PartsShape DEF IInv
<1>5. Parts(r) \subseteq 1 .. N
  <2>1. part[r] \in Seq(PartStates)
    BY DEF IInv, TypeOK
  <2>2. Parts(r) = 1 .. Len(part[r]) /\ Len(part[r]) \in Nat
    BY <2>1 DEF Parts
  <2> QED  BY <2>2, <1>2, <1>4
<1>6. i \notin R
  BY <1>1, <1>3 DEF HaveBeenRead
<1>7. IsFiniteSet(1 .. N) /\ Cardinality(1 .. N) = N
  BY FS_Interval
<1>8. IsFiniteSet(R) /\ Cardinality(R) \in Nat
  BY <1>3, <1>4, <1>7, FS_Subset, FS_CardinalityType
<1>9. ASSUME NEW S \in SUBSET (1 .. N)
      PROVE  IsFiniteSet(S) /\ Cardinality(S) \in Nat /\ Cardinality(S) <= N
  BY <1>7, FS_Subset, FS_CardinalityType
<1>10. R \cup {i} \in SUBSET (1 .. N)
  BY <1>3, <1>4, <1>5
<1>11. Cardinality(R \cup {i}) = Cardinality(R) + 1
  BY <1>6, <1>8, FS_AddElement
<1>12. counter[r] = N - Cardinality(R)
  BY <1>3, <1>4 DEF HaveBeenRead
<1>13. counter[r] \in Nat \ {0}
  BY <1>8, <1>9, <1>10, <1>11, <1>12
<1>14. counter[r] = 1 => isSuccess[r]
  <2> SUFFICES ASSUME counter[r] = 1, ~isSuccess[r]
               PROVE  FALSE
    OBVIOUS
  <2>1. PICK j \in Parts(r) \ R : part[r][j] \in Landed
    BY <1>3 DEF HaveBeenRead
  <2>2. j # i
    BY <2>1, <1>1
  <2>3. (R \cup {i}) \cup {j} \in SUBSET (1 .. N)
    BY <1>5, <1>10, <2>1
  <2>4. Cardinality((R \cup {i}) \cup {j}) = Cardinality(R \cup {i}) + 1
    BY <1>9, <1>10, <2>1, <2>2, FS_AddElement
  <2>5. Cardinality((R \cup {i}) \cup {j}) <= N
    BY <1>9, <2>3
  <2> QED  BY <1>8, <1>11, <1>12, <2>4, <2>5
<1> QED  BY <1>3, <1>4, <1>6, <1>8, <1>10, <1>11, <1>13, <1>14

(* While a part is under way and none failed, nothing has been answered.   *)
LEMMA NoAnswerYet ==
  ASSUME IInv, NEW r \in Reads, NEW i \in Parts(r), part[r][i] = "running",
         isSuccess[r]
  PROVE  answers[r] = <<>> /\ \A j \in Parts(r) : part[r][j] \notin Codes
<1>1. counter[r] # 0
  BY RunningCounts
<1>2. \A code : ~Explained(r, code)
  BY <1>1 DEF Explained
<1>3. DOMAIN answers[r] = {}
  BY <1>2 DEF IInv, Answers, AnswersAreRight
<1>4. answers[r] = <<>>
  <2>1. answers[r] \in Seq(Codes)
    BY DEF IInv, TypeOK
  <2>2. SUFFICES ASSUME answers[r] # <<>>
                 PROVE  FALSE
    OBVIOUS
  <2>3. 1 \in DOMAIN answers[r]
    BY <2>1, <2>2
  <2> QED  BY <2>3, <1>3
<1>5. \A j \in Parts(r) : part[r][j] \notin Codes
  BY <1>2 DEF IInv, Answers, AnswersAreRight
<1> QED  BY <1>4, <1>5

(* Steps of a part that neither read nor answer. *)
LEMMA MovedQuiet ==
  ASSUME IInv, NEW r \in Reads, NEW i \in Parts(r), NEW v \in PartStates,
         part' = [part EXCEPT ![r][i] = v],
         \/ part[r][i] = "queued" /\ v = "running"
         \/ part[r][i] = "ending" /\ v = "done",
         UNCHANGED <<kind, pc, begun, chunk, arrived, counter, isSuccess,
                     answers, cacheVars>>
  PROVE  Answers'
<1>1. /\ part'[r][i] = v
      /\ \A j \in Parts(r) \ {i} : part'[r][j] = part[r][j]
  BY MovedHere DEF IInv
<1>2. \E R \in SUBSET (1 .. NumParts(r)) : HaveBeenRead(r, R)'
  <2>1. Tracked(r)
    BY DEF Tracked, Parts
  <2>2. PICK R \in SUBSET (1 .. NumParts(r)) : HaveBeenRead(r, R)
    BY <2>1 DEF IInv, Answers, CounterIsRight
  <2>3. part[r][i] \in Landed => v \in Landed
    BY DEF Landed, Codes
  <2>4. HaveBeenRead(r, R)'
    BY <2>2, <2>3, MovedRead
  <2> QED  BY <2>4
<1>3. \A code : Explained(r, code)' <=> Explained(r, code)
  BY DEF Explained
<1>4. \A k \in Parts(r) : part'[r][k] \in Codes => part'[r][k] = part[r][k]
  BY <1>1 DEF Codes
<1>5. \A k \in Parts(r) : part[r][k] \in {"ending", "done"} =>
        part'[r][k] \in {"ending", "done"}
  BY <1>1
<1>6. /\ Len(answers'[r]) <= 1
      /\ answers'[r] # <<>> =>
           \E k \in Parts(r) : part'[r][k] \in {"ending", "done"}
  BY <1>5 DEF IInv, Answers, AnswersAreRight
<1>7. \A n \in DOMAIN answers'[r] : Explained(r, answers[r][n])'
  <2>1. \A n \in DOMAIN answers[r] : Explained(r, answers[r][n])
    BY DEF IInv, Answers, AnswersAreRight
  <2> QED  BY <2>1 DEF Explained
<1>8. ASSUME NEW k \in Parts(r), part'[r][k] \in Codes
      PROVE  /\ Explained(r, part[r][k])'
             /\ answers'[r] = <<>>
             /\ \A j \in Parts(r) : part'[r][j] \in Codes => k = j
  <2>1. part'[r][k] = part[r][k]
    BY <1>4, <1>8
  <2>2. /\ Explained(r, part[r][k]) /\ answers[r] = <<>>
        /\ \A j \in Parts(r) : part[r][j] \in Codes => k = j
    BY <1>8, <2>1 DEF IInv, Answers, AnswersAreRight
  <2>3. Explained(r, part[r][k])'
    BY <2>1, <2>2 DEF Explained
  <2> QED  BY <2>2, <2>3, <1>4
<1>9. \A s \in Reads \ {r} :
        /\ counter'[s] = counter[s] /\ arrived'[s] = arrived[s]
        /\ isSuccess'[s] = isSuccess[s] /\ answers'[s] = answers[s]
  OBVIOUS
<1> QED  BY <1>2, <1>6, <1>7, <1>8, <1>9, OtherReads

(* A thread takes the first part that waits. *)
LEMMA StartPartIInv ==
  ASSUME IInv, NEW c \in Clients, StartPart(c)
  PROVE  IInv'
<1>1. TypeOK'
  BY StartTypeOK DEF IInv
<1>2. queue[c] # <<>> /\ queue[c] \in Seq(Reads \X Nat)
  BY DEF StartPart, IInv, TypeOK
<1>3. PICK m \in Nat : m = Len(queue[c]) /\ DOMAIN queue[c] = 1 .. m /\ m >= 1
  BY <1>2
<1>4. PICK r : r = queue[c][1][1]
  OBVIOUS
<1>5. PICK i : i = queue[c][1][2]
  OBVIOUS
<1>6. r \in ReadsOf[c] /\ i \in Parts(r) /\ part[r][i] = "queued"
  BY <1>3, <1>4, <1>5 DEF IInv, Requests, QueueIsRight
<1>7. r \in Reads
  BY <1>6 DEF ReadsOf
<1>8. /\ part' = [part EXCEPT ![r][i] = "running"]
      /\ queue' = [queue EXCEPT ![c] = Tail(queue[c])]
      /\ UNCHANGED <<kind, pc, chunk, begun, nextPart, arrived, counter,
                     isSuccess, answers, cacheVars>>
  <2>1. Head(queue[c]) = queue[c][1]
    BY <1>2
  <2> QED  BY <2>1, <1>4, <1>5 DEF StartPart, readVars, workerVars
<1>9. Submitted'
  BY <1>6, <1>7, <1>8, MovedSubmitted DEF PartStates
<1>10. Libraries'
  BY <1>6, <1>7, <1>8, MovedLibraries DEF PartStates, HasTask
<1>11. Answers'
  BY <1>6, <1>7, <1>8, MovedQuiet DEF PartStates
<1>12. /\ \A s \in Reads : Parts(s)' = Parts(s)
       /\ \A s \in Reads \ {r} : \A j \in Parts(s) : part'[s][j] = part[s][j]
       /\ \A j \in Parts(r) \ {i} : part'[r][j] = part[r][j]
  <2>1. "running" \in PartStates /\ TypeOK
    BY DEF PartStates, IInv
  <2>2. \A s \in Reads : Parts(s)' = Parts(s)
    BY <2>1, <1>6, <1>7, <1>8, PartMoved
  <2>3. \A s \in Reads \ {r} : part'[s] = part[s]
    BY <2>1, <1>8 DEF TypeOK
  <2>4. \A j \in Parts(r) \ {i} : part'[r][j] = part[r][j]
    BY <2>1, <1>6, <1>7, <1>8, MovedHere
  <2> QED  BY <2>2, <2>3, <2>4
<1>13. QueueIsRight'
  <2> SUFFICES ASSUME NEW d \in Clients
               PROVE  /\ \A k \in DOMAIN queue'[d] :
                           /\ queue'[d][k][1] \in ReadsOf[d]
                           /\ queue'[d][k][2] \in DOMAIN part'[queue'[d][k][1]]
                           /\ part'[queue'[d][k][1]][queue'[d][k][2]] = "queued"
                      /\ \A k, l \in DOMAIN queue'[d] :
                           queue'[d][k] = queue'[d][l] => k = l
    BY DEF QueueIsRight, Parts
  <2>1. ASSUME NEW k \in DOMAIN queue[d], d # c \/ k # 1
        PROVE  /\ queue[d][k][1] \in ReadsOf[d]
               /\ queue[d][k][2] \in DOMAIN part'[queue[d][k][1]]
               /\ part'[queue[d][k][1]][queue[d][k][2]] = "queued"
    <3>1. /\ queue[d][k][1] \in ReadsOf[d]
          /\ queue[d][k][2] \in Parts(queue[d][k][1])
          /\ part[queue[d][k][1]][queue[d][k][2]] = "queued"
      BY DEF IInv, Requests, QueueIsRight
    <3>2. PICK s \in Reads : s = queue[d][k][1] /\ s[1] = d
      BY <3>1 DEF ReadsOf
    <3>3. PICK j \in Parts(s) : j = queue[d][k][2]
      BY <3>1, <3>2
    <3>4. s # r \/ j # i
      <4>1. CASE d # c
        BY <4>1, <3>2, <1>6 DEF ReadsOf
      <4>2. CASE d = c
        <5>1. k # 1 /\ 1 \in DOMAIN queue[c] /\ k \in DOMAIN queue[c]
          BY <2>1, <4>2, <1>3
        <5>2. queue[c][k] # queue[c][1]
          BY <5>1 DEF IInv, Requests, QueueIsRight
        <5>3. queue[c][k] \in Reads \X Nat /\ queue[c][1] \in Reads \X Nat
          BY <5>1, <1>2
        <5> QED  BY <5>2, <5>3, <3>2, <3>3, <4>2, <1>4, <1>5
      <4> QED  BY <4>1, <4>2
    <3>5. j \in DOMAIN part'[s] /\ part'[s][j] = part[s][j]
      BY <3>4, <1>12 DEF Parts
    <3> QED  BY <3>1, <3>2, <3>3, <3>5
  <2>2. \A k, l \in DOMAIN queue[d] : queue[d][k] = queue[d][l] => k = l
    BY DEF IInv, Requests, QueueIsRight
  <2>3. CASE d # c
    <3>1. queue'[d] = queue[d]
      BY <2>3, <1>8 DEF IInv, TypeOK
    <3> QED  BY <2>1, <2>2, <2>3, <3>1
  <2>4. CASE d = c
    <3>1. queue'[c] = Tail(queue[c])
      BY <1>8 DEF IInv, TypeOK
    <3>2. /\ DOMAIN queue'[c] = 1 .. m - 1
          /\ \A k \in 1 .. m - 1 : queue'[c][k] = queue[c][k + 1]
      BY <3>1, <1>2, <1>3
    <3>3. \A k \in 1 .. m - 1 : k + 1 \in DOMAIN queue[c] /\ k + 1 # 1
      BY <1>3
    <3>4. ASSUME NEW k \in 1 .. m - 1
          PROVE  /\ queue'[c][k][1] \in ReadsOf[c]
                 /\ queue'[c][k][2] \in DOMAIN part'[queue'[c][k][1]]
                 /\ part'[queue'[c][k][1]][queue'[c][k][2]] = "queued"
      <4>1. PICK l \in DOMAIN queue[c] : l = k + 1 /\ l # 1
        BY <3>3
      <4>2. queue'[c][k] = queue[c][l]
        BY <3>2, <4>1
      <4> QED  BY <4>1, <4>2, <2>1, <2>4
    <3>5. ASSUME NEW k \in 1 .. m - 1, NEW l \in 1 .. m - 1,
                 queue'[c][k] = queue'[c][l]
          PROVE  k = l
      <4>1. queue[c][k + 1] = queue[c][l + 1]
        BY <3>2, <3>5
      <4>2. k + 1 = l + 1
        BY <4>1, <3>3, <2>2, <2>4
      <4> QED  BY <4>2
    <3> QED  BY <2>4, <3>2, <3>4, <3>5
  <2> QED  BY <2>3, <2>4
<1> QED  BY <1>1, <1>9, <1>10, <1>11, <1>13 DEF IInv, Requests

(* The task of a part that has answered goes. *)
LEMMA EndTaskIInv ==
  ASSUME IInv, NEW r \in Reads, NEW i \in Parts(r), EndTask(r, i)
  PROVE  IInv'
<1>1. TypeOK'
  BY PartTypeOK DEF IInv
<1>2. /\ part[r][i] = "ending" /\ part' = [part EXCEPT ![r][i] = "done"]
      /\ UNCHANGED <<kind, pc, chunk, begun, nextPart, queue, arrived, counter,
                     isSuccess, answers, cacheVars>>
  BY DEF EndTask, readVars, workerVars
<1>3. Submitted' /\ QueueIsRight'
  BY <1>2, MovedSubmitted, MovedQueue DEF PartStates
<1>4. Libraries'
  BY <1>2, MovedLibraries DEF PartStates, HasTask, Busy
<1>5. Answers'
  BY <1>2, MovedQuiet DEF PartStates
<1> QED  BY <1>1, <1>3, <1>4, <1>5 DEF IInv, Requests

(* A part that was read: the last one has an answer to give. *)
LEMMA PartReadsIInv ==
  ASSUME IInv, NEW r \in Reads, NEW i \in Parts(r), PartReads(r, i)
  PROVE  IInv'
<1>1. TypeOK'
  BY PartTypeOK DEF IInv
<1>2. PICK v : v = IF counter[r] = 1 THEN "Success" ELSE Answered(r[1])
  OBVIOUS
<1>3. /\ part[r][i] = "running" /\ part' = [part EXCEPT ![r][i] = v]
      /\ Readable(r, i)
      /\ arrived' = [arrived EXCEPT ![r] = arrived[r] \cup HeldPart(r, i)]
      /\ counter' = [counter EXCEPT ![r] = counter[r] - 1]
      /\ UNCHANGED <<kind, pc, chunk, begun, nextPart, queue, isSuccess,
                     answers, cacheVars>>
  BY <1>2 DEF PartReads, workerVars
<1>4. /\ v \in PartStates /\ v \in Landed /\ v \notin Codes \ {"Success"}
      /\ v \in Codes => counter[r] = 1
  BY <1>2 DEF PartStates, Landed, Codes, Answered
<1>5. Submitted' /\ QueueIsRight'
  BY <1>3, <1>4, MovedSubmitted, MovedQueue
<1>6. Libraries'
  BY <1>3, <1>4, MovedLibraries DEF HasTask, Busy
<1>7. /\ part'[r][i] = v
      /\ \A j \in Parts(r) \ {i} : part'[r][j] = part[r][j]
  BY <1>3, MovedHere DEF IInv
<1>8. counter[r] \in Nat \ {0} /\ (counter[r] = 1 => isSuccess[r])
  BY <1>3, RunningCounts
<1>9. counter'[r] = counter[r] - 1
        /\ arrived'[r] = arrived[r] \cup HeldPart(r, i)
  BY <1>3 DEF IInv, TypeOK
<1>10. \E R \in SUBSET (1 .. NumParts(r)) : HaveBeenRead(r, R)'
  <2>1. PICK R \in SUBSET (1 .. NumParts(r)) :
          /\ HaveBeenRead(r, R) /\ i \notin R
          /\ R \cup {i} \in SUBSET (1 .. NumParts(r))
          /\ Cardinality(R) \in Nat
          /\ Cardinality(R \cup {i}) = Cardinality(R) + 1
    BY <1>3, RunningCounts
  <2>2. /\ NumParts(r)' = NumParts(r) /\ NumParts(r) \in Nat
        /\ \A j : /\ HeldPart(r, j)' = HeldPart(r, j)
                  /\ Readable(r, j)' <=> Readable(r, j)
        /\ Parts(r)' = Parts(r)
    <3>1. TypeOK
      BY DEF IInv
    <3>2. /\ NumParts(r)' = NumParts(r)
          /\ \A j : /\ HeldPart(r, j)' = HeldPart(r, j)
                    /\ Readable(r, j)' <=> Readable(r, j)
      BY <3>1, <1>3, PlanStays
    <3>3. Parts(r)' = Parts(r)
      BY <3>1, <1>3, <1>4, PartMoved
    <3>4. NumParts(r) \in Nat
      BY <3>1, PartsShape
    <3> QED  BY <3>2, <3>3, <3>4
  <2>3. counter'[r] = NumParts(r)' - Cardinality(R \cup {i})
    <3>1. counter[r] = NumParts(r) - Cardinality(R)
      BY <2>1 DEF HaveBeenRead
    <3> QED  BY <3>1, <2>1, <2>2, <1>9
  <2>4. arrived'[r] = UNION {HeldPart(r, j)' : j \in R \cup {i}}
    <3>1. arrived[r] = UNION {HeldPart(r, j) : j \in R}
      BY <2>1 DEF HaveBeenRead
    <3>2. (UNION {HeldPart(r, j) : j \in R}) \cup HeldPart(r, i)
            = UNION {HeldPart(r, j) : j \in R \cup {i}}
      OBVIOUS
    <3>3. UNION {HeldPart(r, j)' : j \in R \cup {i}}
            = UNION {HeldPart(r, j) : j \in R \cup {i}}
      BY <2>2
    <3> QED  BY <3>1, <3>2, <3>3, <1>9
  <2>5. \A j \in R \cup {i} :
          j \in Parts(r)' /\ part'[r][j] \in Landed /\ Readable(r, j)'
    BY <2>1, <2>2, <1>3, <1>4, <1>7 DEF HaveBeenRead
  <2>6. ~isSuccess'[r] =>
          \E j \in Parts(r)' \ (R \cup {i}) : part'[r][j] \in Landed
    <3> SUFFICES ASSUME ~isSuccess[r]
                 PROVE  \E j \in Parts(r) \ (R \cup {i}) :
                          part'[r][j] \in Landed
      BY <1>3, <2>2
    <3>1. PICK j \in Parts(r) \ R : part[r][j] \in Landed
      BY <2>1 DEF HaveBeenRead
    <3>2. j # i
      BY <3>1, <1>3 DEF Landed, Codes
    <3> QED  BY <3>1, <3>2, <1>7
  <2>7. HaveBeenRead(r, R \cup {i})'
    BY <2>3, <2>4, <2>5, <2>6 DEF HaveBeenRead
  <2> QED  BY <2>1, <2>7
<1>11. \A code : code # "Success" =>
         (Explained(r, code)' <=> Explained(r, code))
  BY <1>3 DEF Explained
<1>12. ~Explained(r, "Success")
  BY <1>8 DEF Explained
<1>13. \A n \in DOMAIN answers'[r] : Explained(r, answers[r][n])'
  <2>1. \A n \in DOMAIN answers[r] : Explained(r, answers[r][n])
    BY DEF IInv, Answers, AnswersAreRight
  <2> QED  BY <2>1, <1>3, <1>12 DEF Explained
<1>14. /\ Len(answers'[r]) <= 1
       /\ answers'[r] # <<>> =>
            \E k \in Parts(r) : part'[r][k] \in {"ending", "done"}
  <2>1. \A k \in Parts(r) : part[r][k] \in {"ending", "done"} => k # i
    BY <1>3
  <2> QED  BY <2>1, <1>3, <1>7 DEF IInv, Answers, AnswersAreRight
<1>15. ASSUME NEW k \in Parts(r), part'[r][k] \in Codes
       PROVE  /\ Explained(r, part[r][k])'
              /\ answers'[r] = <<>>
              /\ \A j \in Parts(r) : part'[r][j] \in Codes => k = j
  <2>1. CASE v \in Codes
    <3>1. isSuccess[r] /\ v = "Success" /\ counter'[r] = 0
      BY <2>1, <1>4, <1>8, <1>9
    <3>2. answers[r] = <<>> /\ \A j \in Parts(r) : part[r][j] \notin Codes
      BY <3>1, <1>3, NoAnswerYet
    <3>3. \A j \in Parts(r) : part'[r][j] \in Codes => j = i
      BY <3>2, <1>7
    <3>4. k = i /\ part'[r][k] = "Success"
      BY <3>1, <3>3, <1>7, <1>15
    <3>5. Explained(r, part[r][k])'
      BY <3>1, <3>4 DEF Explained
    <3> QED  BY <3>2, <3>3, <3>4, <3>5, <1>3
  <2>2. CASE v \notin Codes
    <3>1. \A j \in Parts(r) : part'[r][j] \in Codes =>
            part'[r][j] = part[r][j]
      BY <2>2, <1>7
    <3>2. /\ Explained(r, part[r][k]) /\ answers[r] = <<>>
          /\ \A j \in Parts(r) : part[r][j] \in Codes => k = j
      BY <3>1, <1>15 DEF IInv, Answers, AnswersAreRight
    <3>3. Explained(r, part[r][k])'
      BY <3>1, <3>2, <1>3, <1>12, <1>15 DEF Explained
    <3> QED  BY <3>1, <3>2, <3>3, <1>3
  <2> QED  BY <2>1, <2>2
<1>16. \A s \in Reads \ {r} :
         /\ counter'[s] = counter[s] /\ arrived'[s] = arrived[s]
         /\ isSuccess'[s] = isSuccess[s] /\ answers'[s] = answers[s]
  BY <1>3 DEF IInv, TypeOK
<1>17. Answers'
  BY <1>3, <1>4, <1>10, <1>13, <1>14, <1>15, <1>16, OtherReads
<1> QED  BY <1>1, <1>5, <1>6, <1>17 DEF IInv, Requests

(* A part that failed: the first one has an answer to give. *)
LEMMA PartFailsIInv ==
  ASSUME IInv, NEW r \in Reads, NEW i \in Parts(r), PartFails(r, i)
  PROVE  IInv'
<1>1. TypeOK'
  BY PartTypeOK DEF IInv
<1>2. PICK code \in PartErrors(r[1]) :
        /\ part[r][i] = "running"
        /\ isSuccess' = [isSuccess EXCEPT ![r] = FALSE]
        /\ part' = [part EXCEPT ![r][i] =
                      IF isSuccess[r] THEN code ELSE Answered(r[1])]
  BY DEF PartFails
<1>3. UNCHANGED <<kind, pc, chunk, begun, nextPart, queue, arrived, counter,
                  answers, cacheVars>>
  BY DEF PartFails, workerVars
<1>4. PICK v : v = IF isSuccess[r] THEN code ELSE Answered(r[1])
  OBVIOUS
<1>5. code \in Codes \ {"Success"}
  BY DEF PartErrors, S3Errors, GcsErrors, AzureErrors, CacheErrors, Codes
<1>6. /\ v \in PartStates /\ v \in Landed /\ v # "Success"
      /\ v \in Codes <=> isSuccess[r]
  BY <1>4, <1>5 DEF PartStates, Landed, Codes, Answered
<1>7. part' = [part EXCEPT ![r][i] = v]
  BY <1>2, <1>4
<1>8. Submitted' /\ QueueIsRight'
  BY <1>2, <1>3, <1>6, <1>7, MovedSubmitted, MovedQueue
<1>9. Libraries'
  BY <1>2, <1>3, <1>6, <1>7, MovedLibraries DEF HasTask, Busy
<1>10. /\ part'[r][i] = v
       /\ \A j \in Parts(r) \ {i} : part'[r][j] = part[r][j]
  BY <1>7, MovedHere DEF IInv
<1>11. isSuccess'[r] = FALSE
  BY <1>2 DEF IInv, TypeOK
<1>12. \E R \in SUBSET (1 .. NumParts(r)) : HaveBeenRead(r, R)'
  <2>1. PICK R \in SUBSET (1 .. NumParts(r)) : HaveBeenRead(r, R) /\ i \notin R
    BY <1>2, RunningCounts
  <2>2. /\ NumParts(r)' = NumParts(r)
        /\ \A j : /\ HeldPart(r, j)' = HeldPart(r, j)
                  /\ Readable(r, j)' <=> Readable(r, j)
        /\ Parts(r)' = Parts(r)
    <3>1. TypeOK
      BY DEF IInv
    <3>2. /\ NumParts(r)' = NumParts(r)
          /\ \A j : /\ HeldPart(r, j)' = HeldPart(r, j)
                    /\ Readable(r, j)' <=> Readable(r, j)
      BY <3>1, <1>3, PlanStays
    <3>3. Parts(r)' = Parts(r)
      BY <3>1, <1>6, <1>7, PartMoved
    <3> QED  BY <3>2, <3>3
  <2>3. counter'[r] = NumParts(r)' - Cardinality(R)
    BY <2>1, <2>2, <1>3 DEF HaveBeenRead
  <2>4. arrived'[r] = UNION {HeldPart(r, j)' : j \in R}
    <3>1. UNION {HeldPart(r, j)' : j \in R} = UNION {HeldPart(r, j) : j \in R}
      BY <2>2
    <3> QED  BY <3>1, <2>1, <1>3 DEF HaveBeenRead
  <2>5. \A j \in R :
          j \in Parts(r)' /\ part'[r][j] \in Landed /\ Readable(r, j)'
    BY <2>1, <2>2, <1>6, <1>10 DEF HaveBeenRead
  <2>6. i \in Parts(r)' \ R /\ part'[r][i] \in Landed
    BY <2>1, <2>2, <1>6, <1>10
  <2>7. HaveBeenRead(r, R)'
    BY <2>3, <2>4, <2>5, <2>6 DEF HaveBeenRead
  <2> QED  BY <2>7
<1>13. \A n \in DOMAIN answers'[r] : Explained(r, answers[r][n])'
  <2>1. \A n \in DOMAIN answers[r] : Explained(r, answers[r][n])
    BY DEF IInv, Answers, AnswersAreRight
  <2> QED  BY <2>1, <1>3, <1>11 DEF Explained
<1>14. /\ Len(answers'[r]) <= 1
       /\ answers'[r] # <<>> =>
            \E k \in Parts(r) : part'[r][k] \in {"ending", "done"}
  <2>1. \A k \in Parts(r) : part[r][k] \in {"ending", "done"} => k # i
    BY <1>2
  <2> QED  BY <2>1, <1>3, <1>10 DEF IInv, Answers, AnswersAreRight
<1>15. ASSUME NEW k \in Parts(r), part'[r][k] \in Codes
       PROVE  /\ Explained(r, part[r][k])'
              /\ answers'[r] = <<>>
              /\ \A j \in Parts(r) : part'[r][j] \in Codes => k = j
  <2>1. CASE isSuccess[r]
    <3>1. answers[r] = <<>> /\ \A j \in Parts(r) : part[r][j] \notin Codes
      BY <2>1, <1>2, NoAnswerYet
    <3>2. \A j \in Parts(r) : part'[r][j] \in Codes => j = i
      BY <3>1, <1>10
    <3>3. k = i /\ part'[r][k] # "Success"
      BY <3>2, <1>6, <1>10, <1>15
    <3>4. Explained(r, part[r][k])'
      BY <3>3, <1>11 DEF Explained
    <3> QED  BY <3>1, <3>2, <3>3, <3>4, <1>3
  <2>2. CASE ~isSuccess[r]
    <3>1. \A j \in Parts(r) : part'[r][j] \in Codes =>
            part'[r][j] = part[r][j]
      BY <2>2, <1>6, <1>10
    <3>2. /\ Explained(r, part[r][k]) /\ answers[r] = <<>>
          /\ \A j \in Parts(r) : part[r][j] \in Codes => k = j
      BY <3>1, <1>15 DEF IInv, Answers, AnswersAreRight
    <3>3. Explained(r, part[r][k])'
      BY <3>1, <3>2, <1>3, <1>11, <1>15 DEF Explained
    <3> QED  BY <3>1, <3>2, <3>3, <1>3
  <2> QED  BY <2>1, <2>2
<1>16. \A s \in Reads \ {r} :
         /\ counter'[s] = counter[s] /\ arrived'[s] = arrived[s]
         /\ isSuccess'[s] = isSuccess[s] /\ answers'[s] = answers[s]
  BY <1>2, <1>3 DEF IInv, TypeOK
<1>17. Answers'
  BY <1>3, <1>6, <1>7, <1>12, <1>13, <1>14, <1>15, <1>16, OtherReads
<1> QED  BY <1>1, <1>8, <1>9, <1>17 DEF IInv, Requests

(* The answer goes to the responder. *)
LEMMA ReplyIInv ==
  ASSUME IInv, NEW r \in Reads, NEW i \in Parts(r), Reply(r, i)
  PROVE  IInv'
<1>1. TypeOK'
  BY PartTypeOK DEF IInv
<1>2. PICK code \in Codes : code = part[r][i]
  BY DEF Reply
<1>3. PICK v : v = Answered(r[1])
  OBVIOUS
<1>4. /\ part' = [part EXCEPT ![r][i] = v]
      /\ answers' = [answers EXCEPT ![r] = Append(answers[r], code)]
      /\ UNCHANGED <<kind, pc, chunk, begun, nextPart, queue, arrived, counter,
                     isSuccess, cacheVars>>
  BY <1>2, <1>3 DEF Reply, workerVars
<1>5. /\ v \in PartStates /\ v \in Landed
      /\ v \notin Codes /\ v \in {"ending", "done"}
  BY <1>3 DEF PartStates, Landed, Codes, Answered
<1>6. Submitted' /\ QueueIsRight'
  BY <1>2, <1>4, <1>5, MovedSubmitted, MovedQueue DEF Codes
<1>7. Libraries'
  BY <1>2, <1>4, <1>5, MovedLibraries DEF HasTask, Busy
<1>8. /\ part'[r][i] = v
      /\ \A j \in Parts(r) \ {i} : part'[r][j] = part[r][j]
  BY <1>4, MovedHere DEF IInv
<1>9. /\ Explained(r, code) /\ answers[r] = <<>>
      /\ \A j \in Parts(r) : part[r][j] \in Codes => i = j
  BY <1>2 DEF IInv, Answers, AnswersAreRight
<1>10. answers'[r] = <<code>>
  BY <1>4, <1>9 DEF IInv, TypeOK
<1>11. \E R \in SUBSET (1 .. NumParts(r)) : HaveBeenRead(r, R)'
  <2>1. Tracked(r)
    BY DEF Tracked, Parts
  <2>2. PICK R \in SUBSET (1 .. NumParts(r)) : HaveBeenRead(r, R)
    BY <2>1 DEF IInv, Answers, CounterIsRight
  <2>3. counter'[r] = counter[r] /\ arrived'[r] = arrived[r]
          /\ isSuccess'[r] = isSuccess[r]
    BY <1>4
  <2>4. HaveBeenRead(r, R)'
    BY <2>2, <2>3, <1>4, <1>5, MovedRead
  <2> QED  BY <2>4
<1>12. \A n \in DOMAIN answers'[r] : Explained(r, answers[r][n])'
  BY <1>4, <1>9, <1>10 DEF Explained
<1>13. /\ Len(answers'[r]) <= 1
       /\ \E k \in Parts(r) : part'[r][k] \in {"ending", "done"}
  BY <1>5, <1>8, <1>10
<1>14. \A k \in Parts(r) : part'[r][k] \notin Codes
  BY <1>5, <1>8, <1>9
<1>15. \A s \in Reads \ {r} :
         /\ counter'[s] = counter[s] /\ arrived'[s] = arrived[s]
         /\ isSuccess'[s] = isSuccess[s] /\ answers'[s] = answers[s]
  BY <1>4 DEF IInv, TypeOK
<1>16. Answers'
  BY <1>4, <1>5, <1>11, <1>12, <1>13, <1>14, <1>15, OtherReads
<1> QED  BY <1>1, <1>6, <1>7, <1>16 DEF IInv, Requests

-----------------------------------------------------------------------------
(* Theorems *)

(* Steps that change nothing the invariant reads. *)
LEMMA StutterIInv ==
  ASSUME IInv, UNCHANGED vars
  PROVE  IInv'
<1>1. UNCHANGED <<kind, pc, chunk, begun, nextPart, queue, counter, isSuccess,
                  part, arrived, answers, cacheVars>>
  BY DEF vars, poolVars, readVars, workerVars
<1>2. TypeOK'
  BY <1>1 DEF IInv, TypeOK, cacheVars
<1>3. Requests'
  BY <1>1 DEF IInv, Requests, Submitted, QueueIsRight, Current, Parts
<1>4. Answers'
  <2>1. \A r \in Reads : Tracked(r)' => Tracked(r)
    BY <1>1 DEF Tracked, Current
  <2> QED  BY <2>1, <1>1, PlanStays, AnswersStay DEF IInv
<1>5. Libraries'
  <2>1. \A c \in Clients : TasksOf(c)' = TasksOf(c)
    BY <1>1 DEF TasksOf, PartsIn, Parts
  <2> QED  BY <2>1, <1>1, LibrariesStay DEF IInv, TypeOK
<1> QED  BY <1>2, <1>3, <1>4, <1>5 DEF IInv

(* Every step keeps the invariant. *)
LEMMA StepIInv == IInv /\ [Next]_vars => IInv'
<1> SUFFICES ASSUME IInv, [Next]_vars
             PROVE  IInv'
  OBVIOUS
<1>1. ASSUME NEW c \in Clients, WorkerNext(c)
      PROVE  IInv'
  BY <1>1, QuietIInv, BeginReadIInv, SubmitPartIInv DEF WorkerNext
<1>2. ASSUME NEW c \in Clients, PoolNext(c)
      PROVE  IInv'
  <2>1. CASE StartPart(c)
    BY <2>1, StartPartIInv
  <2>2. ASSUME NEW r \in ReadsOf[c], NEW i \in Parts(r),
               PartReads(r, i) \/ PartFails(r, i) \/ Reply(r, i)
                 \/ EndTask(r, i)
        PROVE  IInv'
    <3>1. r \in Reads
      BY DEF ReadsOf
    <3> QED  BY <2>2, <3>1, PartReadsIInv, PartFailsIInv, ReplyIInv, EndTaskIInv
  <2> QED  BY <1>2, <2>1, <2>2 DEF PoolNext
<1>3. ASSUME NEW c \in Clients, OwnerNext(c)
      PROVE  IInv'
  BY <1>3, QuietIInv, CreateAzureIInv, CreateAzureThrowsIInv, CloseIInv,
     JoinIInv, DestroyLoaderIInv
  DEF OwnerNext
<1>4. CASE CacheNext
  BY <1>4, ChangeEnvIInv, UnwindIInv, ShutdownIInv DEF CacheNext
<1>5. CASE UNCHANGED vars
  BY <1>5, StutterIInv
<1> QED  BY <1>1, <1>2, <1>3, <1>4, <1>5 DEF Next

(* The invariant holds, for every set of clients and every size. *)
THEOREM Inductive == Spec => []IInv
<1>1. Init => IInv
  BY InitIInv
<1>2. IInv /\ [Next]_vars => IInv'
  BY StepIInv
<1> QED  BY <1>1, <1>2, PTL DEF Spec

(* An answer that is there is the only one; when it is Success the counter *)
(* is 0, so as many parts were read as the range has, and each of them     *)
(* could be: what the object has of the range is what arrived.             *)
LEMMA WholeFromIInv == IInv => AnswerIsWhole
<1> SUFFICES ASSUME IInv, NEW r \in Reads
             PROVE  /\ Len(answers[r]) <= 1
                    /\ Succeeded(r) =>
                         /\ arrived[r] = Held(r)
                         /\ IF LengthUnchecked(r[1])
                            THEN \A i \in 1 .. NumParts(r) :
                                   HeldPart(r, i) # {}
                            ELSE Held(r) = Bytes(r)
  BY DEF AnswerIsWhole
<1>1. Len(answers[r]) <= 1
  BY DEF IInv, Answers, AnswersAreRight
<1>2. ASSUME Succeeded(r)
      PROVE  /\ arrived[r] = UNION {HeldPart(r, j) : j \in 1 .. NumParts(r)}
             /\ \A j \in 1 .. NumParts(r) : Readable(r, j)
  <2>1. counter[r] = 0
    BY <1>2 DEF Succeeded, IInv, Answers, AnswersAreRight, Explained
  <2>2. part[r] # <<>>
    <3>1. answers[r] # <<>>
      BY <1>2 DEF Succeeded
    <3> QED  BY <3>1 DEF IInv, Answers, CounterIsRight
  <2>3. PICK R \in SUBSET (1 .. NumParts(r)) : HaveBeenRead(r, R)
    BY <2>2 DEF IInv, Answers, CounterIsRight, Tracked
  <2>4. PICK N \in Nat : N = NumParts(r)
    BY PartsShape DEF IInv
  <2>5. IsFiniteSet(1 .. N) /\ Cardinality(1 .. N) = N
    BY <2>4, FS_Interval
  <2>6. R \subseteq 1 .. N /\ IsFiniteSet(R) /\ Cardinality(R) \in Nat
    BY <2>3, <2>4, <2>5, FS_Subset, FS_CardinalityType
  <2>7. Cardinality(R) = N
    BY <2>1, <2>3, <2>4, <2>6 DEF HaveBeenRead
  <2>8. R = 1 .. N
    BY <2>5, <2>6, <2>7, FS_Subset
  <2> QED  BY <2>3, <2>4, <2>8 DEF HaveBeenRead
<1>3. UNION {HeldPart(r, j) : j \in 1 .. NumParts(r)} = Held(r)
  <2>1. UNION {PartBytes(r, j) : j \in 1 .. NumParts(r)} = Bytes(r)
    BY PartsCoverRange DEF IInv
  <2>2. \A b : b \in Bytes(r) <=>
          \E j \in 1 .. NumParts(r) : b \in PartBytes(r, j)
    BY <2>1
  <2> QED  BY <2>2 DEF HeldPart, Held
<1>4. CASE LengthUnchecked(r[1])
  BY <1>1, <1>2, <1>3, <1>4 DEF Readable
<1>5. CASE ~LengthUnchecked(r[1])
  <2>1. ASSUME Succeeded(r)
        PROVE  Held(r) = Bytes(r)
    <3>1. \A j \in 1 .. NumParts(r) : HeldPart(r, j) = PartBytes(r, j)
      BY <2>1, <1>2, <1>5 DEF Readable
    <3>2. UNION {HeldPart(r, j) : j \in 1 .. NumParts(r)}
            = UNION {PartBytes(r, j) : j \in 1 .. NumParts(r)}
      BY <3>1
    <3> QED  BY <3>2, <1>3, PartsCoverRange DEF IInv
  <2> QED  BY <2>1, <1>1, <1>2, <1>3, <1>5
<1> QED  BY <1>4, <1>5

(* A read is answered at most once, and with Success only when all that    *)
(* the object has of its range was written, which is the whole range       *)
(* unless an Azure blob read without a cache ends inside the last part.    *)
THEOREM AnswersAreWhole == Spec => []AnswerIsWhole
  BY Inductive, WholeFromIInv, PTL

(* The one part of a read whose client has large chunks has answered when  *)
(* there is an answer.                                                     *)
LEMMA QuietFromIInv == IInv => AnsweredIsQuiet
<1> SUFFICES ASSUME IInv, NEW r \in Reads,
                    answers[r] # <<>>, chunk[r[1]] >= WorkerChunk,
                    NEW i \in Parts(r)
             PROVE  part[r][i] \notin {"queued", "running"}
  BY DEF AnsweredIsQuiet
<1>1. NumParts(r) = 1
  BY OnePart DEF IInv
<1>2. PICK k \in Parts(r) : part[r][k] \in {"ending", "done"}
  BY DEF IInv, Answers, AnswersAreRight
<1>3. Tracked(r)
  BY DEF Tracked, Parts
<1>4. Len(part[r]) <= 1
  BY <1>1, <1>3 DEF IInv, Answers, CounterIsRight
<1>5. Parts(r) = 1 .. Len(part[r]) /\ Len(part[r]) \in Nat
  <2>1. part[r] \in Seq(PartStates)
    BY DEF IInv, TypeOK
  <2> QED  BY <2>1 DEF Parts
<1>6. i = k
  BY <1>2, <1>4, <1>5
<1> QED  BY <1>2, <1>6

(* When the chunks of a client are no smaller than its worker's, an        *)
(* answered read is written to no more.                                    *)
THEOREM AnsweredAreQuiet == Spec => []AnsweredIsQuiet
  BY Inductive, QuietFromIInv, PTL

(* The task of a part under way has the loader, the loader its handle, and *)
(* a handle that is open and owned was not shut down.                      *)
LEMMA UsableFromIInv == IInv => CacheOutlivesReads
<1> SUFFICES ASSUME IInv, NEW r \in Reads, NEW i \in Parts(r),
                    Cached(r[1]), part[r][i] = "running"
             PROVE  Cache!Usable(r[1])
  BY DEF CacheOutlivesReads
<1>1. PICK c \in Clients : c = r[1] /\ r \in ReadsOf[c]
  BY ReadShape
<1>2. TasksOf(c) # {}
  BY <1>1, TasksAreParts DEF HasTask, Busy
<1>3. loader[c] # 0 /\ handles[loader[c]].open
  BY <1>1 DEF Cached, Cache!Enabled
<1>4. c \in Owners(loader[c])
  BY <1>2, <1>3 DEF IInv, Libraries, LoadersAreKept, LoaderIsKept
<1>5. LiveOpen(loader[c])
  BY <1>3, <1>4 DEF LiveOpen
<1>6. loader[c] \in DOMAIN handles
  BY <1>3 DEF IInv, TypeOK
<1>7. loader[c] \notin down
  BY <1>5, <1>6 DEF IInv, Libraries, HandlesAreApart
<1> QED  BY <1>1, <1>3, <1>4, <1>7 DEF Cache!Usable, Cache!Enabled, Owners

(* A part that is read through the cache has a loader whose library was    *)
(* not shut down, whoever else made, failed to make or destroyed one.      *)
THEOREM CacheOutlives == Spec => []CacheOutlivesReads
  BY Inductive, UsableFromIInv, PTL
=============================================================================
