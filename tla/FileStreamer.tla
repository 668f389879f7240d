----------------------------- MODULE FileStreamer -----------------------------
(***************************************************************************)
(* The Python FileStreamer and its requests iterator over the C API        *)
(* (file_streamer.py, requests_iterator.py, libstreamer.py, streamer.cc):  *)
(* a session that lists and streams, the submissions cut to the memory     *)
(* limit, the buffer they share, the generator of chunks and its draining, *)
(* and the credentials of each C++ streamer.                               *)
(*                                                                         *)
(* The C++ streamer is what SubmissionContract promises: one response for  *)
(* each range of a submission, in any order.  A response may say           *)
(* FinishedError when another streamer of the process has stopped the      *)
(* clients of an object storage.  The application is one that keeps to the *)
(* protocol: it starts a stream only when the generator of the one before  *)
(* has ended or was closed, it iterates a stream it has started or leaves  *)
(* the session, and it leaves after an exception of stream_files or of the *)
(* submission of a later request.                                          *)
(***************************************************************************)
EXTENDS Integers, Listing

CONSTANTS
  Setups,      \* the sessions: their files, the memory limit, the credentials
               \* that may be given to a stream_files and what boto3 finds
  MaxStreams,  \* bound: calls of stream_files in a session
  MaxSessions, \* bound: sessions
  NoCreds

VARIABLES
  setup,
  sessions,     \* how many times the context was entered
  streamer,     \* self.streamer is there
  asked,        \* history: the credentials asked for in this session, in
                \* the order they first came
  temporary,    \* list_files goes on with a streamer of its own
  session,      \* self.s3_session is there
  creds,        \* self.s3_credentials
  credentialed, \* self._credentialed_streamer: "none", "context", "temporary"
  applied,      \* what the context's C++ streamer was given
  streams,      \* calls of stream_files in this session: the live buffer
  queue,        \* the first file of q of the requests iterator: the files
                \* after it follow
  next,         \* next_index of each file
  chunkIndex,   \* file_to_current_chunk_index
  request,      \* the active request: parts of files
  submission,   \* self.submission_id
  inflight,     \* ranges the C++ streamer has not answered
  responses,    \* its responses that were not retrieved
  buffer,       \* what is in the buffer
  gen,          \* the generator: "none", "ready", "suspended" at a yield,
                \* "running", "draining" to end, "leaving" a request it got
                \* None for, "left", "over", "closed", "raised"
  consumed,     \* responses consumed of the active submission
  views,        \* history: chunks of the active request that were yielded
  count,        \* history: how often each chunk of the stream was yielded
  cut           \* history: a response of this session was None

sessionVars == <<setup, sessions, streamer, asked, temporary>>
credVars == <<session, creds, credentialed, applied>>
iterVars == <<streams, queue, next, chunkIndex, request>>
cVars == <<submission, inflight, responses, buffer>>
genVars == <<gen, consumed, views, count>>
vars == <<sessionVars, credVars, iterVars, cVars, genVars, cut, listingVars>>

Files == setup.files
FileSet == 1 .. Len(Files)
Chunks ==
  UNION {{<<f, i>> : i \in 0 .. Len(Files[f].sizes) - 1} : f \in FileSet}
SetMax(S) == CHOOSE m \in S : \A n \in S : n <= m

(* The sum of the first i elements, and the sum of all. *)
SumTo(seq) ==
  LET sum[i \in 0 .. Len(seq)] == IF i = 0 THEN 0 ELSE sum[i - 1] + seq[i]
  IN  sum
SumSeq(seq) == SumTo(seq)[Len(seq)]

ASSUME FileStreamerAssumption ==
  \A s \in Setups :
    /\ s.limit \in Nat \cup {-1}
    /\ s.files \in Seq([scheme : {"s3", "gs", "az", "fs"}, offsets : Seq(Nat),
                       sizes : Seq(Nat)])
    /\ \A f \in DOMAIN s.files :
         Len(s.files[f].sizes) = Len(s.files[f].offsets)
    /\ s.stores \subseteq SUBSET KeySet
    /\ s.given # {}

-----------------------------------------------------------------------------
(* The requests iterator *)

TotalSize == SumSeq([f \in FileSet |-> SumSeq(Files[f].sizes)])
LargestRange ==
  SetMax({0} \cup {Files[c[1]].sizes[c[2] + 1] : c \in Chunks})

(* The size of the buffer, and when there can be none. *)
MemoryLimit ==
  CASE setup.limit = -1 -> TotalSize
    [] setup.limit = 0 -> LargestRange
    [] OTHER -> IF setup.limit < TotalSize THEN setup.limit ELSE TotalSize
LimitTooSmall == setup.limit > 0 /\ setup.limit < LargestRange

(* The bytes of the ranges first + 1 .. last of a file. *)
BytesOf(f, first, last) ==
  SumTo(Files[f].sizes)[last] - SumTo(Files[f].sizes)[first]

(* FileChunksIterator.next_chunks: the longest prefix of what is left of a *)
(* file that fits into size bytes.                                         *)
NextChunks(f, first, size) ==
  LET fits == {e \in first .. Len(Files[f].sizes) :
                 BytesOf(f, first, e) <= size}
  IN  [file |-> f, first |-> first, last |-> SetMax(fits)]

(* The loop of FilesRequestsIterator.next_request, after file f: left bytes *)
(* are left.  A file without any range left is skipped; one whose next      *)
(* range does not fit stays the first of q, and closes the request.         *)
Packing(q, index) ==
  LET pack[f \in 0 .. Len(Files)] ==
        IF f < q
        THEN [queue |-> q, next |-> index, parts |-> <<>>, left |-> MemoryLimit]
        ELSE LET before == pack[f - 1]
                 part == NextChunks(f, index[f], before.left)
             IN  IF before.queue < f THEN before
                 ELSE [queue |-> IF part.last = Len(Files[f].sizes)
                                 THEN f + 1 ELSE f,
                       next |-> [before.next EXCEPT ![f] = part.last],
                       parts |-> IF part.last = part.first THEN before.parts
                                 ELSE Append(before.parts, part),
                       left |-> before.left
                                  - BytesOf(f, part.first, part.last)]
  IN  pack

(* Mutant of NextRequest: a file without ranges ends the request. *)
NextRequestEnds(q, index) ==
  IF q <= Len(Files) /\ Files[q].sizes = <<>>
  THEN [queue |-> q + 1, next |-> index, parts |-> <<>>]
  ELSE Packing(q, index)[Len(Files)]

NextRequest(q, index) == Packing(q, index)[Len(Files)]

(* Mutant of Advanced: the indices of a later request start again. *)
AdvancedNot == [f \in FileSet |-> 0]

(* The index of the first chunk of each file in the request that follows.  *)
Advanced ==
  [f \in FileSet |-> chunkIndex[f] +
     SumSeq([i \in DOMAIN request |->
               IF request[i].file = f
               THEN request[i].last - request[i].first ELSE 0])]

(* The flat arrays of a request: the ranges of its first file, then those  *)
(* of the second; its destinations are packed by a cursor.                 *)
NumRanges(parts) == [i \in DOMAIN parts |-> parts[i].last - parts[i].first]
FileBase(parts, i) == SumTo(NumRanges(parts))[i - 1]
Flat(parts) ==
  LET flat[i \in 0 .. Len(parts)] ==
        IF i = 0 THEN <<>>
        ELSE flat[i - 1] \o [j \in 1 .. NumRanges(parts)[i] |-> <<i, j>>]
  IN  flat
Order(parts) == Flat(parts)[Len(parts)]
SizeAt(part, j) == Files[part.file].sizes[part.first + j]
OffsetAt(part, j) == Files[part.file].offsets[part.first + j]
FlatSizes(parts) ==
  [k \in DOMAIN Order(parts) |->
     SizeAt(parts[Order(parts)[k][1]], Order(parts)[k][2])]
FlatOffsets(parts) ==
  [k \in DOMAIN Order(parts) |->
     OffsetAt(parts[Order(parts)[k][1]], Order(parts)[k][2])]
RangeDsts(parts) ==
  [k \in DOMAIN Order(parts) |-> SumTo(FlatSizes(parts))[k - 1]]

-----------------------------------------------------------------------------
(* The C API *)

(* submit_request: the arrays are taken apart again, file by file. *)
RangeOf(parts, i, j, id, stream) ==
  LET flat == FileBase(parts, i) + j
  IN  [sub |-> id, buffer |-> stream, fileIndex |-> i, index |-> j,
       path |-> parts[i].file, offset |-> FlatOffsets(parts)[flat],
       size |-> FlatSizes(parts)[flat], dst |-> RangeDsts(parts)[flat]]
SubmitRequest(parts, id, stream) ==
  UNION {{RangeOf(parts, i, j, id, stream) : j \in 1 .. NumRanges(parts)[i]} :
           i \in DOMAIN parts}

(* What a response may say; a file system has no clients to be stopped. *)
Codes(f) ==
  {"Success", "Error"} \cup (IF Files[f].scheme = "fs" THEN {} ELSE {"Finished"})

(* A worker has read a range into its destination, or has failed. *)
Answer(r) ==
  /\ r \in inflight
  /\ inflight' = inflight \ {r}
  /\ \E ret \in Codes(r.path) :
       /\ responses' = responses \cup {[range |-> r, ret |-> ret]}
       /\ buffer' = IF ret # "Success" THEN buffer
                    ELSE [a \in DOMAIN buffer |->
                            IF a \in r.dst .. r.dst + r.size - 1
                            THEN <<r.path, r.offset + a - r.dst>>
                            ELSE buffer[a]]
  /\ UNCHANGED <<sessionVars, credVars, iterVars, submission, genVars, cut,
                 listingVars>>

-----------------------------------------------------------------------------
(* Credentials *)

(* What this session has been asked for, once more. *)
AskedFor(s3, given) ==
  IF s3 /\ \A i \in DOMAIN asked : asked[i] # given
  THEN Append(asked, given) ELSE asked

(* get_credentials: without boto3 those that are given, and no session. *)
Resolve(given) ==
  IF setup.boto = "off" THEN [session |-> FALSE, creds |-> given]
  ELSE [session |-> TRUE,
        creds |-> IF given = NoCreds THEN setup.boto ELSE given]

(* Mutant of HandleObjectStore: a streamer counts as credentialed although *)
(* there was nothing to apply.                                             *)
HandleObjectStoreDesync(s3, handle, given) ==
  LET new == IF session THEN [session |-> session, creds |-> creds]
             ELSE Resolve(given)
      apply == s3 /\ handle # credentialed
  IN  IF ~s3 THEN UNCHANGED credVars
      ELSE /\ session' = new.session
           /\ creds' = new.creds
           /\ credentialed' = IF apply THEN handle ELSE credentialed
           /\ applied' = IF apply /\ handle = "context" THEN new.creds
                         ELSE applied

(* handle_object_store: resolved until there is a session, applied once to *)
(* each C++ streamer.                                                      *)
HandleObjectStore(s3, handle, given) ==
  LET new == IF session THEN [session |-> session, creds |-> creds]
             ELSE Resolve(given)
      apply == new.creds # NoCreds /\ handle # credentialed
  IN  IF ~s3 THEN UNCHANGED credVars
      ELSE /\ session' = new.session
           /\ creds' = new.creds
           /\ credentialed' = IF apply THEN handle ELSE credentialed
           /\ applied' = IF apply /\ handle = "context" THEN new.creds
                         ELSE applied

-----------------------------------------------------------------------------
(* The session *)

Init ==
  /\ setup \in Setups
  /\ sessions = 0
  /\ streamer = FALSE
  /\ asked = <<>>
  /\ temporary = FALSE
  /\ session = FALSE
  /\ creds = NoCreds
  /\ credentialed = "none"
  /\ applied = NoCreds
  /\ streams = 0
  /\ queue = 1
  /\ next = <<>>
  /\ chunkIndex = <<>>
  /\ request = <<>>
  /\ submission = 0
  /\ inflight = {}
  /\ responses = {}
  /\ buffer = <<>>
  /\ gen = "none"
  /\ consumed = 0
  /\ views = {}
  /\ count = <<>>
  /\ cut = FALSE
  /\ ListInit(setup.lists, setup.stores)

Listless == stage \notin {"listing", "listed"}
(* The application is inside a call of the generator. *)
Inside == {"running", "draining", "leaving", "left"}

(* __enter__: a new C++ streamer. *)
Enter ==
  /\ ~streamer /\ Listless
  /\ sessions < MaxSessions
  /\ gen \in {"none", "over", "closed", "raised"}
  /\ sessions' = sessions + 1
  /\ streamer' = TRUE
  /\ asked' = <<>>
  /\ session' = FALSE
  /\ creds' = NoCreds
  /\ credentialed' = "none"
  /\ applied' = NoCreds
  /\ streams' = 0
  /\ gen' = "none"
  /\ UNCHANGED <<setup, temporary, queue, next, chunkIndex, request, cVars,
                 consumed, views, count, cut, listingVars>>

(* __exit__: runai_end joins the workers and drops what they had to do; a  *)
(* generator that is suspended stays.                                      *)
Exit ==
  /\ streamer /\ Listless
  /\ gen \notin Inside
  /\ streamer' = FALSE
  /\ credentialed' = "none"
  /\ inflight' = {}
  /\ responses' = {}
  /\ UNCHANGED <<setup, sessions, asked, temporary, session, creds, applied,
                 iterVars, submission, buffer, genVars, cut, listingVars>>

(* list_files: on the streamer of the session, or on one of its own. *)
StartList ==
  /\ gen \notin Inside
  /\ ListFiles
  /\ temporary' = ~streamer
  /\ asked' = AskedFor(streamer /\ scheme = "s3", NoCreds)
  /\ HandleObjectStore(scheme = "s3",
                       IF streamer THEN "context" ELSE "temporary", NoCreds)
  /\ UNCHANGED <<setup, sessions, streamer, iterVars, cVars, genVars, cut>>

ListStep ==
  /\ ListNext
  /\ UNCHANGED <<sessionVars, credVars, iterVars, cVars, genVars, cut>>

-----------------------------------------------------------------------------
(* stream_files and the generator *)

Homogeneous == \A f, g \in FileSet : Files[f].scheme = Files[g].scheme

(* runai_request returns an id; or an error, before or after the           *)
(* submission was committed, and then it raises.                           *)
Submit(parts, accepted) ==
  /\ consumed' = 0
  /\ views' = {}
  /\ \/ /\ streamer
        /\ inflight' = inflight \cup
                         SubmitRequest(parts, submission + 1, streams')
        /\ \/ gen' = accepted /\ submission' = submission + 1
           \/ gen' = "raised" /\ UNCHANGED submission
     \/ /\ gen' = "raised"
        /\ UNCHANGED <<submission, inflight>>

IsS3 == \E f \in FileSet : Files[f].scheme = "s3"

(* stream_files raises: for files of several storages before it has        *)
(* changed anything, for a memory limit that is too small after the        *)
(* credentials were applied.                                               *)
StreamFilesRaises ==
  /\ streamer /\ Listless
  /\ gen \in {"none", "over", "closed"}
  /\ \/ ~Homogeneous /\ UNCHANGED <<credVars, asked>>
     \/ /\ Homogeneous /\ LimitTooSmall
        /\ \E given \in setup.given :
             /\ HandleObjectStore(IsS3, "context", given)
             /\ asked' = AskedFor(IsS3, given)
  /\ gen' = "raised"
  /\ UNCHANGED <<setup, sessions, streamer, temporary, iterVars, cVars,
                 consumed, views, count, cut, listingVars>>

(* A new requests iterator, whose buffer takes the place of the one        *)
(* before, and its first request.                                          *)
StreamFiles ==
  LET first == NextRequest(1, [f \in FileSet |-> 0])
  IN  /\ streamer /\ Listless
      /\ gen \in {"none", "over", "closed"}
      /\ streams < MaxStreams
      /\ Homogeneous /\ ~LimitTooSmall
      /\ \E given \in setup.given :
           /\ HandleObjectStore(IsS3, "context", given)
           /\ asked' = AskedFor(IsS3, given)
      /\ cut' = (cut /\ streams # 0)
      /\ streams' = streams + 1
      /\ queue' = first.queue
      /\ next' = first.next
      /\ chunkIndex' = [f \in FileSet |-> 0]
      /\ request' = first.parts
      /\ buffer' = [a \in 0 .. MemoryLimit - 1 |-> <<0, 0>>]
      /\ count' = [c \in Chunks |-> 0]
      /\ IF first.parts = <<>>
         THEN /\ gen' = "over"
              /\ consumed' = 0
              /\ views' = {}
              /\ UNCHANGED <<submission, inflight>>
         ELSE Submit(first.parts, "ready")
      /\ UNCHANGED <<setup, sessions, streamer, temporary, responses,
                     listingVars>>

Owed == SumSeq(NumRanges(request))

(* The generator gets a response: a range of its submission that was read  *)
(* is yielded, everything else raises, which drains first.                 *)
NextChunk(r) ==
  /\ streamer /\ Listless
  /\ gen \in {"ready", "suspended", "running"}
  /\ consumed < Owed
  /\ r \in responses
  /\ r.ret # "Finished"
  /\ responses' = responses \ {r}
  /\ consumed' = consumed + 1
  /\ IF r.ret = "Success" /\ r.range.sub = submission
     THEN LET part == request[r.range.fileIndex]
              index == chunkIndex[part.file] + r.range.index - 1
              flat == FileBase(request, r.range.fileIndex) + r.range.index
          IN  /\ gen' = "suspended"
              /\ views' = views \cup
                   {[chunk |-> <<part.file, index>>,
                     start |-> RangeDsts(request)[flat],
                     size |-> SizeAt(part, r.range.index)]}
              /\ count' = [count EXCEPT ![<<part.file, index>>] = @ + 1]
     ELSE gen' = "draining" /\ UNCHANGED <<views, count>>
  /\ UNCHANGED <<sessionVars, credVars, iterVars, submission, inflight,
                 buffer, cut, listingVars>>

(* runai_response gives None for a response that says FinishedError, of    *)
(* whatever submission: the loop returns without an exception and has not  *)
(* counted the response.  The request is drained and get_chunks goes on.   *)
NextChunkNone(r) ==
  /\ streamer /\ Listless
  /\ gen \in {"ready", "suspended", "running"}
  /\ consumed < Owed
  /\ r \in responses
  /\ r.ret = "Finished"
  /\ responses' = responses \ {r}
  /\ gen' = "leaving"
  /\ cut' = TRUE
  /\ UNCHANGED <<sessionVars, credVars, iterVars, submission, inflight,
                 buffer, consumed, views, count, listingVars>>

(* The session is left: there is no response, and no submission 0. *)
NextChunkRaises ==
  /\ ~streamer
  /\ gen \in {"ready", "suspended"}
  /\ consumed < Owed
  /\ gen' = "closed"
  /\ UNCHANGED <<sessionVars, credVars, iterVars, cVars, consumed, views,
                 count, cut, listingVars>>

(* The request is drained; the next one is submitted, if there is one. *)
NextRequestOf ==
  LET new == NextRequest(queue, next)
  IN  /\ Listless
      /\ gen = "left" \/ (gen = "suspended" /\ consumed = Owed)
      /\ queue' = new.queue
      /\ next' = new.next
      /\ request' = new.parts
      /\ chunkIndex' = IF queue > Len(Files) THEN chunkIndex
                     ELSE Advanced
      /\ IF new.parts = <<>>
         THEN /\ gen' = "over"
              /\ UNCHANGED <<submission, inflight, consumed, views>>
         ELSE streams' = streams /\ Submit(new.parts, "running")
      /\ UNCHANGED <<sessionVars, credVars, streams, responses, buffer, count,
                     cut, listingVars>>

(* Mutant of Abandon: the generator just ends. *)
AbandonUndrained ==
  /\ gen = "suspended"
  /\ gen' = "closed"
  /\ UNCHANGED <<sessionVars, credVars, iterVars, cVars, consumed, views,
                 count, cut, listingVars>>

(* The application closes a generator that has yielded. *)
Abandon ==
  /\ gen = "suspended"
  /\ gen' = "draining"
  /\ UNCHANGED <<sessionVars, credVars, iterVars, cVars, consumed, views,
                 count, cut, listingVars>>

(* The draining is over: an exception or GeneratorExit goes on, or the loop *)
(* of get_chunks.                                                          *)
Drained == IF gen = "draining" THEN "closed" ELSE "left"

(* A response that is drained; None ends the draining. *)
DrainResponse(r) ==
  /\ responses' = responses \ {r}
  /\ consumed' = consumed + 1
  /\ gen' = IF r.ret = "Finished" THEN Drained ELSE gen
  /\ cut' = (cut \/ r.ret = "Finished")

(* Mutant of DrainOne: the responses drained are not the ones left over. *)
DrainOneMore ==
  /\ gen \in {"draining", "leaving"}
  /\ IF streamer /\ consumed < Owed + 1
     THEN \E r \in responses : DrainResponse(r)
     ELSE gen' = Drained /\ UNCHANGED <<responses, consumed, cut>>
  /\ UNCHANGED <<sessionVars, credVars, iterVars, submission, inflight,
                 buffer, views, count, listingVars>>

(* drain_active_submission: the responses that are left, unless the        *)
(* session is over.                                                        *)
DrainOne ==
  /\ gen \in {"draining", "leaving"}
  /\ IF streamer /\ consumed < Owed
     THEN \E r \in responses : DrainResponse(r)
     ELSE gen' = Drained /\ UNCHANGED <<responses, consumed, cut>>
  /\ UNCHANGED <<sessionVars, credVars, iterVars, submission, inflight,
                 buffer, views, count, listingVars>>

-----------------------------------------------------------------------------
Next ==
  \/ Enter
  \/ Exit
  \/ StartList
  \/ ListStep
  \/ StreamFilesRaises
  \/ StreamFiles
  \/ \E r \in responses : NextChunk(r) \/ NextChunkNone(r)
  \/ NextChunkRaises
  \/ NextRequestOf
  \/ Abandon
  \/ DrainOne
  \/ \E r \in inflight : Answer(r)

(* The workers answer what they were given, and a generator that is not    *)
(* suspended goes on; nothing makes the application go on.                 *)
Progress ==
  \/ DrainOne
  \/ gen = "running" /\ \E r \in responses : NextChunk(r) \/ NextChunkNone(r)
  \/ gen = "left" /\ NextRequestOf
  \/ \E r \in inflight : Answer(r)

Spec == Init /\ [][Next]_vars /\ WF_vars(Progress)

-----------------------------------------------------------------------------
(* Properties *)

(* What a worker may still write to is memory of the requests iterator     *)
(* that is alive: a range in flight is of the active submission, inside    *)
(* the live buffer, and no other range in flight or chunk that was yielded *)
(* from this request overlaps it.  Raw addresses keep nothing alive; only  *)
(* the draining of an abandoned generator does, which a None cuts short.   *)
WritesAreInLiveBuffer ==
  streamer /\ gen # "raised" /\ ~cut =>
    \A r \in inflight :
      /\ r.sub = submission /\ r.buffer = streams
      /\ r.dst + r.size <= MemoryLimit
      /\ \A o \in inflight \ {r} :
           r.dst + r.size <= o.dst \/ o.dst + o.size <= r.dst
      /\ \A v \in views :
           r.dst + r.size <= v.start \/ v.start + v.size <= r.dst

(* Each chunk a caller gets has the bytes of the range it asked for under  *)
(* that file and index, and keeps them until the next request, whatever    *)
(* the memory limit cuts the files into, unless a None came before.        *)
ChunksAreTheRanges ==
  ~cut =>
    \A v \in views :
      LET f == v.chunk[1]
          i == v.chunk[2] + 1
      IN  /\ v.size = Files[f].sizes[i]
          /\ \A k \in 0 .. v.size - 1 :
               buffer[v.start + k] = <<f, Files[f].offsets[i] + k>>

(* A stream that ends without an exception has yielded every range of      *)
(* every file once, the empty ones too, unless runai_response gave None;   *)
(* and even then no range is yielded twice.                                *)
StreamIsComplete ==
  \A c \in DOMAIN count :
    count[c] <= 1 /\ (gen = "over" /\ ~cut => count[c] = 1)

FirstGiven ==
  IF \A i \in DOMAIN asked : asked[i] = NoCreds THEN NoCreds
  ELSE asked[CHOOSE i \in DOMAIN asked :
               asked[i] # NoCreds /\ \A j \in 1 .. i - 1 : asked[j] = NoCreds]

(* Without boto3, the first credentials given to a stream of the session;  *)
(* with it, those of the first call that touched S3, be it a listing, or   *)
(* what boto3 finds if it gave none.                                       *)
InForce ==
  CASE asked = <<>> -> NoCreds
    [] asked # <<>> /\ setup.boto = "off" -> FirstGiven
    [] OTHER -> IF asked[1] = NoCreds THEN setup.boto ELSE asked[1]

(* The reads of S3 use the credentials that are in force in their session. *)
(* Neither an earlier session nor a listing without a session comes in     *)
(* between, and credentials given to a later stream of the session do not  *)
(* replace them.                                                           *)
CredentialsReachReads ==
  (\E r \in inflight : Files[r.path].scheme = "s3") => applied = InForce

(* A generator that is resumed, closed or fails comes back to its caller:  *)
(* it waits only for responses that are still to come, and the draining    *)
(* for exactly those.  After a None, which is not counted, the draining    *)
(* may wait for one that never comes.                                      *)
GeneratorReturns ==
  (gen \in {"running", "draining"}) ~> (gen \in {"suspended", "closed"} \/ cut)

=============================================================================
