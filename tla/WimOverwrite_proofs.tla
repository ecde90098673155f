------------------------- MODULE WimOverwrite_proofs -------------------------
(***************************************************************************)
(* wimlib's chunk compressors as write_blob_list uses them: for any number  *)
(* of worker threads, of messages and of chunks in a message, and for any   *)
(* blobs, chunks come back in the order they were handed over (ChunkFifo),  *)
(* each message has one owner, and prepare_chunk_buffer's assertion holds.  *)
(***************************************************************************)
EXTENDS WimOverwrite, ChunkCompressor_proofs

-----------------------------------------------------------------------------
(***************************************************************************)
(* The inductive invariant is the compressor's and what the writer knows of  *)
(* it: while it reads blobs every submitted message is full, and it asks for *)
(* a result only if there will be one.                                      *)
(***************************************************************************)
CtxFields == {"being", "solid", "done", "res_size", "csizes", "start", "filled", "buf", "result"}

OFields == {"pc", "hdr", "meta", "table", "xml", "integ", "sums", "end", "ret"}

BTypes == /\ DOMAIN blobs = {"todo", "known", "off", "piece", "open"}
          /\ blobs.todo \in Seq(DOMAIN Size) /\ blobs.off \in Int /\ blobs.piece \in Nat /\ blobs.open \in BOOLEAN
          /\ blobs.open => blobs.todo # <<>>
          /\ blobs.piece # 0 => blobs.open

WTypes == /\ DOMAIN w = {"pc", "back", "ret"} /\ DOMAIN ctx = CtxFields /\ DOMAIN o = OFields
          /\ ctx.buf \in BOOLEAN /\ ctx.filled \in Nat /\ job \in Jobs /\ BTypes

Between == {"result", "write", "end", "rewrite"}

Ending == w.pc \in {"endsolid", "destroy", "join"} \/ (w.pc \in Between /\ w.back = "result")

Control ==
    /\ w.pc # "assert"
    /\ o.pc = "blobs" <=> w.pc # "idle"
    /\ w.pc \in {"idle", "written", "compressor"} => kind = "none"
    /\ w.pc = "fill" => kind # "none"
    /\ kind # "none" /\ w.pc \in Between => w.back \in {"fill", "result"}
    /\ kind = "none" /\ w.pc \in Between \ {"result"} => w.back = "blob"
    /\ ctx.result # <<>> => w.pc = "write"
    /\ ctx.buf => next_submit_msg # NoMsg /\ w.pc \in {"fill", "blob", "destroy"}
    /\ ctx.filled # 0 => ctx.buf
    /\ w.pc = "blob" /\ ctx.buf => ctx.filled # 0
    /\ w.pc = "result" /\ w.back = "fill" => kind # "none" /\ next_submit_msg = NoMsg /\ ~NoResult
    /\ kind = "parallel" /\ submitted_msgs # <<>> /\ msgs[submitted_msgs[Len(submitted_msgs)]].n # K => Ending
    /\ kind = "parallel" /\ next_submit_msg # NoMsg /\ w.pc # "join" /\ ~ctx.buf => msgs[next_submit_msg].n # 0

IInv == CInv /\ WTypes /\ Control

-----------------------------------------------------------------------------
(***************************************************************************)
(* The writer: steps that leave the compressor alone                        *)
(***************************************************************************)
FifoStep == [Fifo!Next]_<<pendingChunks, chunkBack>>

\* A step of write.c that calls no operation of the compressor
LEMMA QuietStep ==
    ASSUME CInv, UNCHANGED ccvars, ctx'.result \in {ctx.result, <<>>} \/ kind = "none"
    PROVE  CInv' /\ FifoStep
<1>1. CInv' /\ pendingChunks' = pendingChunks
    BY SameCompressor, Zenon
<1>2. kind' = kind
    BY Zenon DEF ccvars
<1>3. chunkBack' = chunkBack \/ chunkBack' = <<>>
    BY <1>2, Zenon DEF chunkBack
<1> QED BY <1>1, <1>3, Zenon DEF FifoStep, Fifo!Next, Fifo!Use

\* begin_write_resource leaves the chunk being filled and the result alone.
LEMMA BegunFacts ==
    ASSUME NEW c, DOMAIN c = CtxFields, NEW size
    PROVE  /\ DOMAIN Begun(c, size) = CtxFields /\ Begun(c, size).buf = c.buf
           /\ Begun(c, size).filled = c.filled /\ Begun(c, size).result = c.result
BY Zenon DEF Begun, CtxFields

\* write_blob_list clears its context: no buffer, no result.
LEMMA NoCtxFacts ==
    DOMAIN NoCtx = CtxFields /\ NoCtx.buf = FALSE /\ NoCtx.filled = 0 /\ NoCtx.result = <<>>
BY Zenon DEF NoCtx, CtxFields

\* How the writer's place changes while the compressor and the chunk being
\* filled stay as they are
Moves == \/ w'.pc = "destroy"
         \/ w.pc \in {"write", "end", "rewrite"} /\ w'.pc \in {"end", "rewrite", w.back} /\ w'.back = w.back
         \/ w.pc = "solid" /\ w'.pc = "blob"
         \/ w.pc # "solid" /\ w'.pc = w.pc /\ w'.back = w.back
         \/ w.pc = "blob" /\ w'.pc = "fill" /\ kind # "none"
         \/ w.pc = "blob" /\ w'.pc = "write" /\ w'.back = "blob" /\ kind = "none"
         \/ w.pc = "result" /\ w'.pc = "endsolid"

\* A step between two calls of the compressor keeps what the writer has in
\* hand.
LEMMA PlaceKeeps ==
    ASSUME IInv, UNCHANGED <<ccvars, o>>, w.pc \notin {"idle", "join"}, Moves,
           ctx'.buf = ctx.buf, ctx'.filled = ctx.filled, ctx'.result = <<>> \/ w'.pc = "write"
    PROVE  Control'
<1>1. /\ UNCHANGED <<kind, msgs, submitted_msgs, next_submit_msg>> /\ K' = K /\ (NoResult' <=> NoResult)
      /\ o' = o
    BY SameCompressor, Zenon DEF IInv, ccvars, owned
<1>2. Control /\ (kind = "none" => next_submit_msg = NoMsg) /\ ctx.buf \in BOOLEAN
    BY Zenon DEF IInv, CInv, Plain, WTypes
<1>3. /\ w'.pc # "assert" /\ w'.pc # "idle" /\ o'.pc = "blobs"
      /\ w'.pc \in {"written", "compressor"} => kind' = "none"
      /\ w'.pc = "fill" => kind' # "none"
    BY <1>1, <1>2, Zenon DEF Control, Moves, Between
<1>4. /\ kind' # "none" /\ w'.pc \in Between => w'.back \in {"fill", "result"}
      /\ kind' = "none" /\ w'.pc \in Between \ {"result"} => w'.back = "blob"
    BY <1>1, <1>2, Zenon DEF Control, Moves, Between
<1>5. /\ ctx'.buf => next_submit_msg' # NoMsg /\ w'.pc \in {"fill", "blob", "destroy"}
      /\ ctx'.filled # 0 => ctx'.buf
      /\ w'.pc = "blob" /\ ctx'.buf => ctx'.filled # 0
    BY <1>1, <1>2, Zenon DEF Control, Moves, Between
<1>6. w'.pc = "result" /\ w'.back = "fill" => kind' # "none" /\ next_submit_msg' = NoMsg /\ ~NoResult'
    BY <1>1, <1>2, Zenon DEF Control, Moves, Between
<1>7. Ending => Ending'
    BY <1>1, <1>2, Zenon DEF Control, Moves, Between, Ending
<1>8. /\ kind' = "parallel" /\ submitted_msgs' # <<>> /\ msgs'[submitted_msgs'[Len(submitted_msgs')]].n # K' => Ending'
      /\ kind' = "parallel" /\ next_submit_msg' # NoMsg /\ w'.pc # "join" /\ ~ctx'.buf => msgs'[next_submit_msg'].n # 0
    BY <1>1, <1>2, <1>7, Zenon DEF Control
<1> QED BY <1>1, <1>3, <1>4, <1>5, <1>6, <1>8, Zenon DEF Control

\* Such a step is no step of the queue.
LEMMA WriterKeeps ==
    ASSUME IInv, UNCHANGED <<ccvars, o, job>>, w.pc \notin {"idle", "join"}, Moves, BTypes',
           DOMAIN w' = {"pc", "back", "ret"}, DOMAIN ctx' = CtxFields, ctx'.buf = ctx.buf, ctx'.filled = ctx.filled,
           ctx'.result = <<>> \/ (w'.pc = "write" /\ kind = "none")
    PROVE  IInv' /\ FifoStep
<1>1. Control'
    BY PlaceKeeps, Zenon
<1>2. WTypes'
    BY Zenon DEF IInv, WTypes
<1>3. CInv' /\ FifoStep
    BY QuietStep, Zenon DEF IInv
<1> QED BY <1>1, <1>2, <1>3, Zenon DEF IInv

\* The blobs still to be written stay what they are.
LEMMA SameBlobs == ASSUME BTypes, UNCHANGED blobs PROVE BTypes'
BY Zenon DEF BTypes

\* What IInv says of the writer's records
LEMMA WriterFacts ==
    ASSUME IInv
    PROVE  /\ DOMAIN w = {"pc", "back", "ret"} /\ DOMAIN ctx = CtxFields /\ BTypes
           /\ w.pc # "write" => ctx.result = <<>>
BY Zenon DEF IInv, WTypes, Control

\* write_blob_list begins a solid resource.
LEMMA BeginSolidKeeps ==
    ASSUME IInv, BeginSolid, UNCHANGED o
    PROVE  IInv' /\ FifoStep
<1>1. UNCHANGED <<ccvars, o, job, blobs>> /\ w.pc = "solid" /\ DOMAIN w = {"pc", "back", "ret"} /\ DOMAIN ctx = CtxFields
      /\ ctx.result = <<>> /\ BTypes'
    BY WriterFacts, SameBlobs, Zenon DEF BeginSolid
<1>2. PICK size : \/ ctx' = Begun(ctx, size) /\ w' = [w EXCEPT !.pc = "blob"]
                  \/ UNCHANGED ctx /\ BWFail
    BY Zenon DEF BeginSolid, PutFails
<1>3. /\ DOMAIN w' = {"pc", "back", "ret"} /\ DOMAIN ctx' = CtxFields /\ ctx'.buf = ctx.buf /\ ctx'.filled = ctx.filled
      /\ ctx'.result = <<>> /\ w'.pc \in {"blob", "destroy"}
  <2>1. CASE ctx' = Begun(ctx, size) /\ w' = [w EXCEPT !.pc = "blob"]
    <3>1. DOMAIN w' = {"pc", "back", "ret"} /\ w'.pc = "blob"
        BY <1>1, <2>1, Zenon
    <3> QED BY <1>1, <2>1, <3>1, BegunFacts, Zenon
  <2>2. CASE UNCHANGED ctx /\ BWFail
      BY <1>1, <2>2, Zenon DEF BWFail
  <2> QED BY <1>2, <2>1, <2>2, Zenon
<1> QED BY <1>1, <1>3, WriterKeeps, Zenon DEF Moves

\* write_blob_begin_read takes the next blob.
LEMMA BeginBlobKeeps ==
    ASSUME IInv, BeginBlob, UNCHANGED o
    PROVE  IInv' /\ FifoStep
<1>1. /\ UNCHANGED <<ccvars, o, job>> /\ w.pc = "blob" /\ DOMAIN w = {"pc", "back", "ret"} /\ DOMAIN ctx = CtxFields
      /\ ctx.result = <<>> /\ BTypes /\ ~blobs.open /\ blobs.todo # <<>>
    BY WriterFacts, Zenon DEF BeginBlob
<1>2. w' = w \/ BWFail
    BY Zenon DEF BeginBlob
<1>3. /\ DOMAIN w' = {"pc", "back", "ret"} /\ Moves
    BY <1>1, <1>2, Zenon DEF BWFail, Moves
<1>4. /\ DOMAIN ctx' = CtxFields /\ ctx'.buf = ctx.buf /\ ctx'.filled = ctx.filled /\ ctx'.result = <<>>
    BY <1>1, Zenon DEF BeginBlob, CtxFields
<1>5. Tail(blobs.todo) \in Seq(DOMAIN Size)
    BY <1>1 DEF BTypes
<1>6. \/ blobs' = blobs
      \/ blobs' = [blobs EXCEPT !.todo = Tail(@)]
      \/ \E known : blobs' = [blobs EXCEPT !.open = TRUE, !.off = 0, !.known = known]
    BY Zenon DEF BeginBlob
<1>7. CASE blobs' = blobs
    BY <1>1, <1>3, <1>4, <1>7, SameBlobs, WriterKeeps, Zenon
<1>8. CASE blobs' = [blobs EXCEPT !.todo = Tail(@)]
  <2>1. /\ DOMAIN blobs' = DOMAIN blobs /\ blobs'.todo = Tail(blobs.todo)
        /\ blobs'.off = blobs.off /\ blobs'.piece = blobs.piece /\ blobs'.open = blobs.open
      BY <1>1, <1>8, Zenon DEF BTypes
  <2>2. BTypes'
      BY <1>1, <1>5, <2>1, Zenon DEF BTypes
  <2> QED BY <1>1, <1>3, <1>4, <2>2, WriterKeeps, Zenon
<1>9. ASSUME NEW known, blobs' = [blobs EXCEPT !.open = TRUE, !.off = 0, !.known = known]
      PROVE  IInv' /\ FifoStep
  <2>1. /\ DOMAIN blobs' = DOMAIN blobs /\ blobs'.todo = blobs.todo
        /\ blobs'.off = 0 /\ blobs'.piece = blobs.piece /\ blobs'.open = TRUE
      BY <1>1, <1>9, Zenon DEF BTypes
  <2>2. /\ DOMAIN blobs' = {"todo", "known", "off", "piece", "open"}
        /\ blobs'.todo \in Seq(DOMAIN Size) /\ blobs'.off \in Int /\ blobs'.piece \in Nat
        /\ blobs'.todo # <<>>
    <3>1. /\ DOMAIN blobs = {"todo", "known", "off", "piece", "open"}
          /\ blobs.todo \in Seq(DOMAIN Size) /\ blobs.piece \in Nat /\ blobs.todo # <<>>
        BY <1>1, Zenon DEF BTypes
    <3> QED BY <2>1, <3>1
  <2>3. BTypes'
      BY <2>1, <2>2, Zenon DEF BTypes
  <2> QED BY <1>1, <1>3, <1>4, <2>3, WriterKeeps, Zenon
<1> QED BY <1>6, <1>7, <1>8, <1>9, Zenon

\* write_blob_process_chunk gets the next piece of the blob.
LEMMA ReadPieceKeeps ==
    ASSUME IInv, ReadPiece, UNCHANGED o
    PROVE  IInv' /\ FifoStep
<1> DEFINE c == Head(blobs.todo)
           n == IF BUFFER_SIZE <= Size[c] - blobs.off THEN BUFFER_SIZE ELSE Size[c] - blobs.off
<1>1. /\ UNCHANGED <<ccvars, o, job>> /\ w.pc = "blob" /\ DOMAIN w = {"pc", "back", "ret"} /\ DOMAIN ctx = CtxFields
      /\ ctx.result = <<>> /\ BTypes /\ blobs.open /\ blobs.piece = 0
    BY WriterFacts, Zenon DEF ReadPiece
<1>2. \/ BWFail /\ UNCHANGED <<blobs, ctx>>
      \/ /\ n > 0 /\ kind # "none"
         /\ blobs' = [blobs EXCEPT !.piece = n] /\ w' = [w EXCEPT !.pc = "fill"] /\ UNCHANGED ctx
      \/ /\ n > 0 /\ kind = "none"
         /\ blobs' = [blobs EXCEPT !.off = @ + n]
         /\ ctx' = [ctx EXCEPT !.result = [data |-> Bytes(c, blobs.off, n), csize |-> n, usize |-> n]]
         /\ w' = [w EXCEPT !.pc = "write", !.back = "blob"]
      \/ /\ n = 0 /\ blobs' = [blobs EXCEPT !.todo = Tail(@), !.open = FALSE] /\ UNCHANGED <<w, ctx>>
    BY Zenon DEF ReadPiece
<1>3. n \in Int /\ Tail(blobs.todo) \in Seq(DOMAIN Size)
  <2>1. c \in DOMAIN Size /\ Tail(blobs.todo) \in Seq(DOMAIN Size) /\ blobs.off \in Int
      BY <1>1 DEF BTypes
  <2> QED BY <2>1, SizeAssumption, ChunkAssumption
<1> HIDE DEF n
<1>4. DOMAIN w' = {"pc", "back", "ret"} /\ Moves
    BY <1>1, <1>2, Zenon DEF BWFail, Moves
<1>5. /\ DOMAIN ctx' = CtxFields /\ ctx'.buf = ctx.buf /\ ctx'.filled = ctx.filled
      /\ ctx'.result = <<>> \/ (w'.pc = "write" /\ kind = "none")
    BY <1>1, <1>2, Zenon DEF CtxFields
<1>6. BTypes'
  <2>1. CASE UNCHANGED blobs
      BY <1>1, <2>1, SameBlobs, Zenon
  <2>2. CASE n > 0 /\ blobs' = [blobs EXCEPT !.piece = n]
    <3>1. /\ DOMAIN blobs' = DOMAIN blobs /\ blobs'.todo = blobs.todo
          /\ blobs'.off = blobs.off /\ blobs'.piece = n /\ blobs'.open = blobs.open
        BY <1>1, <2>2, Zenon DEF BTypes
    <3>2. /\ DOMAIN blobs' = {"todo", "known", "off", "piece", "open"}
          /\ blobs'.todo \in Seq(DOMAIN Size) /\ blobs'.off \in Int /\ blobs'.piece \in Nat
          /\ blobs'.todo # <<>>
        BY <1>1, <1>3, <2>2, <3>1 DEF BTypes
    <3> QED BY <1>1, <3>1, <3>2, Zenon DEF BTypes
  <2>3. CASE blobs' = [blobs EXCEPT !.off = @ + n]
    <3>1. /\ DOMAIN blobs' = DOMAIN blobs /\ blobs'.todo = blobs.todo
          /\ blobs'.off = blobs.off + n /\ blobs'.piece = blobs.piece /\ blobs'.open = blobs.open
        BY <1>1, <2>3, Zenon DEF BTypes
    <3> QED BY <1>1, <1>3, <3>1 DEF BTypes
  <2>4. CASE blobs' = [blobs EXCEPT !.todo = Tail(@), !.open = FALSE]
    <3>1. /\ DOMAIN blobs' = DOMAIN blobs /\ blobs'.todo = Tail(blobs.todo)
          /\ blobs'.off = blobs.off /\ blobs'.piece = 0 /\ blobs'.open = FALSE
        BY <1>1, <2>4, Zenon DEF BTypes
    <3> QED BY <1>1, <1>3, <3>1, Zenon DEF BTypes
  <2> QED BY <1>2, <2>1, <2>2, <2>3, <2>4, Zenon
<1> QED BY <1>1, <1>4, <1>5, <1>6, WriterKeeps, Zenon

\* write_chunk uses the result up.
LEMMA WriteChunkKeeps ==
    ASSUME IInv, WriteChunk, UNCHANGED o
    PROVE  IInv' /\ FifoStep
<1>1. /\ UNCHANGED <<ccvars, o, job>> /\ w.pc = "write" /\ DOMAIN w = {"pc", "back", "ret"} /\ DOMAIN ctx = CtxFields
      /\ BTypes'
    BY WriterFacts, SameBlobs, Zenon DEF WriteChunk
<1>2. \/ w' = [w EXCEPT !.pc = "end"] \/ w' = [w EXCEPT !.pc = w.back] \/ BWFail
    BY Zenon DEF WriteChunk, PutFails
<1>3. DOMAIN w' = {"pc", "back", "ret"} /\ Moves
    BY <1>1, <1>2, Zenon DEF Moves, BWFail
<1> DEFINE c == IF NewResource THEN Begun(ctx, Size[Head(ctx.being)]) ELSE ctx
           done == c.done + ctx.result.usize
           k == Finished(ctx.being, done)
           csizes == IF kind = "none" THEN c.csizes ELSE Append(c.csizes, ctx.result.csize)
           c1 == [c EXCEPT !.csizes = csizes, !.done = done, !.result = <<>>]
           solid == c1.solid \o SubSeq(ctx.being, 1, k)
           being == SubSeq(c1.being, k + 1, Len(c1.being))
           rest == done - SumTo(Sizes(ctx.being), k)
<1>4. \/ ctx' = [c1 EXCEPT !.done = rest, !.solid = solid, !.being = being]
      \/ ctx' = c1
      \/ ctx' = [ctx EXCEPT !.result = <<>>]
    BY Zenon DEF WriteChunk
<1>5. DOMAIN c = CtxFields /\ c.buf = ctx.buf /\ c.filled = ctx.filled
    BY <1>1, BegunFacts, Zenon
<1> HIDE DEF c, done, csizes
<1>6. DOMAIN c1 = CtxFields /\ c1.buf = ctx.buf /\ c1.filled = ctx.filled /\ c1.result = <<>>
    BY <1>5, Zenon DEF CtxFields
<1> HIDE DEF c1, solid, being, rest
<1>7. /\ DOMAIN ctx' = CtxFields /\ ctx'.buf = ctx.buf /\ ctx'.filled = ctx.filled /\ ctx'.result = <<>>
    BY <1>1, <1>4, <1>6, Zenon DEF CtxFields
<1> QED BY <1>1, <1>3, <1>7, WriterKeeps, Zenon

\* After the last chunk of a blob the writer goes back to where it was.
LEMMA BlobDoneFacts ==
    ASSUME BlobDone, DOMAIN w = {"pc", "back", "ret"}, DOMAIN ctx = CtxFields
    PROVE  /\ DOMAIN w' = {"pc", "back", "ret"} /\ w'.pc = w.back /\ w'.back = w.back
           /\ DOMAIN ctx' = CtxFields /\ ctx'.buf = ctx.buf /\ ctx'.filled = ctx.filled /\ ctx'.result = ctx.result
BY Zenon DEF BlobDone, CtxFields

\* end_write_resource writes the chunk table.
LEMMA EndResourceKeeps ==
    ASSUME IInv, EndResource, UNCHANGED o
    PROVE  IInv' /\ FifoStep
<1>1. /\ UNCHANGED <<ccvars, o, job>> /\ w.pc = "end" /\ DOMAIN w = {"pc", "back", "ret"} /\ DOMAIN ctx = CtxFields
      /\ ctx.result = <<>> /\ BTypes'
    BY WriterFacts, SameBlobs, Zenon DEF EndResource
<1>2. BlobDone \/ (w' = [w EXCEPT !.pc = "rewrite"] /\ UNCHANGED ctx) \/ (BWFail /\ UNCHANGED ctx)
    BY Zenon DEF EndResource, PutFails
<1>3. CASE BlobDone
    BY <1>1, <1>3, BlobDoneFacts, WriterKeeps, Zenon DEF Moves
<1>4. CASE w' = [w EXCEPT !.pc = "rewrite"] /\ UNCHANGED ctx
    BY <1>1, <1>4, WriterKeeps, Zenon DEF Moves
<1>5. CASE BWFail /\ UNCHANGED ctx
    BY <1>1, <1>5, WriterKeeps, Zenon DEF Moves, BWFail
<1> QED BY <1>2, <1>3, <1>4, <1>5, Zenon

\* maybe_rewrite_blob_uncompressed
LEMMA RewriteBlobKeeps ==
    ASSUME IInv, RewriteBlob, UNCHANGED o
    PROVE  IInv' /\ FifoStep
<1>1. /\ UNCHANGED <<ccvars, o, job>> /\ w.pc = "rewrite" /\ DOMAIN w = {"pc", "back", "ret"} /\ DOMAIN ctx = CtxFields
      /\ ctx.result = <<>> /\ BTypes'
    BY WriterFacts, SameBlobs, Zenon DEF RewriteBlob
<1>2. BlobDone \/ (BWFail /\ UNCHANGED ctx)
    BY Zenon DEF RewriteBlob, PutFails
<1>3. CASE BlobDone
    BY <1>1, <1>3, BlobDoneFacts, WriterKeeps, Zenon DEF Moves
<1>4. CASE BWFail /\ UNCHANGED ctx
    BY <1>1, <1>4, WriterKeeps, Zenon DEF Moves, BWFail
<1> QED BY <1>2, <1>3, <1>4, Zenon

\* finish_remaining_chunks is through.
LEMMA NoMoreResultsKeeps ==
    ASSUME IInv, NoMoreResults, UNCHANGED o
    PROVE  IInv' /\ FifoStep
<1>1. /\ UNCHANGED <<ccvars, o, job, ctx>> /\ w.pc = "result" /\ DOMAIN w = {"pc", "back", "ret"} /\ DOMAIN ctx = CtxFields
      /\ ctx.result = <<>> /\ BTypes' /\ NoResult
    BY WriterFacts, SameBlobs, Zenon DEF NoMoreResults
<1>2. w.back # "fill"
    BY <1>1, Zenon DEF IInv, Control
<1>3. w' = [w EXCEPT !.pc = "endsolid"] \/ w' = [w EXCEPT !.pc = "destroy"]
    BY <1>2, Zenon DEF NoMoreResults
<1>4. DOMAIN w' = {"pc", "back", "ret"} /\ w'.pc \in {"endsolid", "destroy"}
    BY <1>1, <1>3, Zenon
<1> QED BY <1>1, <1>4, WriterKeeps, Zenon DEF Moves

\* write_blob_list ends the solid resource.
LEMMA EndSolidKeeps ==
    ASSUME IInv, EndSolid, UNCHANGED o
    PROVE  IInv' /\ FifoStep
<1>1. /\ UNCHANGED <<ccvars, o, job, ctx>> /\ w.pc = "endsolid" /\ DOMAIN w = {"pc", "back", "ret"} /\ DOMAIN ctx = CtxFields
      /\ ctx.result = <<>> /\ BTypes'
    BY WriterFacts, SameBlobs, Zenon DEF EndSolid
<1>2. w' = [w EXCEPT !.pc = "destroy"] \/ BWFail
    BY Zenon DEF EndSolid, PutFails
<1>3. DOMAIN w' = {"pc", "back", "ret"} /\ w'.pc = "destroy"
    BY <1>1, <1>2, Zenon DEF BWFail
<1> QED BY <1>1, <1>3, WriterKeeps, Zenon DEF Moves

-----------------------------------------------------------------------------
(***************************************************************************)
(* The writer: steps that use the compressor                                *)
(***************************************************************************)
LEMMA SameTypes ==
    ASSUME WTypes, UNCHANGED <<o, job>>, BTypes', DOMAIN w' = DOMAIN w, DOMAIN ctx' = DOMAIN ctx,
           ctx'.buf \in BOOLEAN, ctx'.filled \in Nat
    PROVE  WTypes'
BY Zenon DEF WTypes

\* Without a compressor nothing is pending and nothing has come back.
LEMMA NoneBack == kind = "none" => pendingChunks = <<>> /\ chunkBack = <<>>
BY Zenon DEF pendingChunks, chunkBack

\* A function with no arguments is the empty sequence.
LEMMA EmptyFunction == ASSUME NEW f, f = [i \in 1 .. 0 |-> f[i]] PROVE f = <<>>
OBVIOUS

\* new_parallel_chunk_compressor, or the serial one when that fails: all
\* messages are available.
LEMMA CreateKeeps ==
    ASSUME IInv, CreateCompressor, UNCHANGED o
    PROVE  IInv' /\ FifoStep
<1>1. /\ UNCHANGED <<o, job, blobs, ctx>> /\ w.pc = "compressor" /\ DOMAIN w = {"pc", "back", "ret"}
      /\ DOMAIN ctx = CtxFields /\ ctx.result = <<>> /\ BTypes' /\ ~ctx.buf /\ ctx.filled = 0 /\ kind = "none"
      /\ o.pc = "blobs" /\ WTypes
    BY WriterFacts, SameBlobs, Zenon DEF CreateCompressor, IInv, Control
<1>2. CASE BWFail /\ UNCHANGED ccvars
  <2>1. DOMAIN w' = {"pc", "back", "ret"} /\ w'.pc = "destroy"
      BY <1>1, <1>2, Zenon DEF BWFail
  <2> QED BY <1>1, <1>2, <2>1, WriterKeeps, Zenon DEF Moves
<1>3. ASSUME w' = [w EXCEPT !.pc = IF job.solid THEN "solid" ELSE "blob"], CInv', pendingChunks' = <<>>,
             next_submit_msg' = NoMsg, submitted_msgs' = <<>>
      PROVE  IInv' /\ FifoStep
  <2>1. DOMAIN w' = DOMAIN w /\ w'.pc \in {"solid", "blob"}
      BY <1>1, <1>3, Zenon
  <2>2. WTypes'
      BY <1>1, <2>1, SameTypes, Zenon DEF WTypes
  <2>3. Control'
      BY <1>1, <1>3, <2>1, Zenon DEF Control, Between
  <2>4. chunkBack' = <<>>
      BY <1>1, Zenon DEF chunkBack
  <2> QED BY <1>1, <1>3, <2>2, <2>3, <2>4, NoneBack, Zenon DEF IInv, FifoStep
<1>4. ASSUME NEW k \in {"none", "serial"}, NoCompressor(k), w' = [w EXCEPT !.pc = IF job.solid THEN "solid" ELSE "blob"]
      PROVE  IInv' /\ FifoStep
  <2>1. CInv'
      BY <1>4, NoCompressorKeeps, Zenon
  <2>2. next_submit_msg' = NoMsg /\ submitted_msgs' = <<>> /\ next_ready_msg' = NoMsg /\ kind' # "parallel"
      BY <1>4, Zenon DEF NoCompressor
  <2>3. pendingChunks' = <<>>
      BY <2>2, Zenon DEF pendingChunks
  <2> QED BY <1>3, <1>4, <2>1, <2>2, <2>3, Zenon
<1>5. ASSUME NEW s \in Shapes, new_parallel_chunk_compressor(s),
             w' = [w EXCEPT !.pc = IF job.solid THEN "solid" ELSE "blob"]
      PROVE  IInv' /\ FifoStep
  <2>1. CInv'
      BY <1>5, NewParallelKeeps, Zenon
  <2>2. next_submit_msg' = NoMsg /\ submitted_msgs' = <<>> /\ next_ready_msg' = NoMsg /\ kind' = "parallel"
      BY <1>5, Zenon DEF new_parallel_chunk_compressor
  <2>3. Counted'
      BY <2>1, <2>2, CountedNext, Zenon DEF PInv
  <2>4. pendingCount' = 0
      BY <2>2, Zenon DEF pendingCount, inOrder
  <2>5. pendingChunks' = [i \in 1 .. 0 |-> pendingChunks'[i]]
      BY <2>3, <2>4, Zenon DEF Counted
  <2>6. pendingChunks' = <<>>
      BY <2>5, EmptyFunction, Zenon
  <2> QED BY <1>3, <1>5, <2>1, <2>2, <2>6, Zenon
<1>6. \/ BWFail /\ UNCHANGED ccvars
      \/ /\ w' = [w EXCEPT !.pc = IF job.solid THEN "solid" ELSE "blob"]
         /\ NoCompressor("none") \/ NoCompressor("serial") \/ \E s \in Shapes : new_parallel_chunk_compressor(s)
    BY Zenon DEF CreateCompressor, new_serial_chunk_compressor
<1> QED BY <1>2, <1>4, <1>5, <1>6, Zenon

\* parallel_chunk_compressor_destroy waits for the threads and drops what has
\* not come back.
LEMMA JoinKeeps ==
    ASSUME IInv, JoinThreads, UNCHANGED o
    PROVE  IInv' /\ FifoStep
<1>1. /\ UNCHANGED <<o, job, blobs, ctx>> /\ w.pc = "join" /\ DOMAIN w = {"pc", "back", "ret"}
      /\ DOMAIN ctx = CtxFields /\ ctx.result = <<>> /\ BTypes' /\ ~ctx.buf /\ ctx.filled = 0
      /\ o.pc = "blobs" /\ WTypes /\ w' = [w EXCEPT !.pc = "written"] /\ NoCompressor("none")
    BY WriterFacts, SameBlobs, Zenon DEF JoinThreads, destroy, IInv, Control
<1>2. CInv' /\ next_submit_msg' = NoMsg /\ submitted_msgs' = <<>> /\ kind' = "none"
    BY <1>1, NoCompressorKeeps, Zenon DEF NoCompressor
<1>3. DOMAIN w' = DOMAIN w /\ w'.pc = "written"
    BY <1>1, Zenon
<1>4. WTypes'
    BY <1>1, <1>3, SameTypes, Zenon DEF WTypes
<1>5. Control'
    BY <1>1, <1>2, <1>3, Zenon DEF Control, Between
<1>6. pendingChunks' = <<>> /\ chunkBack' = <<>>
    BY <1>2, Zenon DEF pendingChunks, chunkBack
<1> QED BY <1>2, <1>4, <1>5, <1>6, Zenon DEF IInv, FifoStep, Fifo!Next, Fifo!Destroy

\* write_blob_list gives the compressor up, after an error with chunks still
\* underway.
LEMMA DestroyKeeps ==
    ASSUME IInv, DestroyContext, UNCHANGED o
    PROVE  IInv' /\ FifoStep
<1>1. /\ UNCHANGED <<o, job, blobs>> /\ w.pc = "destroy" /\ DOMAIN w = {"pc", "back", "ret"} /\ ctx' = NoCtx
      /\ DOMAIN ctx = CtxFields /\ ctx.result = <<>> /\ BTypes'
      /\ o.pc = "blobs" /\ WTypes /\ w' = [w EXCEPT !.pc = "join"] /\ CInv /\ Control
    BY WriterFacts, SameBlobs, Zenon DEF DestroyContext, IInv, Control
<1>2. /\ DOMAIN ctx' = CtxFields /\ ctx'.buf = FALSE /\ ctx'.filled = 0 /\ ctx'.result = <<>>
    BY <1>1, NoCtxFacts, Zenon
<1>3. DOMAIN w' = DOMAIN w /\ w'.pc = "join"
    BY <1>1, Zenon
<1>4. WTypes'
  <2>1. ctx'.buf \in BOOLEAN
      BY <1>2, Zenon
  <2>2. ctx'.filled \in Nat /\ DOMAIN ctx' = DOMAIN ctx
      BY <1>1, <1>2
  <2> QED BY <1>1, <1>3, <2>1, <2>2, SameTypes, Zenon
<1>5. /\ CInv' /\ pendingChunks' = pendingChunks
      /\ UNCHANGED kind
  <2>1. CASE kind = "parallel"
    <3>1. Terminate
        BY <2>1, Zenon DEF DestroyContext
    <3>2. UNCHANGED <<kind, shape, msgs, owned>>
        BY <3>1, Zenon DEF Terminate
    <3>3. CInv'
        BY <1>1, <2>1, <3>1, TerminateKeeps, Zenon
    <3>4. SameChunks
        BY <3>2, Zenon DEF SameChunks
    <3>5. pendingChunks' = pendingChunks
        BY <1>1, <3>2, <3>3, <3>4, QuietKeepsPending
    <3> QED BY <3>2, <3>3, <3>5, Zenon
  <2>2. CASE kind # "parallel"
    <3>1. UNCHANGED ccvars
        BY <2>2, Zenon DEF DestroyContext
    <3> QED BY <1>1, <3>1, SameCompressor, Zenon DEF ccvars
  <2> QED BY <2>1, <2>2, Zenon
<1>6. Control'
    BY <1>1, <1>2, <1>3, Zenon DEF Control, Between, Ending
<1>7. chunkBack' = chunkBack
    BY <1>1, <1>2, <1>5, Zenon DEF chunkBack
<1> QED BY <1>4, <1>5, <1>6, <1>7, Zenon DEF IInv, FifoStep

\* prepare_chunk_buffer: there is a buffer, or a result to wait for.
LEMMA GetBufferKeeps ==
    ASSUME IInv, GetBuffer, UNCHANGED o
    PROVE  IInv' /\ FifoStep
<1>1. /\ UNCHANGED <<o, job, blobs>> /\ w.pc = "fill" /\ DOMAIN w = {"pc", "back", "ret"} /\ ~ctx.buf
      /\ DOMAIN ctx = CtxFields /\ ctx.result = <<>> /\ BTypes' /\ ctx.filled = 0 /\ kind # "none"
      /\ o.pc = "blobs" /\ WTypes /\ CInv /\ Control
    BY WriterFacts, SameBlobs, Zenon DEF GetBuffer, IInv, Control
<1>2. /\ kind = "parallel" /\ submitted_msgs # <<>> => msgs[submitted_msgs[Len(submitted_msgs)]].n = K
    BY <1>1, Zenon DEF Control, Ending, Between
<1>3. CASE NoBuffer
  <2>1. /\ UNCHANGED <<ccvars, ctx>> /\ w' = [w EXCEPT !.pc = "result", !.back = "fill"]
      BY <1>3, Zenon DEF GetBuffer
  <2>2. next_submit_msg = NoMsg /\ ~NoResult
      BY <1>1, <1>3, NoBufferMeansResult, Zenon
  <2>3. DOMAIN w' = DOMAIN w /\ w'.pc = "result" /\ w'.back = "fill"
      BY <1>1, <2>1, Zenon
  <2>4. WTypes'
      BY <1>1, <2>1, <2>3, SameTypes, Zenon DEF WTypes
  <2>5. /\ UNCHANGED <<kind, msgs, submitted_msgs, next_submit_msg>> /\ K' = K /\ (NoResult' <=> NoResult)
      BY <1>1, <2>1, SameCompressor, Zenon DEF ccvars, owned
  <2>6. Control'
      BY <1>1, <1>2, <2>1, <2>2, <2>3, <2>5, SMTT(30) DEF Control, Between
  <2> QED BY <1>1, <2>1, <2>4, <2>6, QuietStep DEF IInv
<1>4. CASE ~NoBuffer
  <2>1. /\ get_chunk_buffer /\ ctx' = [ctx EXCEPT !.buf = TRUE] /\ w' = w
      BY <1>4, Zenon DEF GetBuffer
  <2>2. DOMAIN ctx' = CtxFields /\ ctx'.buf = TRUE /\ ctx'.filled = 0 /\ ctx'.result = <<>>
      BY <1>1, <2>1, Zenon DEF CtxFields
  <2>3. WTypes'
    <3>1. ctx'.buf \in BOOLEAN /\ ctx'.filled \in Nat /\ DOMAIN ctx' = DOMAIN ctx /\ DOMAIN w' = DOMAIN w
        BY <1>1, <2>1, <2>2
    <3> QED BY <1>1, <3>1, SameTypes, Zenon
  <2>4. ASSUME CInv', pendingChunks' = pendingChunks, next_submit_msg' # NoMsg, kind' = kind,
               kind = "parallel" /\ submitted_msgs' # <<>> => msgs'[submitted_msgs'[Len(submitted_msgs')]].n = K'
        PROVE  IInv' /\ FifoStep
    <3>1. Control'
        BY <1>1, <2>1, <2>2, <2>4, Zenon DEF Control, Between
    <3>2. chunkBack' = chunkBack
        BY <1>1, <2>2, <2>4 DEF chunkBack
    <3> QED BY <2>3, <2>4, <3>1, <3>2, Zenon DEF IInv, FifoStep
  <2>5. CASE kind = "serial"
    <3>1. CInv' /\ pendingChunks' = pendingChunks /\ next_submit_msg' = 1 /\ kind' = kind
        BY <1>1, <2>1, <2>5, SerialGetKeeps, Zenon
    <3> QED BY <2>4, <2>5, <3>1 DEF NoMsg
  <2>6. CASE kind = "parallel" /\ next_submit_msg # NoMsg
    <3>1. UNCHANGED <<msgs, available_msgs, next_submit_msg, kind, shape, submitted_msgs, next_ready_msg, next_chunk_idx,
                      queues, thr, waiting>>
        BY <2>1, <2>6, Zenon DEF get_chunk_buffer
    <3>2. UNCHANGED ccvars
        BY <3>1, Zenon DEF ccvars, owned
    <3> QED BY <1>1, <1>2, <2>4, <2>6, <3>1, <3>2, SameCompressor, SMTT(30)
  <2>7. CASE kind = "parallel" /\ next_submit_msg = NoMsg
    <3>1. available_msgs # <<>>
        BY <1>4, <2>7, Zenon DEF NoBuffer
    <3>2. submitted_msgs # <<>> => msgs[submitted_msgs[Len(submitted_msgs)]].n = K
        BY <1>2, <2>7, Zenon
    <3>3. /\ CInv' /\ DOMAIN msgs' = DOMAIN msgs
          /\ next_submit_msg' \in DOMAIN msgs /\ ~In(submitted_msgs, next_submit_msg')
          /\ next_submit_msg' # NoMsg
          /\ \A m \in DOMAIN msgs : m # next_submit_msg' => msgs'[m] = msgs[m]
          /\ UNCHANGED <<kind, shape, submitted_msgs>>
        BY <1>1, <2>1, <2>7, <3>1, <3>2, TakeAvailableKeeps, SMTT(30)
    <3>4. pendingChunks' = pendingChunks
        BY <1>1, <2>1, <2>7, <3>1, <3>2, TakeAvailableIsQuiet, SMTT(30)
    <3>5. submitted_msgs' # <<>> => msgs'[submitted_msgs'[Len(submitted_msgs')]].n = K'
      <4>1. submitted_msgs \in Seq(DOMAIN msgs)
          BY <1>1, Zenon DEF CInv, Types
      <4>2. ASSUME submitted_msgs # <<>>
            PROVE  LET l == submitted_msgs[Len(submitted_msgs)] IN l \in DOMAIN msgs /\ l # next_submit_msg'
        <5>1. Len(submitted_msgs) \in 1 .. Len(submitted_msgs)
            BY <4>1, <4>2
        <5> QED BY <3>3, <4>1, <5>1, RangeIn, Zenon
      <4> QED BY <3>2, <3>3, <4>2, Zenon DEF K
    <3> QED BY <2>4, <3>3, <3>4, <3>5, Zenon
  <2> QED BY <1>1, <2>5, <2>6, <2>7 DEF CInv, Types
<1> QED BY <1>3, <1>4, Zenon

\* write_blob_process_chunk fills the buffer and, once it is full or the blob
\* is at its end, hands it over.
LEMMA CopyPieceKeeps ==
    ASSUME IInv, CopyPiece, UNCHANGED o
    PROVE  IInv' /\ FifoStep
<1> DEFINE need == needed_chunk_size - ctx.filled
           n == IF blobs.piece <= need THEN blobs.piece ELSE need
           ms == [msgs EXCEPT ![next_submit_msg].ub[Slot] =
                     SubSeq(@, 1, ctx.filled) \o Bytes(Head(blobs.todo), blobs.off, n)]
<1>1. /\ UNCHANGED <<o, job>> /\ w.pc = "fill" /\ DOMAIN w = {"pc", "back", "ret"} /\ ctx.buf = TRUE /\ blobs.piece > 0
      /\ DOMAIN ctx = CtxFields /\ ctx.result = <<>> /\ BTypes /\ ctx.filled \in Nat /\ kind # "none"
      /\ o.pc = "blobs" /\ WTypes /\ CInv /\ Control /\ next_submit_msg # NoMsg
    BY WriterFacts, Zenon DEF CopyPiece, IInv, Control, WTypes
<1>2. /\ blobs' = [blobs EXCEPT !.off = @ + n, !.piece = @ - n]
      /\ IF n = need
         THEN /\ signal_chunk_filled(ms)
              /\ ctx' = [ctx EXCEPT !.buf = FALSE, !.filled = 0]
         ELSE /\ msgs' = ms /\ ctx' = [ctx EXCEPT !.filled = @ + n]
              /\ UNCHANGED <<submitted_msgs, next_submit_msg, next_ready_msg, to_compress, thr>>
      /\ w' = [w EXCEPT !.pc = IF blobs.piece = n THEN "blob" ELSE "fill"]
      /\ UNCHANGED <<kind, shape, available_msgs, next_chunk_idx, compressed>>
    BY Zenon DEF CopyPiece
<1>3. need \in Int /\ n \in Int /\ blobs.piece - n \in Nat /\ (n # need => n = blobs.piece) /\ blobs.piece \in Nat
  <2>1. blobs.open /\ blobs.piece \in Nat /\ blobs.off \in Int /\ Head(blobs.todo) \in DOMAIN Size
      BY <1>1 DEF BTypes
  <2>2. Size[Head(blobs.todo)] \in Nat /\ out_chunk_size \in Nat
      BY <2>1, SizeAssumption, ChunkAssumption, Zenon
  <2>3. needed_chunk_size \in Int
      BY <1>1, <2>1, <2>2 DEF needed_chunk_size
  <2> HIDE DEF n
  <2>4. need \in Int
      BY <1>1, <2>3
  <2> HIDE DEF need
  <2> QED BY <2>1, <2>4 DEF n
<1>4. FillOf(ms)
    BY <1>1, CopyIsFill, Zenon
<1> HIDE DEF need, n, ms
<1>5. BTypes'
  <2>1. /\ DOMAIN blobs' = DOMAIN blobs /\ blobs'.todo = blobs.todo /\ blobs'.open = blobs.open
        /\ blobs'.off = blobs.off + n /\ blobs'.piece = blobs.piece - n
      BY <1>1, <1>2, Zenon DEF BTypes
  <2>2. /\ DOMAIN blobs' = {"todo", "known", "off", "piece", "open"}
        /\ blobs'.todo \in Seq(DOMAIN Size) /\ blobs'.off \in Int /\ blobs'.piece \in Nat
      BY <1>1, <1>3, <2>1 DEF BTypes
  <2>3. blobs.piece # 0
      BY <1>1, <1>3
  <2>4. blobs.open /\ blobs.open \in BOOLEAN /\ blobs.todo # <<>>
      BY <1>1, <2>3, Zenon DEF BTypes
  <2> QED BY <2>1, <2>2, <2>4, Zenon DEF BTypes
<1>6. DOMAIN w' = DOMAIN w /\ w'.pc \in {"blob", "fill"} /\ w'.back = w.back
    BY <1>1, <1>2, Zenon
<1>7. kind = "parallel" /\ submitted_msgs # <<>> => msgs[submitted_msgs[Len(submitted_msgs)]].n = K
    BY <1>1, Zenon DEF Control, Ending, Between
<1>8. CASE n = need
  <2>1. signal_chunk_filled(ms) /\ ctx' = [ctx EXCEPT !.buf = FALSE, !.filled = 0]
      BY <1>2, <1>8, Zenon
  <2>2. /\ CInv' /\ HandStep
        /\ kind = "parallel" /\ next_submit_msg' # NoMsg => msgs'[next_submit_msg'].n # 0
        /\ kind = "parallel" /\ submitted_msgs' # <<>> => msgs'[submitted_msgs'[Len(submitted_msgs')]].n = K'
      BY <1>1, <1>2, <1>4, <1>7, <2>1, SignalHands, Zenon
  <2>3. DOMAIN ctx' = CtxFields /\ ctx'.buf = FALSE /\ ctx'.filled = 0 /\ ctx'.result = <<>>
      BY <1>1, <2>1, Zenon DEF CtxFields
  <2>4. WTypes'
    <3>1. ctx'.buf \in BOOLEAN
        BY <2>3, Zenon
    <3>2. ctx'.filled \in Nat /\ DOMAIN ctx' = DOMAIN ctx
        BY <1>1, <2>3
    <3> QED BY <1>1, <1>5, <1>6, <3>1, <3>2, SameTypes
  <2>5. Control'
      BY <1>1, <1>2, <1>6, <2>2, <2>3, Zenon DEF Control, Between
  <2>6. chunkBack' = chunkBack
      BY <1>1, <1>2, <2>3, Zenon DEF chunkBack
  <2> QED BY <2>2, <2>4, <2>5, <2>6, Zenon DEF IInv, FifoStep, HandStep, Fifo!Next, Fifo!Hand
<1>9. CASE n # need
  <2>1. /\ msgs' = ms /\ ctx' = [ctx EXCEPT !.filled = @ + n]
        /\ UNCHANGED <<submitted_msgs, next_submit_msg, next_ready_msg, to_compress, thr>>
      BY <1>2, <1>9, Zenon
  <2>2. UNCHANGED <<kind, shape, owned, to_compress, compressed, thr>>
      BY <1>2, <2>1, Zenon DEF owned
  <2>3. /\ CInv' /\ pendingChunks' = pendingChunks /\ DOMAIN msgs' = DOMAIN msgs
        /\ \A m \in DOMAIN msgs : msgs'[m].n = msgs[m].n
      BY <1>1, <1>4, <2>1, <2>2, FillIsQuiet, Zenon
  <2>4. /\ DOMAIN ctx' = CtxFields /\ ctx'.buf = TRUE /\ ctx'.filled \in Nat \ {0} /\ ctx'.result = <<>>
      BY <1>1, <1>3, <1>9, <2>1, SMTT(30) DEF CtxFields
  <2>5. WTypes'
    <3>1. ctx'.buf \in BOOLEAN
        BY <2>4, Zenon
    <3>2. ctx'.filled \in Nat /\ DOMAIN ctx' = DOMAIN ctx
        BY <1>1, <2>4, Zenon
    <3> QED BY <1>1, <1>5, <1>6, <3>1, <3>2, SameTypes, Zenon
  <2>6. kind = "parallel" /\ submitted_msgs # <<>> => msgs'[submitted_msgs[Len(submitted_msgs)]].n = K
    <3>1. ASSUME submitted_msgs # <<>> PROVE submitted_msgs[Len(submitted_msgs)] \in DOMAIN msgs
        BY <1>1, <3>1 DEF CInv, Types
    <3> QED BY <1>7, <2>3, <3>1, Zenon
  <2>7. Control'
      BY <1>1, <1>2, <1>6, <2>1, <2>4, <2>6, Zenon DEF Control, Between, K
  <2>8. chunkBack' = chunkBack
      BY <1>1, <1>2, <2>4, Zenon DEF chunkBack
  <2> QED BY <2>3, <2>5, <2>7, <2>8, Zenon DEF IInv, FifoStep
<1> QED BY <1>8, <1>9, Zenon

\* finish_remaining_chunks asks for a result, which submits a part-filled
\* message.
LEMMA FinishChunksKeeps ==
    ASSUME IInv, FinishChunks, UNCHANGED o
    PROVE  IInv' /\ FifoStep
<1>1. /\ UNCHANGED <<o, job, blobs>> /\ w.pc = "blob" /\ DOMAIN w = {"pc", "back", "ret"} /\ DOMAIN ctx = CtxFields
      /\ ctx.result = <<>> /\ BTypes' /\ WTypes /\ CInv /\ Control /\ o.pc = "blobs"
      /\ ctx' = [ctx EXCEPT !.buf = FALSE, !.filled = 0] /\ w' = [w EXCEPT !.pc = "result", !.back = "result"]
      /\ UNCHANGED <<kind, shape, available_msgs, next_chunk_idx, compressed>>
    BY WriterFacts, SameBlobs, Zenon DEF FinishChunks, IInv, Control
<1>2. DOMAIN ctx' = CtxFields /\ ctx'.buf = FALSE /\ ctx'.filled = 0 /\ ctx'.result = <<>>
    BY <1>1, Zenon DEF CtxFields
<1>3. DOMAIN w' = DOMAIN w /\ w'.pc = "result" /\ w'.back = "result"
    BY <1>1, Zenon
<1>4. WTypes'
  <2>1. ctx'.buf \in BOOLEAN
      BY <1>2, Zenon
  <2>2. ctx'.filled \in Nat /\ DOMAIN ctx' = DOMAIN ctx
      BY <1>1, <1>2
  <2> QED BY <1>1, <1>3, <2>1, <2>2, SameTypes, Zenon
<1>5. chunkBack' = chunkBack
    BY <1>1, <1>2, Zenon DEF chunkBack
<1>6. ASSUME kind = "parallel" /\ next_submit_msg' # NoMsg => msgs'[next_submit_msg'].n # 0
      PROVE  Control'
    BY <1>1, <1>2, <1>3, <1>6, Zenon DEF Control, Between, Ending
<1>7. CASE ctx.filled # 0
  <2>1. signal_chunk_filled(msgs)
      BY <1>7, Zenon DEF FinishChunks
  <2>2. next_submit_msg # NoMsg
      BY <1>1, <1>7, Zenon DEF Control
  <2>3. kind # "none"
      BY <1>1, <2>2, Zenon DEF CInv, Plain
  <2>4. /\ CInv' /\ HandStep
        /\ kind = "parallel" /\ next_submit_msg' # NoMsg => msgs'[next_submit_msg'].n # 0
      BY <1>1, <2>1, <2>2, <2>3, SameIsFill, SignalHands, Zenon
  <2> QED BY <1>4, <1>5, <1>6, <2>4, Zenon DEF IInv, FifoStep, HandStep, Fifo!Next, Fifo!Hand
<1>8. CASE ctx.filled = 0
  <2>1. UNCHANGED <<msgs, submitted_msgs, next_submit_msg, next_ready_msg, to_compress, thr, terminating, waiting>>
      BY <1>8, Zenon DEF FinishChunks
  <2>2. UNCHANGED ccvars
      BY <1>1, <2>1, Zenon DEF ccvars, owned, queues, FinishChunks
  <2>3. CInv' /\ pendingChunks' = pendingChunks
      BY <1>1, <2>2, SameCompressor, Zenon
  <2>4. ~ctx.buf
      BY <1>1, <1>8, Zenon DEF Control
  <2>5. kind = "parallel" /\ next_submit_msg' # NoMsg => msgs'[next_submit_msg'].n # 0
      BY <1>1, <2>1, <2>4, Zenon DEF Control
  <2> QED BY <1>4, <1>5, <1>6, <2>3, <2>5, Zenon DEF IInv, FifoStep
<1> QED BY <1>7, <1>8, Zenon

-----------------------------------------------------------------------------
\* get_compression_result, waited for
LEMMA AwaitKeeps ==
    ASSUME IInv, AwaitResult, UNCHANGED o
    PROVE  IInv' /\ FifoStep
<1>1. /\ UNCHANGED <<o, job, blobs, ctx, w>> /\ w.pc = "result" /\ BTypes'
      /\ WTypes /\ CInv /\ Control /\ ~ctx.buf /\ ctx.result = <<>>
    BY WriterFacts, SameBlobs, Zenon DEF AwaitResult, bwvars, IInv, Control
<1>2. WTypes'
    BY <1>1, SameTypes, Zenon DEF WTypes
<1>3. submitted_msgs \in Seq(DOMAIN msgs) /\ next_submit_msg \in {NoMsg} \cup DOMAIN msgs
    BY <1>1, Zenon DEF CInv, Types
<1>4. ASSUME CInv', pendingChunks' = pendingChunks, kind' = kind, Control' PROVE IInv' /\ FifoStep
  <2>1. chunkBack' = chunkBack
      BY <1>1, <1>4, Zenon DEF chunkBack
  <2> QED BY <1>2, <1>4, <2>1, Zenon DEF IInv, FifoStep
<1>5. CASE SubmitRest
  <2>1. kind = "parallel" /\ next_submit_msg # NoMsg
      BY <1>5, Zenon DEF SubmitRest
  <2>2. msgs[next_submit_msg].n # 0
      BY <1>1, <2>1, Zenon DEF Control
  <2>3. /\ CInv' /\ pendingChunks' = pendingChunks /\ kind' = kind /\ next_submit_msg' = NoMsg
      BY <1>1, <1>5, <2>2, SubmitRestIsQuiet, Zenon
  <2>4. w.back = "result"
      BY <1>1, <2>1, Zenon DEF Control, Between
  <2>5. Control'
      BY <1>1, <2>1, <2>3, <2>4, Zenon DEF Control, Between, Ending
  <2> QED BY <1>4, <2>3, <2>5, Zenon
<1>6. CASE ReceiveMessage
  <2>1. /\ CInv' /\ UNCHANGED <<kind, shape, owned>> /\ DOMAIN msgs' = DOMAIN msgs
        /\ \A m \in DOMAIN msgs : msgs'[m].n = msgs[m].n /\ msgs'[m].ub = msgs[m].ub
      BY <1>1, <1>6, ReceiveKeeps, Zenon
  <2>2. SameChunks
      BY <2>1, Zenon DEF SameChunks
  <2>3. pendingChunks' = pendingChunks
      BY <1>1, <2>1, <2>2, QuietKeepsPending, Zenon
  <2>4. UNCHANGED <<submitted_msgs, next_submit_msg, next_ready_msg>> /\ K' = K
      BY <2>1, Zenon DEF owned, K
  <2>5. NoResult' <=> NoResult
      BY <2>1, <2>4, Zenon DEF NoResult
  <2>6. kind = "parallel" /\ submitted_msgs # <<>> => submitted_msgs[Len(submitted_msgs)] \in DOMAIN msgs
      BY <1>3, SMTT(30)
  <2>7. Control'
      BY <1>1, <1>3, <2>1, <2>4, <2>5, <2>6, Zenon DEF Control, Ending
  <2> QED BY <1>4, <2>1, <2>3, <2>7, Zenon
<1>7. CASE FirstIsReady
  <2>1. CInv' /\ pendingChunks' = pendingChunks
      BY <1>1, <1>7, FirstReadyKeeps, FirstReadyIsQuiet, Zenon
  <2>2. /\ kind = "parallel" /\ submitted_msgs # <<>> /\ next_ready_msg' = Head(submitted_msgs)
        /\ UNCHANGED <<kind, shape, msgs, submitted_msgs, next_submit_msg>>
      BY <1>7, Zenon DEF FirstIsReady, Receiving
  <2>3. ~NoResult' /\ K' = K
      BY <2>2, Zenon DEF NoResult, K
  <2>4. Control'
      BY <1>1, <2>2, <2>3, Zenon DEF Control, Ending
  <2> QED BY <1>4, <2>1, <2>2, <2>4, Zenon
<1> QED BY <1>5, <1>6, <1>7, Zenon DEF AwaitResult

\* get_compression_result gives the writer the next chunk.
LEMMA GetResultKeeps ==
    ASSUME IInv, GetResult, UNCHANGED o
    PROVE  IInv' /\ FifoStep
<1>1. /\ UNCHANGED <<o, job, blobs>> /\ w.pc = "result" /\ DOMAIN w = {"pc", "back", "ret"} /\ DOMAIN ctx = CtxFields
      /\ BTypes' /\ WTypes /\ CInv /\ Control /\ ~ctx.buf /\ TakeResult
      /\ ctx' = [ctx EXCEPT !.result = Result] /\ w' = [w EXCEPT !.pc = "write"]
    BY WriterFacts, SameBlobs, Zenon DEF GetResult, IInv, Control
<1>2. CInv' /\ Returned /\ kind # "none"
    BY <1>1, TakeGivesBack, Zenon
<1>3. /\ DOMAIN ctx' = CtxFields /\ ctx'.buf = ctx.buf /\ ctx'.filled = ctx.filled /\ ctx'.result = Result
    BY <1>1, Zenon DEF CtxFields
<1>4. DOMAIN w' = DOMAIN w /\ w'.pc = "write" /\ w'.back = w.back
    BY <1>1, Zenon
<1>5. WTypes'
    BY <1>1, <1>3, <1>4, SameTypes, Zenon DEF WTypes
<1>6. /\ UNCHANGED <<kind, shape, msgs, next_submit_msg>> /\ next_submit_msg = NoMsg /\ K' = K
      /\ submitted_msgs' = submitted_msgs \/ (submitted_msgs' = Tail(submitted_msgs) /\ kind = "parallel"
                                                /\ next_chunk_idx = msgs[next_ready_msg].n)
    BY <1>1, Zenon DEF TakeResult, K
<1>7. kind = "parallel" /\ submitted_msgs' # <<>>
         => submitted_msgs # <<>> /\ submitted_msgs'[Len(submitted_msgs')] = submitted_msgs[Len(submitted_msgs)]
  <2>1. submitted_msgs \in Seq(DOMAIN msgs)
      BY <1>1, Zenon DEF CInv, Types
  <2>2. CASE submitted_msgs' = Tail(submitted_msgs) /\ kind = "parallel" /\ next_chunk_idx = msgs[next_ready_msg].n
    <3>1. submitted_msgs # <<>>
        BY <1>1, <2>2, TakeLastKeeps, Zenon
    <3>2. /\ Tail(submitted_msgs) \in Seq(DOMAIN msgs) /\ Len(Tail(submitted_msgs)) = Len(submitted_msgs) - 1
          /\ Len(submitted_msgs) \in Nat \ {0}
          /\ \A i \in 1 .. Len(submitted_msgs) - 1 : Tail(submitted_msgs)[i] = submitted_msgs[i + 1]
        BY <2>1, <3>1, TailFacts
    <3>3. Tail(submitted_msgs) # <<>> => Len(Tail(submitted_msgs)) # 0
        BY <3>2, EmptyIffLen0, Zenon
    <3>4. Tail(submitted_msgs) # <<>>
             => Tail(submitted_msgs)[Len(submitted_msgs) - 1] = submitted_msgs[Len(submitted_msgs)]
        BY <3>2, <3>3
    <3> QED BY <2>2, <3>1, <3>2, <3>4, Zenon
  <2> QED BY <1>6, <2>2, Zenon
<1>8. Control'
    BY <1>1, <1>2, <1>3, <1>4, <1>6, <1>7, Zenon DEF Control, Between, Ending
<1>9. chunkBack' = Result.data
    BY <1>2, <1>3, <1>6, ResultIsRecord, Zenon DEF chunkBack
<1> QED BY <1>2, <1>5, <1>8, <1>9, Zenon DEF IInv, FifoStep, Returned, Fifo!Next, Fifo!Return

\* Every step of write_blob_list
LEMMA WriterStep ==
    ASSUME IInv, Writer, UNCHANGED o
    PROVE  IInv' /\ FifoStep
BY CreateKeeps, BeginSolidKeeps, BeginBlobKeeps, ReadPieceKeeps, GetBufferKeeps, CopyPieceKeeps, AwaitKeeps,
   SMTT(30),
   GetResultKeeps, WriteChunkKeeps, EndResourceKeeps, RewriteBlobKeeps, FinishChunksKeeps, NoMoreResultsKeeps,
   EndSolidKeeps, DestroyKeeps, JoinKeeps DEF Writer

-----------------------------------------------------------------------------
(***************************************************************************)
(* The workers, wimlib_overwrite itself and the theorems                    *)
(***************************************************************************)
LEMMA WorkerStep ==
    ASSUME IInv, NEW t \in Threads, Worker(t), UNCHANGED <<bwvars, o>>
    PROVE  IInv' /\ FifoStep
<1>1. UNCHANGED <<o, job, blobs, ctx, w>> /\ WTypes /\ CInv /\ Control
    BY Zenon DEF bwvars, IInv
<1>2. WTypes'
    BY <1>1, SameBlobs, SameTypes, Zenon DEF WTypes
<1>3. /\ CInv' /\ UNCHANGED <<kind, shape, owned>> /\ DOMAIN msgs' = DOMAIN msgs
      /\ \A m \in DOMAIN msgs : msgs'[m].n = msgs[m].n /\ msgs'[m].ub = msgs[m].ub
  <2>1. CASE WorkerGets(t)
    <3>1. UNCHANGED <<kind, shape, msgs, owned>>
        BY <2>1, Zenon DEF WorkerGets
    <3> QED BY <1>1, <2>1, <3>1, GetsKeeps, Zenon
  <2>2. CASE WorkerCompresses(t)
      BY <1>1, <2>2, CompressesKeeps, Zenon
  <2>3. CASE WorkerPuts(t)
    <3>1. UNCHANGED <<kind, shape, msgs, owned>>
        BY <2>3, Zenon DEF WorkerPuts
    <3> QED BY <1>1, <2>3, <3>1, PutsKeeps, Zenon
  <2> QED BY <2>1, <2>2, <2>3, Zenon DEF Worker
<1>4. SameChunks
    BY <1>3, Zenon DEF SameChunks
<1>5. pendingChunks' = pendingChunks
    BY <1>1, <1>3, <1>4, QuietKeepsPending, Zenon
<1>6. UNCHANGED <<submitted_msgs, next_submit_msg, next_ready_msg>> /\ K' = K
    BY <1>3, Zenon DEF owned, K
<1>7. NoResult' <=> NoResult
    BY <1>3, <1>6, Zenon DEF NoResult
<1>8. /\ next_submit_msg # NoMsg => next_submit_msg \in DOMAIN msgs
      /\ submitted_msgs # <<>> => submitted_msgs[Len(submitted_msgs)] \in DOMAIN msgs
    BY <1>1, SMTT(30) DEF CInv, Types
<1>9. Control'
    BY <1>1, <1>3, <1>6, <1>7, <1>8, SMTT(30) DEF Control, Ending
<1>10. chunkBack' = chunkBack
    BY <1>1, <1>3, Zenon DEF chunkBack
<1> QED BY <1>2, <1>3, <1>5, <1>9, <1>10, Zenon DEF IInv, FifoStep

\* The steps of wimlib_overwrite outside of write_blob_list
LEMMA OutsideStep ==
    ASSUME IInv, UNCHANGED <<ccvars, job, w, blobs, ctx>>, o.pc # "blobs", o'.pc # "blobs", DOMAIN o' = DOMAIN o
    PROVE  IInv' /\ FifoStep
<1>1. CInv' /\ FifoStep
    BY QuietStep, Zenon DEF IInv
<1>2. UNCHANGED <<kind, msgs, submitted_msgs, next_submit_msg>> /\ K' = K /\ (NoResult' <=> NoResult)
    BY SameCompressor, Zenon DEF IInv, ccvars, owned
<1>3. WTypes'
    BY SameBlobs, Zenon DEF IInv, WTypes
<1>4. Control'
    BY <1>2, Zenon DEF IInv, Control, Ending
<1> QED BY <1>1, <1>3, <1>4, Zenon DEF IInv

\* A structure that is written after the blobs: metadata, tables, XML data
LEMMA StructureStep ==
    ASSUME IInv, NEW pc, pc # "blobs", NEW cell, NEW next, Structure(pc, cell, next), DOMAIN next = OFields,
           next.pc # "blobs"
    PROVE  IInv' /\ FifoStep
<1>1. UNCHANGED <<ccvars, job, w, blobs, ctx>> /\ o.pc # "blobs"
    BY Zenon DEF Structure, At
<1>2. DOMAIN o = OFields
    BY Zenon DEF IInv, WTypes
<1>3. o' = next \/ o' = [o EXCEPT !.pc = "truncate"]
    BY Zenon DEF Structure, Goto
<1>4. DOMAIN o' = DOMAIN o /\ o'.pc # "blobs"
    BY <1>2, <1>3, Zenon DEF OFields
<1> QED BY <1>1, <1>4, OutsideStep, Zenon

\* write_blob_list is called.
LEMMA StartStep ==
    ASSUME IInv, UNCHANGED <<ccvars, job>>, o.pc # "blobs", Goto("blobs"),
           NEW todo \in Seq(DOMAIN Size), NEW known, BWStart(todo, known)
    PROVE  IInv' /\ FifoStep
<1>1. w.pc = "idle" /\ kind = "none" /\ CInv /\ WTypes
    BY Zenon DEF IInv, Control
<1>2. DOMAIN w' = {"pc", "back", "ret"} /\ w'.pc \in {"written", "compressor"}
    BY <1>1, Zenon DEF BWStart, WTypes
<1>3. DOMAIN ctx' = CtxFields /\ ctx'.buf = FALSE /\ ctx'.filled = 0 /\ ctx'.result = <<>>
    BY NoCtxFacts, Zenon DEF BWStart
<1>4. CInv' /\ FifoStep
    BY <1>1, QuietStep, Zenon
<1>5. UNCHANGED <<kind, msgs, submitted_msgs, next_submit_msg>>
    BY Zenon DEF ccvars, owned
<1>6. /\ DOMAIN blobs' = {"todo", "known", "off", "piece", "open"}
      /\ blobs'.todo = todo /\ blobs'.off = 0 /\ blobs'.piece = 0 /\ blobs'.open = FALSE
    BY Zenon DEF BWStart
<1>7. BTypes'
  <2>1. blobs'.open \in BOOLEAN /\ ~blobs'.open
      BY <1>6, Zenon
  <2>2. blobs'.todo \in Seq(DOMAIN Size) /\ blobs'.off \in Int /\ blobs'.piece \in Nat /\ blobs'.piece = 0
      BY <1>6
  <2> QED BY <1>6, <2>1, <2>2, Zenon DEF BTypes
<1>8. DOMAIN o' = OFields /\ o'.pc = "blobs"
    BY <1>1, Zenon DEF WTypes, Goto, OFields
<1>9. WTypes'
  <2>1. ctx'.buf \in BOOLEAN
      BY <1>3, Zenon
  <2>2. ctx'.filled \in Nat /\ job' \in Jobs
      BY <1>1, <1>3 DEF WTypes
  <2> QED BY <1>2, <1>3, <1>7, <1>8, <2>1, <2>2, Zenon DEF WTypes
<1>10. next_submit_msg = NoMsg
    BY <1>1, Zenon DEF CInv, Plain
<1>11. Control'
    BY <1>1, <1>2, <1>3, <1>5, <1>8, <1>10, Zenon DEF Control, Between
<1> QED BY <1>4, <1>9, <1>11, Zenon DEF IInv

\* Every other step of wimlib_overwrite
LEMMA MainStep ==
    ASSUME IInv, Main
    PROVE  IInv' /\ FifoStep
<1>1. DOMAIN o = OFields /\ job \in Jobs
    BY Zenon DEF IInv, WTypes
<1>2. Kept(job) \o job.new \in Seq(DOMAIN Size) /\ job.new \in Seq(DOMAIN Size)
    BY <1>1, JobsAssumption
<1>3. CASE EarlyError \/ PrepareInPlace \/ CloseFile \/ CloseAfterError
  <2>1. UNCHANGED <<ccvars, job, w, blobs, ctx>> /\ o.pc # "blobs"
      BY <1>3, Zenon DEF EarlyError, EarlyFailure, PrepareInPlace, CloseFile, CloseAfterError, At, bwvars
  <2>2. DOMAIN o' = DOMAIN o /\ o'.pc # "blobs"
      BY <1>1, <1>3, Zenon DEF EarlyError, EarlyFailure, PrepareInPlace, CloseFile, CloseAfterError, OFields
  <2> QED BY <2>1, <2>2, OutsideStep, Zenon
<1>4. CASE MarkInProgress
  <2>1. UNCHANGED <<ccvars, job>> /\ o.pc = "mark"
      BY <1>4, Zenon DEF MarkInProgress, At
  <2>2. \/ Goto("blobs") /\ BWStart(job.new, Range(job.old) \ job.replaced)
        \/ (Goto("close_error") \/ Goto("restore")) /\ UNCHANGED <<w, blobs, ctx>>
      BY <1>4, Zenon DEF MarkInProgress
  <2>3. CASE Goto("blobs") /\ BWStart(job.new, Range(job.old) \ job.replaced)
      BY <1>2, <2>1, <2>3, StartStep, Zenon
  <2>4. CASE (Goto("close_error") \/ Goto("restore")) /\ UNCHANGED <<w, blobs, ctx>>
    <3>1. DOMAIN o' = DOMAIN o /\ o'.pc # "blobs"
        BY <1>1, <2>4, Zenon DEF Goto, OFields
    <3> QED BY <2>1, <2>4, <3>1, OutsideStep, Zenon
  <2> QED BY <2>2, <2>3, <2>4, Zenon
<1>5. CASE OpenTemporary
  <2>1. UNCHANGED <<ccvars, job>> /\ o.pc = "start"
      BY <1>5, Zenon DEF OpenTemporary, At
  <2>2. \/ Goto("blobs") /\ BWStart(Kept(job) \o job.new, {})
        \/ Goto("close_error") /\ UNCHANGED <<w, blobs, ctx>>
      BY <1>5, Zenon DEF OpenTemporary
  <2>3. CASE Goto("blobs") /\ BWStart(Kept(job) \o job.new, {})
      BY <1>2, <2>1, <2>3, StartStep, Zenon
  <2>4. CASE Goto("close_error") /\ UNCHANGED <<w, blobs, ctx>>
    <3>1. DOMAIN o' = DOMAIN o /\ o'.pc # "blobs"
        BY <1>1, <2>4, Zenon DEF Goto, OFields
    <3> QED BY <2>1, <2>4, <3>1, OutsideStep, Zenon
  <2> QED BY <2>2, <2>3, <2>4, Zenon
<1>6. CASE Writer /\ UNCHANGED o
    BY <1>6, WriterStep, Zenon
<1>7. CASE BlobsWritten
  <2>1. /\ UNCHANGED <<ccvars, job, blobs, ctx>> /\ w.pc = "written" /\ w' = [w EXCEPT !.pc = "idle"]
        /\ Goto("meta") \/ Goto("truncate")
      BY <1>7, Zenon DEF BlobsWritten
  <2>2. DOMAIN o' = DOMAIN o /\ o'.pc # "blobs" /\ DOMAIN w' = {"pc", "back", "ret"} /\ w'.pc = "idle"
      BY <1>1, <2>1, WriterFacts, Zenon DEF Goto, OFields
  <2>3. CInv' /\ FifoStep
      BY <2>1, QuietStep, Zenon DEF IInv
  <2>4. UNCHANGED <<kind, msgs, submitted_msgs, next_submit_msg>> /\ kind = "none" /\ next_submit_msg = NoMsg
      BY <2>1, Zenon DEF ccvars, owned, IInv, Control, CInv, Plain
  <2>5. WTypes'
      BY <2>1, <2>2, SameBlobs, Zenon DEF IInv, WTypes
  <2>6. Control'
      BY <2>1, <2>2, <2>4, Zenon DEF IInv, Control, Between
  <2> QED BY <2>3, <2>5, <2>6, Zenon DEF IInv
<1>8. CASE WriteMetadata
  <2> DEFINE next == [o EXCEPT !.pc = "table", !.meta = offset]
  <2>1. DOMAIN next = OFields /\ next.pc # "blobs"
      BY <1>1, Zenon DEF OFields
  <2>2. Structure("meta", [files |-> NewContents(job)], next)
      BY <1>8, Zenon DEF WriteMetadata
  <2> QED BY <2>1, <2>2, StructureStep, Zenon
<1>9. CASE WriteBlobTable
  <2>1. PICK sums \in OldSums :
           Structure("table", [blobs |-> [c \in NewContents(job) |-> TableEntry(c)], meta |-> o.meta],
                     [o EXCEPT !.pc = "xml", !.table = offset, !.sums = sums])
      BY <1>9, Zenon DEF WriteBlobTable
  <2> DEFINE next == [o EXCEPT !.pc = "xml", !.table = offset, !.sums = sums]
  <2>2. DOMAIN next = OFields /\ next.pc # "blobs"
      BY <1>1, Zenon DEF OFields
  <2> QED BY <2>1, <2>2, StructureStep, Zenon
<1>10. CASE WriteXml
  <2> DEFINE next == [o EXCEPT !.pc = IF job.integrity THEN "integrity" ELSE "header", !.xml = offset]
  <2>1. DOMAIN next = OFields /\ next.pc # "blobs"
      BY <1>1, Zenon DEF OFields
  <2>2. Structure("xml", [xml |-> NewContents(job)], next)
      BY <1>10, Zenon DEF WriteXml
  <2> QED BY <2>1, <2>2, StructureStep, Zenon
<1>11. CASE WriteIntegrity
  <2> DEFINE next == [o EXCEPT !.pc = "header", !.integ = offset]
  <2>1. DOMAIN next = OFields /\ next.pc # "blobs"
      BY <1>1, Zenon DEF OFields
  <2>2. Structure("integrity",
                  [sums |-> calculate_integrity_table(disk[target].data, o.table, o.sums, o.hdr.table)], next)
      BY <1>11, Zenon DEF WriteIntegrity
  <2> QED BY <2>1, <2>2, StructureStep, Zenon
<1>12. CASE WriteHeader \/ Truncate \/ RestoreFlags
  <2>1. UNCHANGED <<ccvars, job, w, blobs, ctx>> /\ o.pc # "blobs"
      BY <1>12, Zenon DEF WriteHeader, Truncate, RestoreFlags, At
  <2>2. DOMAIN o' = DOMAIN o /\ o'.pc # "blobs"
      BY <1>1, <1>12, Zenon DEF WriteHeader, Truncate, RestoreFlags, Goto, OFields
  <2> QED BY <2>1, <2>2, OutsideStep, Zenon
<1>13. CASE Rename \/ DeleteOriginal \/ MoveNew \/ Unlink
  <2>1. UNCHANGED <<ccvars, job, w, blobs, ctx>> /\ o.pc # "blobs"
      BY <1>13, Zenon DEF Rename, DeleteOriginal, MoveNew, Unlink, At
  <2>2. DOMAIN o' = DOMAIN o /\ o'.pc # "blobs"
      BY <1>1, <1>13, Zenon DEF Rename, DeleteOriginal, MoveNew, Unlink, Goto, OFields
  <2> QED BY <2>1, <2>2, OutsideStep, Zenon
<1> QED BY <1>3, <1>4, <1>5, <1>6, <1>7, <1>8, <1>9, <1>10, <1>11, <1>12, <1>13, SMTT(30) DEF Main

\* Before the call there is no compressor.
LEMMA InitStep ==
    ASSUME Init
    PROVE  IInv /\ Fifo!Init
<1>1. CCInit
    BY Zenon DEF Init
<1>2. K = 1 /\ DOMAIN msgs = {1} /\ MsgOK(msgs[1], 1)
  <2>1. MsgOK(EmptyMsg(<<1, 1>>), 1)
      BY DEF MsgOK, EmptyMsg
  <2> DEFINE e == EmptyMsg(<<1, 1>>)
  <2>2. MsgOK(e, 1)
      BY <2>1, Zenon
  <2> HIDE DEF e
  <2>3. msgs = <<e>> /\ shape = <<1, 1>>
      BY <1>1, Zenon DEF CCInit, e
  <2> QED BY <2>2, <2>3, SMTT(30) DEF K
<1>3. Types
  <2>1. MsgsOK(msgs, K)
      BY <1>2 DEF MsgsOK
  <2>2. thr \in [Threads -> [pc : Places, msg : {NoMsg} \cup DOMAIN msgs]]
        /\ \A t \in Threads : thr[t].pc \in Busy <=> thr[t].msg # NoMsg
      BY <1>1, Zenon DEF CCInit, Idle, Places, Busy
  <2> QED BY <1>1, <1>2, <2>1, <2>2 DEF CCInit, Types
<1>4. Plain
    BY <1>1, <1>2, Zenon DEF CCInit, Plain, Idle
<1>5. Owned /\ Stages /\ Full /\ Results
    BY <1>1, Zenon DEF CCInit, Owned, Stages, Full, Results
<1>6. WTypes
  <2>1. BTypes
      BY EmptyFacts, SMTT(30) DEF Init, BTypes
  <2>2. DOMAIN w = {"pc", "back", "ret"} /\ job \in Jobs /\ DOMAIN o = OFields
      BY Zenon DEF Init, OFields
  <2>3. DOMAIN ctx = CtxFields /\ ctx.buf = FALSE /\ ctx.filled = 0
      BY NoCtxFacts, Zenon DEF Init
  <2>4. ctx.buf \in BOOLEAN
      BY <2>3, Zenon
  <2> QED BY <2>1, <2>2, <2>3, <2>4, SMTT(30) DEF WTypes
<1>7. Control
  <2>1. w.pc = "idle" /\ o.pc # "blobs"
      BY Zenon DEF Init
  <2>2. ctx.buf = FALSE /\ ctx.filled = 0 /\ ctx.result = <<>>
      BY NoCtxFacts, Zenon DEF Init
  <2> QED BY <1>1, <2>1, <2>2, Zenon DEF CCInit, Control, Between
<1>8. kind = "none"
    BY <1>1, Zenon DEF CCInit
<1> QED BY <1>3, <1>4, <1>5, <1>6, <1>7, <1>8, NoneBack, Zenon DEF IInv, CInv, Fifo!Init

\* So every step keeps IInv and is a step of ChunkFifo, or a stutter.
LEMMA NextStep ==
    ASSUME IInv, [Next]_vars
    PROVE  IInv' /\ FifoStep
<1>1. CASE Main
    BY <1>1, MainStep, Zenon
<1>2. ASSUME NEW t \in Threads, Worker(t) /\ UNCHANGED <<bwvars, o>> PROVE IInv' /\ FifoStep
    BY <1>2, WorkerStep, Zenon
<1>3. CASE UNCHANGED vars
  <2>1. UNCHANGED <<ccvars, o, job, w, blobs, ctx>>
      BY <1>3, Zenon DEF vars, bwvars
  <2>2. CInv' /\ FifoStep
      BY <2>1, QuietStep, Zenon DEF IInv
  <2>3. UNCHANGED <<kind, msgs, submitted_msgs, next_submit_msg>> /\ K' = K /\ (NoResult' <=> NoResult)
      BY <2>1, SameCompressor, Zenon DEF IInv, ccvars, owned
  <2>4. WTypes'
      BY <2>1, SameBlobs, Zenon DEF IInv, WTypes
  <2>5. Control'
      BY <2>1, <2>3, SMTT(30) DEF IInv, Control, Ending
  <2> QED BY <2>2, <2>4, <2>5, Zenon DEF IInv
<1> QED BY <1>1, <1>2, <1>3, Zenon DEF Next

\* wimlib_assert(bret) in prepare_chunk_buffer never fails.
LEMMA BufferOrResultHolds == ASSUME IInv PROVE OneOwner /\ BufferOrResult
BY OneOwnerHolds, Zenon DEF IInv, Control, BufferOrResult

\* IInv is an invariant of wimlib_overwrite with its writer and its workers.
LEMMA WriterInvariant == Spec => []IInv
<1>1. Init => IInv
    BY InitStep, Zenon
<1>2. IInv /\ [Next]_vars => IInv'
    BY NextStep, Zenon
<1> QED BY <1>1, <1>2, PTL DEF Spec

\* chunk_compressor.h's promise, for any number of workers, messages and chunks
\* per message: whatever order the workers of compress_parallel.c finish in,
\* every chunk write.c handed over comes back once, in the order of submission,
\* with its own data; a message is in one list, one queue or one thread at a
\* time; and prepare_chunk_buffer's assertion holds.
THEOREM CompressorKeepsOrder == Spec => ChunksInOrder
<1>1. Init => Fifo!Init
    BY InitStep, Zenon
<1>2. IInv /\ [Next]_vars => [Fifo!Next]_<<pendingChunks, chunkBack>>
    BY NextStep, Zenon DEF FifoStep
<1>3. IInv => OneOwner /\ BufferOrResult
    BY BufferOrResultHolds, Zenon
<1>4. Spec => Fifo!Spec
    BY <1>1, <1>2, WriterInvariant, PTL DEF Spec, Fifo!Spec
<1>5. Spec => []OneOwner /\ []BufferOrResult
    BY <1>3, WriterInvariant, PTL
<1> QED BY <1>4, <1>5, Zenon DEF ChunksInOrder

\* get_compression_result and signal_chunk_filled index the arrays of a message:
\* the chunk that is returned next is one that was filled, and the message that
\* is being filled has a slot left.
IndicesInBounds ==
    /\ next_ready_msg # NoMsg => next_ready_msg \in DOMAIN msgs /\ next_chunk_idx \in 1 .. msgs[next_ready_msg].n
    /\ ctx.buf => next_submit_msg \in DOMAIN msgs /\ Slot \in DOMAIN msgs[next_submit_msg].ub

\* That holds at every step, for any sizes, jobs and shapes of the messages.
THEOREM CompressorIndices == Spec => []IndicesInBounds
<1>1. ASSUME IInv PROVE IndicesInBounds
  <2>1. CInv /\ (ctx.buf => next_submit_msg # NoMsg)
      BY <1>1, Zenon DEF IInv, Control
  <2>2. ASSUME next_ready_msg # NoMsg
        PROVE  next_ready_msg \in DOMAIN msgs /\ next_chunk_idx \in 1 .. msgs[next_ready_msg].n
    <3>1. next_ready_msg \in DOMAIN msgs /\ kind # "none"
        BY <2>1, <2>2, Zenon DEF CInv, Types, Plain
    <3>2. CASE kind = "serial"
      <4>1. next_ready_msg = 1 /\ next_chunk_idx = 1 /\ msgs[1].n = 1
          BY <2>1, <2>2, <3>1, <3>2, SMTT(30) DEF CInv, Plain, Results
      <4> QED BY <3>1, <4>1, SMTT(30)
    <3>3. CASE kind = "parallel"
        BY <2>1, <2>2, <3>1, <3>3, Zenon DEF CInv, Results
    <3> QED BY <2>1, <3>1, <3>2, <3>3, Zenon DEF CInv, Types
  <2>3. ASSUME next_submit_msg # NoMsg
        PROVE  next_submit_msg \in DOMAIN msgs /\ Slot \in DOMAIN msgs[next_submit_msg].ub
    <3>1. /\ next_submit_msg \in DOMAIN msgs /\ K \in Nat \ {0} /\ DOMAIN msgs[next_submit_msg].ub = 1 .. K
          /\ msgs[next_submit_msg].n \in 0 .. K
        BY <2>1, <2>3, Zenon DEF CInv, Types, MsgsOK, MsgOK
    <3>2. kind # "none"
        BY <2>1, <2>3, Zenon DEF CInv, Plain
    <3>3. CASE kind = "serial"
        BY <3>1, <3>3 DEF Slot
    <3>4. CASE kind = "parallel"
      <4>1. msgs[next_submit_msg].n < K
          BY <2>1, <2>3, <3>4, Zenon DEF CInv, Full
      <4> QED BY <3>1, <3>4, <4>1, SMTT(30) DEF Slot
    <3> QED BY <2>1, <3>2, <3>3, <3>4, Zenon DEF CInv, Types
  <2> QED BY <2>1, <2>2, <2>3, Zenon DEF IndicesInBounds
<1> QED BY <1>1, WriterInvariant, PTL
=============================================================================
