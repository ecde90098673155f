------------------------------ MODULE BlobWriter ------------------------------
(***************************************************************************)
(* wimlib/write.c, write_blob_list: the blobs of a list are read piece by   *)
(* piece, cut into chunks, compressed by a chunk compressor (ChunkCompressor *)
(* has its threads) and written as resources, each with its chunk table, or *)
(* as one solid resource.  A file is a header and cells: a cell is a byte   *)
(* of a blob, a part of a compressed chunk, a chunk table entry or a whole  *)
(* structure.  Offsets are of cells, from 1: the header takes offset 0.     *)
(***************************************************************************)
EXTENDS ChunkCompressor, FiniteSetsExt

CONSTANTS Size,            \* of each content (blobs are told apart by their hash)
          out_chunk_size,
          BUFFER_SIZE      \* read_blob_list's pieces

ASSUME ChunkAssumption == out_chunk_size \in Nat \ {0} /\ BUFFER_SIZE \in Nat \ {0}
ASSUME SizeAssumption == \A c \in DOMAIN Size : Size[c] \in Nat

VARIABLES disk,      \* the files: by name, [hdr, data] or Absent
          job,       \* what is asked for (see WimOverwrite)
          target,    \* the file that out_fd is open on
          offset,    \* of out_fd
          w,         \* the writer's place: pc, and where a written chunk leads back to
          blobs,     \* what is left to read, and of the blob being read: its offset, its piece
          ctx,       \* write_blobs_ctx
          out        \* out_reshdr of each content written

bwvars == <<disk, job, target, offset, w, blobs, ctx, out>>

Byte(c, i) == [byte |-> c, i |-> i]
Bytes(c, from, n) == [k \in 1 .. n |-> Byte(c, from + k)]
Cells(r) == IF r.csize = r.usize THEN r.data
            ELSE [k \in 1 .. r.csize |-> [lz |-> r.data, i |-> k, of |-> r.csize]]
Zeros(n) == [k \in 1 .. n |-> [entry |-> 0]]

CeilDiv(a, b) == (a + b - 1) \div b
SumTo(s, n) == SumFunctionOnSet(s, 1 .. n)
Concatenated(ss) == MapThenFoldSet(LAMBDA s, all : all \o s, <<>>, LAMBDA k : ss[k], Max, DOMAIN ss)
Sizes(s) == [k \in 1 .. Len(s) |-> Size[s[k]]]

\* full_write and full_pwrite: what the file holds afterwards
Overlay(data, at, cells) == SubSeq(data, 1, at - 1) \o cells \o SubSeq(data, at + Len(cells), Len(data))
Put(at, cells) == disk' = [disk EXCEPT ![target].data = Overlay(@, at, cells)]

\* Something fails: the compressor is destroyed and the error returned.  A
\* failed write leaves any prefix of its cells.
BWFail == w' = [w EXCEPT !.pc = "destroy", !.ret = "error"]
PutFails(at, cells) == cells # <<>> /\ BWFail /\ \E n \in 0 .. Len(cells) : Put(at, SubSeq(cells, 1, n))

NoCtx == [being |-> <<>>, solid |-> <<>>, done |-> 0, res_size |-> 0, csizes |-> <<>>,
          start |-> 1, filled |-> 0, buf |-> FALSE, result |-> <<>>]

\* num_chunk_entries: the first chunk has none, but in a solid resource
Entries(n) == IF job.solid THEN n ELSE n - 1

-----------------------------------------------------------------------------
\* write_blob_list is called on todo, the parts of which that are new files
\* are not hashed yet; known holds the hashes in the blob table.
BWStart(todo, known) ==
    /\ w' = [w EXCEPT !.pc = IF todo = <<>> THEN "written" ELSE "compressor", !.ret = "ok"]
    /\ blobs' = [todo |-> todo, known |-> known, off |-> 0, piece |-> 0, open |-> FALSE]
    /\ ctx' = NoCtx

\* A compressor: parallel, serial when little is to be compressed or the
\* parallel one cannot be made, none for an uncompressed WIM.
CreateCompressor ==
    /\ w.pc = "compressor"
    /\ \/ /\ job.ctype = "none" /\ NoCompressor("none")
          /\ w' = [w EXCEPT !.pc = IF job.solid THEN "solid" ELSE "blob"]
       \/ /\ job.ctype # "none"
          /\ \/ new_serial_chunk_compressor
             \/ \E s \in Shapes : new_parallel_chunk_compressor(s)
          /\ w' = [w EXCEPT !.pc = IF job.solid THEN "solid" ELSE "blob"]
       \/ BWFail /\ UNCHANGED ccvars
    /\ UNCHANGED <<disk, job, target, offset, blobs, ctx, out>>

\* begin_write_resource: room for the chunk table is taken in the file; a
\* solid one has a header of its own.
Reserve(size) ==
    IF kind = "none" THEN <<>>
    ELSE Zeros(Entries(CeilDiv(size, out_chunk_size)) + (IF job.solid THEN 1 ELSE 0))

Begun(c, size) ==
    [c EXCEPT !.start = offset + Len(Reserve(size)), !.done = 0, !.res_size = size, !.csizes = <<>>]

BeginSolid ==
    /\ w.pc = "solid"
    /\ LET size == SumTo(Sizes(blobs.todo), Len(blobs.todo)) IN
       \/ /\ Put(offset, Reserve(size)) /\ offset' = offset + Len(Reserve(size))
          /\ ctx' = Begun(ctx, size) /\ w' = [w EXCEPT !.pc = "blob"]
       \/ PutFails(offset, Reserve(size)) /\ UNCHANGED <<offset, ctx>>
    /\ UNCHANGED <<ccvars, job, target, blobs, out>>

\* write_blob_begin_read: a new file is hashed first, unless no other blob has
\* its size; one that the output has already is left out.
BeginBlob ==
    /\ w.pc = "blob" /\ ~blobs.open /\ blobs.todo # <<>>
    /\ LET c == Head(blobs.todo) IN
       \/ BWFail /\ UNCHANGED <<blobs, ctx>>
       \/ /\ c \in blobs.known /\ UNCHANGED w
          /\ blobs' = [blobs EXCEPT !.todo = Tail(@)]
          /\ ctx' = IF job.solid THEN [ctx EXCEPT !.res_size = @ - Size[c]] ELSE ctx
       \/ /\ c \notin blobs.known /\ UNCHANGED w
          /\ blobs' = [blobs EXCEPT !.open = TRUE, !.off = 0, !.known = @ \cup {c}]
          /\ ctx' = [ctx EXCEPT !.being = Append(@, c)]
    /\ UNCHANGED <<ccvars, disk, job, target, offset, out>>

\* read_blob_list hands the next piece of the blob to write_blob_process_chunk,
\* which writes it at once if it is not to be compressed, or cannot read it.
ReadPiece ==
    /\ w.pc = "blob" /\ blobs.open /\ blobs.piece = 0
    /\ LET c == Head(blobs.todo)
           n == IF BUFFER_SIZE <= Size[c] - blobs.off THEN BUFFER_SIZE ELSE Size[c] - blobs.off
       IN  \/ BWFail /\ UNCHANGED <<blobs, ctx>>
           \/ /\ n > 0 /\ kind # "none"
              /\ blobs' = [blobs EXCEPT !.piece = n] /\ w' = [w EXCEPT !.pc = "fill"] /\ UNCHANGED ctx
           \/ /\ n > 0 /\ kind = "none"
              /\ blobs' = [blobs EXCEPT !.off = @ + n]
              /\ ctx' = [ctx EXCEPT !.result = [data |-> Bytes(c, blobs.off, n), csize |-> n, usize |-> n]]
              /\ w' = [w EXCEPT !.pc = "write", !.back = "blob"]
           \/ /\ n = 0 /\ blobs' = [blobs EXCEPT !.todo = Tail(@), !.open = FALSE] /\ UNCHANGED <<w, ctx>>
    /\ UNCHANGED <<ccvars, disk, job, target, offset, out>>

\* prepare_chunk_buffer: a buffer to fill, else the result of an earlier chunk
\* is written to get one.
GetBuffer ==
    /\ w.pc = "fill" /\ ~ctx.buf /\ blobs.piece > 0
    /\ IF NoBuffer
       THEN w' = [w EXCEPT !.pc = "result", !.back = "fill"] /\ UNCHANGED <<ccvars, ctx>>
       ELSE get_chunk_buffer /\ ctx' = [ctx EXCEPT !.buf = TRUE] /\ UNCHANGED w
    /\ UNCHANGED <<disk, job, target, offset, blobs, out>>

\* The piece is copied to the buffer as far as the chunk goes: to the end of
\* the blob, or (solid) on into the next blob.
needed_chunk_size ==
    LET rest == ctx.filled + (Size[Head(blobs.todo)] - blobs.off)
    IN  IF job.solid \/ rest >= out_chunk_size THEN out_chunk_size ELSE rest

CopyPiece ==
    /\ w.pc = "fill" /\ ctx.buf /\ blobs.piece > 0
    /\ LET need == needed_chunk_size - ctx.filled
           n == IF blobs.piece <= need THEN blobs.piece ELSE need
           ms == [msgs EXCEPT ![next_submit_msg].ub[Slot] =
                     SubSeq(@, 1, ctx.filled) \o Bytes(Head(blobs.todo), blobs.off, n)]
       IN  /\ blobs' = [blobs EXCEPT !.off = @ + n, !.piece = @ - n]
           /\ IF n = need
              THEN /\ signal_chunk_filled(ms)
                   /\ ctx' = [ctx EXCEPT !.buf = FALSE, !.filled = 0]
              ELSE /\ msgs' = ms /\ ctx' = [ctx EXCEPT !.filled = @ + n]
                   /\ UNCHANGED <<submitted_msgs, next_submit_msg, next_ready_msg, to_compress, thr>>
           /\ w' = [w EXCEPT !.pc = IF blobs.piece = n THEN "blob" ELSE "fill"]
    /\ UNCHANGED <<kind, shape, available_msgs, next_chunk_idx, compressed, terminating, waiting,
                   disk, job, target, offset, out>>

\* get_compression_result, waited for; write_chunk comes next.
AwaitResult ==
    /\ w.pc = "result" /\ (SubmitRest \/ ReceiveMessage \/ FirstIsReady)
    /\ UNCHANGED bwvars

GetResult ==
    /\ w.pc = "result" /\ TakeResult
    /\ ctx' = [ctx EXCEPT !.result = Result] /\ w' = [w EXCEPT !.pc = "write"]
    /\ UNCHANGED <<disk, job, target, offset, blobs, out>>

-----------------------------------------------------------------------------
\* write_chunk: the first chunk of a blob begins its resource; the last one
\* ends it.  In a solid resource a chunk may end several blobs.
NewResource == ctx.done = 0 /\ ~job.solid

Finished(being, done) == CHOOSE k \in 0 .. Len(being) :
                            /\ SumTo(Sizes(being), k) <= done
                            /\ k < Len(being) => SumTo(Sizes(being), k + 1) > done

WriteChunk ==
    /\ w.pc = "write"
    /\ LET c == IF NewResource THEN Begun(ctx, Size[Head(ctx.being)]) ELSE ctx
           cells == (IF NewResource THEN Reserve(Size[Head(ctx.being)]) ELSE <<>>) \o Cells(ctx.result)
           done == c.done + ctx.result.usize
           k == Finished(ctx.being, done)
           c1 == [c EXCEPT !.csizes = IF kind = "none" THEN @ ELSE Append(@, ctx.result.csize),
                           !.done = done, !.result = <<>>]
       IN  \/ /\ Put(offset, cells) /\ offset' = offset + Len(cells)
              /\ ctx' = IF job.solid
                        THEN [c1 EXCEPT !.done = done - SumTo(Sizes(ctx.being), k),
                                        !.solid = @ \o SubSeq(ctx.being, 1, k),
                                        !.being = SubSeq(@, k + 1, Len(@))]
                        ELSE c1
              /\ w' = [w EXCEPT !.pc = IF ~job.solid /\ done = Size[Head(ctx.being)] THEN "end" ELSE w.back]
           \/ /\ PutFails(offset, cells) /\ UNCHANGED offset
              /\ ctx' = [ctx EXCEPT !.result = <<>>]
    /\ UNCHANGED <<ccvars, job, target, blobs, out>>

\* end_chunk_table: offsets of all chunks but the first, or all sizes if solid
ChunkTable == [k \in 1 .. Entries(Len(ctx.csizes)) |->
                  [entry |-> IF job.solid THEN ctx.csizes[k] ELSE SumTo(ctx.csizes, k)]]
TableStart == ctx.start - Len(ChunkTable)

\* The blob leaves blobs_being_compressed.
BlobDone == ctx' = [ctx EXCEPT !.being = Tail(@), !.done = 0] /\ w' = [w EXCEPT !.pc = w.back]

\* end_write_resource of one blob; if that took no less room than the blob
\* itself it is to be rewritten, unless the one chunk is the blob.
EndResource ==
    /\ w.pc = "end"
    /\ LET c == Head(ctx.being)
           table == IF kind = "none" THEN <<>> ELSE ChunkTable
           at == IF kind = "none" THEN ctx.start ELSE TableStart
           size == offset - at
           same == Len(ctx.csizes) = 1 /\ size = ctx.res_size
       IN  \/ /\ Put(at, table)
              /\ out' = [out EXCEPT ![c] = [off |-> at, size |-> size, usize |-> ctx.res_size,
                                            lz |-> kind # "none" /\ ~same, res |-> 0]]
              /\ IF size < ctx.res_size \/ kind = "none" \/ same
                 THEN BlobDone
                 ELSE w' = [w EXCEPT !.pc = "rewrite"] /\ UNCHANGED ctx
           \/ PutFails(at, table) /\ UNCHANGED <<ctx, out>>
    /\ UNCHANGED <<ccvars, job, target, offset, blobs>>

\* write_blob_uncompressed: the blob is read once more and written over its
\* resource.  If nothing of it can be read the resource stays, and it may stay
\* if the blob is read from a larger solid resource.
RewriteBlob ==
    /\ w.pc = "rewrite"
    /\ LET c == Head(ctx.being) IN
           \/ /\ Put(out[c].off, Bytes(c, 0, Size[c])) /\ offset' = out[c].off + Size[c]
              /\ out' = [out EXCEPT ![c].size = Size[c], ![c].lz = FALSE] /\ BlobDone
           \/ BlobDone /\ UNCHANGED <<disk, offset, out>>
           \/ PutFails(out[c].off, Bytes(c, 0, Size[c])) /\ UNCHANGED <<ctx, offset, out>>
    /\ UNCHANGED <<ccvars, job, target, blobs>>

-----------------------------------------------------------------------------
\* All blobs are read: finish_remaining_chunks submits what a solid resource
\* has in the buffer, then every result is written.
FinishChunks ==
    /\ w.pc = "blob" /\ ~blobs.open /\ blobs.todo = <<>>
    /\ IF ctx.filled # 0
       THEN signal_chunk_filled(msgs)
       ELSE UNCHANGED <<msgs, submitted_msgs, next_submit_msg, next_ready_msg, to_compress, thr>>
    /\ ctx' = [ctx EXCEPT !.buf = FALSE, !.filled = 0]
    /\ w' = [w EXCEPT !.pc = "result", !.back = "result"]
    /\ UNCHANGED <<kind, shape, available_msgs, next_chunk_idx, compressed, terminating, waiting,
                   disk, job, target, offset, blobs, out>>

\* wimlib_assert(bret) in prepare_chunk_buffer: no buffer, hence a result.
\* "assert" is a place the writer must never be in.
NoMoreResults ==
    /\ w.pc = "result" /\ NoResult
    /\ w' = [w EXCEPT !.pc = IF w.back = "fill" THEN "assert" ELSE IF job.solid THEN "endsolid" ELSE "destroy"]
    /\ UNCHANGED <<ccvars, disk, job, target, offset, blobs, ctx, out>>

\* The solid resource ends; its blobs lie in it one after the other.
EndSolid ==
    /\ w.pc = "endsolid"
    /\ LET table == <<[usize |-> ctx.res_size]>> \o ChunkTable
           at == TableStart - 1
       IN  \/ /\ Put(at, table)
              /\ out' = [c \in DOMAIN out |->
                            IF \E k \in 1 .. Len(ctx.solid) : ctx.solid[k] = c
                            THEN LET k == CHOOSE k \in 1 .. Len(ctx.solid) : ctx.solid[k] = c
                                 IN  [off |-> SumTo(Sizes(ctx.solid), k - 1), size |-> Size[c],
                                      usize |-> ctx.res_size, lz |-> TRUE, res |-> at]
                            ELSE out[c]]
              /\ w' = [w EXCEPT !.pc = "destroy"]
           \/ PutFails(at, table) /\ UNCHANGED out
    /\ UNCHANGED <<ccvars, job, target, offset, blobs, ctx>>

\* out_destroy_context
DestroyContext ==
    /\ w.pc = "destroy"
    /\ IF kind = "parallel" THEN Terminate ELSE UNCHANGED ccvars
    /\ w' = [w EXCEPT !.pc = "join"] /\ ctx' = NoCtx
    /\ UNCHANGED <<disk, job, target, offset, blobs, out>>

JoinThreads ==
    /\ w.pc = "join" /\ destroy
    /\ w' = [w EXCEPT !.pc = "written"]
    /\ UNCHANGED <<disk, job, target, offset, blobs, ctx, out>>

Writer == \/ CreateCompressor \/ BeginSolid \/ BeginBlob \/ ReadPiece \/ GetBuffer \/ CopyPiece
          \/ AwaitResult \/ GetResult \/ WriteChunk \/ EndResource \/ RewriteBlob \/ FinishChunks
          \/ NoMoreResults \/ EndSolid \/ DestroyContext \/ JoinThreads
=============================================================================
