----------------------------- MODULE WimOverwrite -----------------------------
(***************************************************************************)
(* wimlib/write.c, wimlib_overwrite, as wue.c calls it on boot.wim after it  *)
(* has added files to an image: new blobs (BlobWriter), metadata, blob table *)
(* and XML data are appended and the header is written last, or, if the old  *)
(* file has its parts in another order, a new file is written and renamed.   *)
(* Any call may fail; the program or the drive may be gone after any step.   *)
(***************************************************************************)
EXTENDS BlobWriter

CONSTANTS Jobs,             \* [old, new: contents, solid, ctype, order_ok, integrity]
          INTEGRITY_CHUNK   \* how much of the file one checksum of the integrity table covers

Names == {"wim", "tmp", "orig"}

VARIABLE o   \* wimlib_overwrite: pc, wim->hdr, out_hdr, old_wim_end, where metadata and table lie
vars == <<ccvars, bwvars, o>>

Hdr(wip, table, xml, integ) == [wip |-> wip, table |-> table, xml |-> xml, integ |-> integ]
NoTable == 0
File(hdr, data) == [there |-> TRUE, hdr |-> hdr, data |-> data]
Absent == [there |-> FALSE, hdr |-> Hdr(FALSE, 0, 0, NoTable), data |-> <<>>]

\* What the image of a WIM refers to, once the files of new are added: they
\* replace what the job says they replace.
NewContents(j) == (Range(j.old) \ j.replaced) \cup Range(j.new)
Kept(j) == SelectSeq(j.old, LAMBDA c : c \notin j.replaced)

\* What a job writes are contents.
ASSUME JobsAssumption == \A j \in Jobs : Kept(j) \in Seq(DOMAIN Size) /\ j.new \in Seq(DOMAIN Size)

-----------------------------------------------------------------------------
\* integrity.c: the checksum of a chunk stands for the chunk; calculate_
\* integrity_table takes from the old table what the old file's range covers.
IntegrityChunk(data, i, end) ==
    SubSeq(data, (i - 1) * INTEGRITY_CHUNK + 1,
                 IF i * INTEGRITY_CHUNK <= end THEN i * INTEGRITY_CHUNK ELSE end)

Reusable(i, old_end, new_end) ==
    LET this == IF i * INTEGRITY_CHUNK <= new_end THEN INTEGRITY_CHUNK ELSE new_end % INTEGRITY_CHUNK
        old == CeilDiv(old_end, INTEGRITY_CHUNK)
        last == IF old_end % INTEGRITY_CHUNK = 0 THEN INTEGRITY_CHUNK ELSE old_end % INTEGRITY_CHUNK
    IN  (this = INTEGRITY_CHUNK /\ i < old) \/ (i = old /\ this = last)

calculate_integrity_table(data, new_end, sums, old_end) ==
    [i \in 1 .. CeilDiv(new_end, INTEGRITY_CHUNK) |->
        IF sums # <<>> /\ Reusable(i, old_end, new_end) THEN sums[i] ELSE IntegrityChunk(data, i, new_end)]

-----------------------------------------------------------------------------
(***************************************************************************)
(* The file as a reader finds it                                           *)
(***************************************************************************)
Has(data, at, field) == at \in 1 .. Len(data) /\ field \in DOMAIN data[at]
Entry(data, at) == IF Has(data, at, "entry") THEN data[at].entry ELSE 0

\* read_compressed_wim_resource: where chunk k begins, from the chunk table
ChunkStart(data, off, n, k, solid) ==
    IF solid THEN off + 1 + n + SumTo([m \in 1 .. n |-> Entry(data, off + m)], k - 1)
    ELSE off + (n - 1) + IF k = 1 THEN 0 ELSE Entry(data, off + k - 2)

ReadChunk(cells, usize) ==
    IF Len(cells) = usize THEN cells
    ELSE IF \A i \in 1 .. Len(cells) :
               /\ DOMAIN cells[i] = {"lz", "i", "of"}
               /\ cells[i] = [lz |-> cells[1].lz, i |-> i, of |-> Len(cells)]
         THEN cells[1].lz ELSE <<>>

ReadResource(data, off, size, usize, solid) ==
    LET n == CeilDiv(usize, out_chunk_size)
        end(k) == IF k = n /\ ~solid THEN off + size
                  ELSE IF k = n THEN ChunkStart(data, off, n, n, TRUE) + Entry(data, off + n)
                  ELSE ChunkStart(data, off, n, k + 1, solid)
        usz(k) == IF k = n THEN usize - (n - 1) * out_chunk_size ELSE out_chunk_size
    IN  Concatenated([k \in 1 .. n |-> ReadChunk(SubSeq(data, ChunkStart(data, off, n, k, solid), end(k) - 1), usz(k))])

ReadBlob(data, r) ==
    CASE r.res # 0 -> SubSeq(ReadResource(data, r.res, 0, r.usize, TRUE), r.off + 1, r.off + r.size)
      [] r.res = 0 /\ r.lz -> ReadResource(data, r.off, r.size, r.usize, FALSE)
      [] OTHER -> SubSeq(data, r.off, r.off + r.size - 1)

\* The contents of the image, each of its files read back whole, the XML data
\* and, where the header has one, the integrity table in order.
Holds(f, contents) ==
    /\ f.there
    /\ Has(f.data, f.hdr.table, "blobs") /\ Has(f.data, f.hdr.xml, "xml")
    /\ LET t == f.data[f.hdr.table] IN
       /\ Has(f.data, t.meta, "files") /\ f.data[t.meta].files = contents
       /\ f.data[f.hdr.xml].xml = contents
       /\ \A c \in contents : c \in DOMAIN t.blobs /\ ReadBlob(f.data, t.blobs[c]) = Bytes(c, 0, Size[c])
    /\ f.hdr.integ # NoTable =>
          /\ Has(f.data, f.hdr.integ, "sums")
          /\ f.data[f.hdr.integ].sums =
                calculate_integrity_table(f.data, f.hdr.table, <<>>, 0)

-----------------------------------------------------------------------------
\* The WIM at the start: the old blobs (solid: in one resource, its chunks
\* stored as they are), metadata, table, XML data and possibly an integrity table.
OldResources(j) ==
    LET all == Concatenated([k \in 1 .. Len(j.old) |-> Bytes(j.old[k], 0, Size[j.old[k]])])
        n == CeilDiv(Len(all), out_chunk_size)
        csize(k) == IF k < n THEN out_chunk_size ELSE Len(all) - (n - 1) * out_chunk_size
    IN  IF j.solid THEN <<[usize |-> Len(all)]>> \o [k \in 1 .. n |-> [entry |-> csize(k)]] \o all ELSE all

OldReshdr(j, k) ==
    IF j.solid THEN [off |-> SumTo(Sizes(j.old), k - 1), size |-> Size[j.old[k]],
                     usize |-> SumTo(Sizes(j.old), Len(j.old)), lz |-> TRUE, res |-> 1]
    ELSE [off |-> SumTo(Sizes(j.old), k - 1) + 1, size |-> Size[j.old[k]], usize |-> Size[j.old[k]],
          lz |-> FALSE, res |-> 0]

OldFile(j) ==
    LET res == OldResources(j)
        n == Len(res)
        meta == [files |-> Range(j.old)]
        xml == [xml |-> Range(j.old)]
        table(m) == [blobs |-> [c \in Range(j.old) |-> OldReshdr(j, CHOOSE k \in 1 .. Len(j.old) : j.old[k] = c)],
                     meta |-> m]
        data == IF j.order_ok THEN res \o <<meta, table(n + 1), xml>>
                ELSE res \o <<table(n + 3), xml, meta>>
        tab == IF j.order_ok THEN n + 2 ELSE n + 1
    IN  File(Hdr(FALSE, tab, tab + 1, IF j.integrity THEN n + 4 ELSE NoTable),
             IF j.integrity THEN Append(data, [sums |-> calculate_integrity_table(data, tab, <<>>, 0)])
             ELSE data)

Init ==
    /\ CCInit
    /\ job \in Jobs
    /\ disk = [n \in Names |-> IF n = "wim" THEN OldFile(job) ELSE Absent]
    /\ target = "wim" /\ offset = 0
    /\ w = [pc |-> "idle", back |-> "blob", ret |-> "ok"]
    /\ blobs = [todo |-> <<>>, known |-> {}, off |-> 0, piece |-> 0, open |-> FALSE]
    /\ ctx = NoCtx /\ out = [c \in DOMAIN Size |-> [off |-> 0, size |-> 0, usize |-> 0, lz |-> FALSE, res |-> 0]]
    /\ o = [pc |-> "start", hdr |-> OldFile(job).hdr, meta |-> 0, table |-> 0, xml |-> 0, integ |-> NoTable,
            sums |-> <<>>, end |-> 0, ret |-> "-"]

At(pc) == o.pc = pc
Goto(pc) == o' = [o EXCEPT !.pc = pc]
file == disk["wim"]
inplace == target = "wim"

\* Before anything is written: no memory, images that cannot be read, a file
\* that cannot be opened
EarlyFailure(pc) == At(pc) /\ o' = [o EXCEPT !.pc = "done", !.ret = "error"]

\* Mutant: the integrity table is overwritten.
old_wim_end_xml == o.hdr.xml + 1

\* overwrite_wim_inplace, up to open_wim_writable.  Resources after the old end
\* (WIMLIB_ERR_RESOURCE_ORDER) make wimlib_overwrite write a new file instead.
old_wim_end == IF o.hdr.integ # NoTable THEN o.hdr.integ + 1 ELSE o.hdr.xml + 1

ResourceEnd(r) == IF r.res = 0 THEN r.off + r.size
                  ELSE LET n == CeilDiv(r.usize, out_chunk_size) IN ChunkStart(file.data, r.res, n, n + 1, TRUE)

InOrder == /\ o.hdr.integ # NoTable => o.hdr.integ > o.hdr.xml
           /\ o.hdr.table < o.hdr.xml
           /\ file.data[o.hdr.table].meta < old_wim_end
           /\ \A c \in Range(job.old) : ResourceEnd(file.data[o.hdr.table].blobs[c]) <= old_wim_end

PrepareInPlace ==
    /\ At("start") /\ InOrder
    /\ o' = [o EXCEPT !.pc = "mark", !.end = old_wim_end]
    /\ UNCHANGED <<ccvars, bwvars>>

\* WIM_HDR_FLAG_WRITE_IN_PROGRESS is set in the file's header.
MarkInProgress ==
    /\ At("mark")
    /\ \/ /\ disk' = [disk EXCEPT !["wim"].hdr.wip = TRUE] /\ Goto("blobs")
          /\ offset' = o.end
          /\ BWStart(job.new, Range(job.old) \ job.replaced)
       \/ \* the flag cannot be written
          Goto("close_error") /\ UNCHANGED <<disk, offset, w, blobs, ctx>>
       \/ \* the seek fails
          /\ disk' = [disk EXCEPT !["wim"].hdr.wip = TRUE] /\ Goto("restore")
          /\ UNCHANGED <<offset, w, blobs, ctx>>
    /\ UNCHANGED <<ccvars, job, target, out>>

\* overwrite_wim_via_tmpfile, write_wim_part: a new file with a header that
\* names nothing yet.  Its blobs are the old ones still in use and the new.
OpenTemporary ==
    /\ At("start") /\ ~InOrder
    /\ target' = "tmp" /\ offset' = 1
    /\ \/ /\ disk' = [disk EXCEPT !["tmp"] = File(Hdr(TRUE, 0, 0, NoTable), <<>>)]
          /\ Goto("blobs")
          /\ BWStart(Kept(job) \o job.new, {})
       \/ /\ disk' = [disk EXCEPT !["tmp"] = [Absent EXCEPT !.there = TRUE]]
          /\ Goto("close_error") /\ UNCHANGED <<w, blobs, ctx>>
    /\ UNCHANGED <<ccvars, job, out>>

\* write_blob_list has returned.
BlobsWritten ==
    /\ At("blobs") /\ w.pc = "written"
    /\ Goto(IF w.ret = "ok" THEN "meta" ELSE "truncate")
    /\ w' = [w EXCEPT !.pc = "idle"]
    /\ UNCHANGED <<ccvars, disk, job, target, offset, blobs, ctx, out>>

\* One structure is written at out_fd's offset; at fails by truncation.
Structure(pc, cell, next) ==
    /\ At(pc)
    /\ \/ /\ Put(offset, <<cell>>) /\ offset' = offset + 1 /\ o' = next
       \/ \E n \in 0 .. 1 : Put(offset, SubSeq(<<cell>>, 1, n)) /\ Goto("truncate") /\ UNCHANGED offset
    /\ UNCHANGED <<ccvars, job, target, w, blobs, ctx, out>>

\* write_metadata_resources: the image is dirty, its metadata is built anew.
WriteMetadata == Structure("meta", [files |-> NewContents(job)], [o EXCEPT !.pc = "table", !.meta = offset])

\* finish_write: the old integrity table is read, if it can be; write_blob_table
\* (old blobs keep their places in the file), ...
OldSums == {<<>>} \cup {file.data[k].sums : k \in {k \in {o.hdr.integ} : inplace /\ Has(file.data, k, "sums")}}
TableEntry(c) == IF inplace /\ c \in Range(job.old) \ job.replaced THEN file.data[o.hdr.table].blobs[c] ELSE out[c]
WriteBlobTable ==
    \E sums \in OldSums :
       Structure("table", [blobs |-> [c \in NewContents(job) |-> TableEntry(c)], meta |-> o.meta],
                 [o EXCEPT !.pc = "xml", !.table = offset, !.sums = sums])

\* ... write_wim_xml_data, ...
WriteXml == Structure("xml", [xml |-> NewContents(job)],
                      [o EXCEPT !.pc = IF job.integrity THEN "integrity" ELSE "header", !.xml = offset])

\* ... write_integrity_table, if the old file had one, ...
WriteIntegrity ==
    Structure("integrity",
              [sums |-> calculate_integrity_table(disk[target].data, o.table, o.sums, o.hdr.table)],
              [o EXCEPT !.pc = "header", !.integ = offset])

\* Mutant: the flag of an unfinished write stays in the header.
WriteHeader_wip ==
    /\ At("header")
    /\ disk' = [disk EXCEPT ![target].hdr = Hdr(@.wip, o.table, o.xml, o.integ)]
    /\ Goto("close")
    /\ UNCHANGED <<ccvars, job, target, offset, w, blobs, ctx, out>>

\* ... and the header, which makes the new contents the file's.
WriteHeader ==
    /\ At("header")
    /\ \/ /\ disk' = [disk EXCEPT ![target].hdr = Hdr(FALSE, o.table, o.xml, o.integ)]
          /\ Goto("close")
       \/ Goto("truncate") /\ UNCHANGED disk
    /\ UNCHANGED <<ccvars, job, target, offset, w, blobs, ctx, out>>

\* fsync (of a new file) and close; after a failed close out_fd is invalid, so
\* that nothing of what out_truncate does reaches the file.
CloseFile ==
    /\ At("close")
    /\ \/ o' = IF inplace THEN [o EXCEPT !.pc = "done", !.ret = "ok"] ELSE [o EXCEPT !.pc = "rename"]
       \/ o' = IF inplace THEN [o EXCEPT !.pc = "done", !.ret = "error"] ELSE [o EXCEPT !.pc = "unlink"]
    /\ UNCHANGED <<ccvars, bwvars>>

\* out_truncate, unless a new file is being written: the file gets its old
\* length, or a warning says it did not, ...
Truncate ==
    /\ At("truncate")
    /\ IF inplace
       THEN /\ Goto("restore")
            /\ \/ disk' = [disk EXCEPT !["wim"].data = SubSeq(@, 1, o.end - 1)]
               \/ UNCHANGED disk
       ELSE Goto("close_error") /\ UNCHANGED disk
    /\ UNCHANGED <<ccvars, job, target, offset, w, blobs, ctx, out>>

\* ... out_restore_hdr: and its old flags, if they can be written.
RestoreFlags ==
    /\ At("restore") /\ Goto("close_error")
    /\ \/ disk' = [disk EXCEPT !["wim"].hdr.wip = FALSE]
       \/ UNCHANGED disk
    /\ UNCHANGED <<ccvars, job, target, offset, w, blobs, ctx, out>>

CloseAfterError ==
    /\ At("close_error")
    /\ o' = IF inplace THEN [o EXCEPT !.pc = "done", !.ret = "error"] ELSE [o EXCEPT !.pc = "unlink"]
    /\ UNCHANGED <<ccvars, bwvars>>

\* win32_rename_replacement: one MoveFileEx; if another process has the old
\* file open that one is moved out of the way first and deleted.
Rename ==
    /\ At("rename")
    /\ \/ disk' = [disk EXCEPT !["wim"] = disk["tmp"], !["tmp"] = Absent] /\ o' = [o EXCEPT !.pc = "done", !.ret = "ok"]
       \/ Goto("unlink") /\ UNCHANGED disk
       \/ disk' = [disk EXCEPT !["orig"] = disk["wim"], !["wim"] = Absent] /\ Goto("delete")
    /\ UNCHANGED <<ccvars, job, target, offset, w, blobs, ctx, out>>

DeleteOriginal ==
    /\ At("delete") /\ Goto("move")
    /\ disk' \in {disk, [disk EXCEPT !["orig"] = Absent]}
    /\ UNCHANGED <<ccvars, job, target, offset, w, blobs, ctx, out>>

MoveNew ==
    /\ At("move")
    /\ \/ disk' = [disk EXCEPT !["wim"] = disk["tmp"], !["tmp"] = Absent] /\ o' = [o EXCEPT !.pc = "done", !.ret = "ok"]
       \/ o' = [o EXCEPT !.pc = "done", !.ret = "error"] /\ UNCHANGED disk
    /\ UNCHANGED <<ccvars, job, target, offset, w, blobs, ctx, out>>

\* tunlink(tmpfile), whose own failure goes unnoticed
Unlink ==
    /\ At("unlink") /\ o' = [o EXCEPT !.pc = "done", !.ret = "error"]
    /\ disk' \in {disk, [disk EXCEPT !["tmp"] = Absent]}
    /\ UNCHANGED <<ccvars, job, target, offset, w, blobs, ctx, out>>

EarlyError == EarlyFailure("start") /\ UNCHANGED <<ccvars, bwvars>>

Main == \/ EarlyError \/ PrepareInPlace \/ MarkInProgress \/ OpenTemporary \/ (Writer /\ UNCHANGED o)
        \/ BlobsWritten \/ WriteMetadata \/ WriteBlobTable \/ WriteXml \/ WriteIntegrity \/ WriteHeader
        \/ CloseFile \/ Truncate \/ RestoreFlags \/ CloseAfterError \/ Rename \/ DeleteOriginal \/ MoveNew
        \/ Unlink

Next == Main \/ (\E t \in Threads : Worker(t) /\ UNCHANGED <<bwvars, o>>)

Spec == Init /\ [][Next]_vars

-----------------------------------------------------------------------------
Old == Range(job.old)
New == NewContents(job)

\* Every index is inside its buffer and every count one of what there is: the
\* chunk that get_compression_result is about to return is one that its message
\* has, a solid resource's size never falls below 0 however many of its blobs
\* turn out to be duplicates, and the header only names places in the file.
TypeOK ==
    /\ DOMAIN disk = Names /\ target \in Names /\ offset \in Nat /\ job \in Jobs
    /\ kind \in {"none", "serial", "parallel"} /\ terminating \in BOOLEAN /\ waiting \in BOOLEAN
    /\ \A t \in Threads : /\ thr[t].pc \in {"get", "asleep", "compress", "put", "exited"}
                          /\ thr[t].pc \in {"compress", "put"} <=> thr[t].msg \in DOMAIN msgs
    /\ \A m \in DOMAIN msgs : msgs[m].n \in 0 .. shape[1]
    /\ next_submit_msg \in {NoMsg} \cup DOMAIN msgs
    /\ next_ready_msg # NoMsg => next_chunk_idx \in 1 .. msgs[next_ready_msg].n
    /\ ctx.res_size \in Nat /\ ctx.filled \in 0 .. out_chunk_size - 1
    /\ \A n \in Names : {disk[n].hdr.table, disk[n].hdr.xml, disk[n].hdr.integ} \subseteq 0 .. Len(disk[n].data)

\* overwrite_wim_inplace's comment: "At all points, the WIM is valid as nothing
\* points to the new data yet."  Whatever the program was doing when it or the
\* drive went away, and whatever call failed, boot.wim has its old contents
\* whole or its new contents whole, integrity table included; or, when the new
\* file could not replace the old one in one step, the new file is complete.
Complete(f) == Holds(f, Old) \/ Holds(f, New)
CrashSafe == IF o.pc \in {"delete", "move"} THEN Holds(disk["tmp"], New)
             ELSE Complete(file) \/ (~file.there /\ Holds(disk["tmp"], New))

\* wimlib_overwrite returned 0, on which wue.c relies: every file of the image,
\* old and new, can be read back from boot.wim, which is not marked as being
\* written (a WIM so marked is refused by whoever opens it to change it next)
\* and no temporary file is left.
SuccessMeansNew == At("done") /\ o.ret = "ok" => Holds(file, New) /\ ~file.hdr.wip /\ ~disk["tmp"].there

\* The chunk that came back last, until it is written
chunkBack == IF kind = "none" \/ ctx.result = <<>> THEN <<>> ELSE ctx.result.data

Fifo == INSTANCE ChunkFifo WITH pending <- pendingChunks, result <- chunkBack

\* The assertion in prepare_chunk_buffer (write.c:1000): when there is no buffer
\* to fill there is a result to come.
BufferOrResult == w.pc # "assert"

\* Either compressor implements ChunkFifo: chunks come back once each, in the
\* order they were handed over, each with its own data, whatever order the
\* workers finish in.  A message has one owner, and the writer never finds
\* neither a buffer nor a result.
ChunksInOrder == Fifo!Spec /\ []OneOwner /\ []BufferOrResult

\* wimlib_overwrite returns if its thread and the workers keep running: no
\* wake-up between them is lost, the join in destroy ends, and the assertion in
\* prepare_chunk_buffer (no buffer is free, hence a result is to come) holds.
Returns == WF_vars(Main) /\ (\A t \in Threads : WF_vars(Worker(t) /\ UNCHANGED <<bwvars, o>>)) => <>At("done")
=============================================================================
