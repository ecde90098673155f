---------------------------- MODULE HashPipeline ----------------------------
(***************************************************************************)
(* Computing the digests of an image: src/src/hash.c, HashThread (one      *)
(* reader, NUM_BUFFERS buffers filled by asynchronous reads) and           *)
(* IndividualHashThread (one worker per algorithm).  The reader overlaps   *)
(* the read of one chunk with the hashing of the previous one; reader and  *)
(* workers synchronise through one pair of auto-reset events per worker.   *)
(*                                                                         *)
(* Data: a chunk of the image is its index 1..NumChunks, a digest is the   *)
(* sequence of chunks that went into it, a read size is 1 (some bytes) or  *)
(* 0 (end of file).                                                        *)
(***************************************************************************)
EXTENDS Naturals, Sequences

CONSTANTS NumHashes,   \* num_hashes: 3, or 4 with enable_extra_hashes
          NumChunks,   \* number of BUFFER_SIZE reads that return data
          Faults       \* the failures the environment may inject

FaultKinds == {"create", "open", "read", "event", "cancel",
               "reader_timeout", "worker_timeout"}

ASSUME NumHashesAssumption == NumHashes \in Nat \ {0}
ASSUME NumChunksAssumption == NumChunks \in Nat
ASSUME FaultsAssumption == Faults \subseteq FaultKinds

VARIABLES pc,            \* control point of HashThread
          i,             \* its loop counter
          read_bufnum,   \* buffer the reader fills
          proc_bufnum,   \* buffer the workers are told to hash
          read_size,     \* per buffer, what the last read returned
          buffer,        \* per buffer, the chunk it holds
          io,            \* the asynchronous read: its buffer and its status
          offset,        \* fd->Overlapped.Offset, in chunks
          thread_ready,  \* workers whose thread_ready event is signalled
          data_ready,    \* workers whose data_ready event is signalled
          worker,        \* per worker, its control point
          hash_buf,      \* per worker, the buffer its hash_write reads
          hash_ctx,      \* per worker, the chunks hashed so far
          hash_str,      \* per worker, the digest string shown to the user
          ErrorStatus,
          r              \* HashThread's result: 0 shows the digests

readerVars == <<pc, i, read_bufnum, proc_bufnum, read_size, offset, r>>
workerVars == <<worker, hash_buf, hash_ctx, hash_str>>
hash_vars == <<readerVars, workerVars, buffer, io, thread_ready, data_ready,
          ErrorStatus>>

\* Mutant: a double buffer where the code needs three.
TwoBuffers == 2

NUM_BUFFERS == 3
Buffers == 0 .. NUM_BUFFERS - 1
Succ(b) == (b + 1) % NUM_BUFFERS
Prev(b) == (b + NUM_BUFFERS - 1) % NUM_BUFFERS
Hashes == 0 .. NumHashes - 1

Torn == 0                               \* a buffer a read is being made into
HashStale == <<Torn>>                       \* the string an earlier image left
Digest == [k \in 1 .. NumChunks |-> k]  \* the digest of the whole image

ReaderStates == {"create", "loop", "read_wait", "threads_wait", "signal",
                 "final_wait", "out", "done"}
WorkerStates == {"none", "init", "wait", "hash", "final", "exit0", "exit1",
                 "killed"}
Exited == {"exit0", "exit1", "killed"}
Errors == {"none", "cancelled", "open_failed", "read_fault"}

HashInit ==
    /\ pc = "create" /\ i = 0 /\ r = 1
    /\ read_bufnum = 0 /\ offset = 0
    /\ proc_bufnum \in Buffers               \* static: as an earlier
    /\ read_size \in [Buffers -> 0 .. 1]     \* computation left them
    /\ buffer = [b \in Buffers |-> Torn]
    /\ io = [buf |-> 0, status |-> "idle"]
    /\ thread_ready = {} /\ data_ready = {}
    /\ worker = [h \in Hashes |-> "none"]
    /\ hash_buf = [h \in Hashes |-> 0]
    /\ hash_ctx = [h \in Hashes |-> <<>>]
    /\ hash_str = [h \in Hashes |-> HashStale]
    /\ ErrorStatus = "none"

-----------------------------------------------------------------------------
(* The asynchronous read of winio.h.                                       *)

\* From the call on, the kernel may write the buffer at any time.
ReadFileAsync(b) ==
    /\ io' = [buf |-> b, status |-> "pending"]
    /\ buffer' = [buffer EXCEPT ![b] = Torn]

\* The kernel finishes the read at offset: the next chunk, or end of file.
ReadCompletes ==
    /\ io.status = "pending"
    /\ io' = [io EXCEPT !.status = "ok"]
    /\ buffer' = IF offset < NumChunks
                 THEN [buffer EXCEPT ![io.buf] = offset + 1] ELSE buffer
    /\ UNCHANGED <<readerVars, workerVars, thread_ready, data_ready, ErrorStatus>>

ReadFails ==
    /\ "read" \in Faults
    /\ io.status = "pending"
    /\ io' = [io EXCEPT !.status = "failed"]
    /\ UNCHANGED <<readerVars, workerVars, buffer, thread_ready, data_ready, ErrorStatus>>

-----------------------------------------------------------------------------
(* HashThread.                                                             *)

\* A thread and its two events are created, in index order.
CreateHashThread ==
    /\ pc = "create" /\ i < NumHashes
    /\ worker' = [worker EXCEPT ![i] = "init"]
    /\ i' = i + 1
    /\ UNCHANGED <<pc, read_bufnum, proc_bufnum, read_size, offset, r, hash_buf,
                   hash_ctx, hash_str, buffer, io, thread_ready, data_ready, ErrorStatus>>

CreateHashThreadFails ==
    /\ "create" \in Faults
    /\ pc = "create" /\ i < NumHashes
    /\ pc' = "out"
    /\ UNCHANGED <<i, read_bufnum, proc_bufnum, read_size, offset, r, workerVars,
                   buffer, io, thread_ready, data_ready, ErrorStatus>>

\* read_size[proc_bufnum] = 1 avoids an early exit of the loop.
OpenImage ==
    /\ pc = "create" /\ i = NumHashes
    /\ read_bufnum' = 0 /\ proc_bufnum' = 1
    /\ read_size' = [read_size EXCEPT ![1] = 1]
    /\ ReadFileAsync(0)
    /\ pc' = "loop"
    /\ UNCHANGED <<i, offset, r, workerVars, thread_ready, data_ready, ErrorStatus>>

OpenImageFails ==
    /\ "open" \in Faults
    /\ pc = "create" /\ i = NumHashes
    /\ ErrorStatus' = "open_failed"
    /\ pc' = "out"
    /\ UNCHANGED <<i, read_bufnum, proc_bufnum, read_size, offset, r, workerVars,
                   buffer, io, thread_ready, data_ready>>

\* The loop's condition, then CHECK_FOR_USER_CANCEL.
LoopTest ==
    /\ pc = "loop"
    /\ pc' = IF read_size[proc_bufnum] = 0 THEN "final_wait"
             ELSE IF ErrorStatus = "cancelled" THEN "out" ELSE "read_wait"
    /\ UNCHANGED <<i, read_bufnum, proc_bufnum, read_size, offset, r, workerVars,
                   buffer, io, thread_ready, data_ready, ErrorStatus>>

\* Mutant: the next buffer is not taken modulo NUM_BUFFERS.
AwaitReadNoWrap ==
    /\ pc = "read_wait" /\ io.status = "ok"
    /\ LET size == IF offset < NumChunks THEN 1 ELSE 0 IN
       /\ read_size' = [read_size EXCEPT ![read_bufnum] = size]
       /\ offset' = offset + size
    /\ read_bufnum' = read_bufnum + 1
    /\ ReadFileAsync(Succ(read_bufnum))
    /\ pc' = "threads_wait"
    /\ UNCHANGED <<i, proc_bufnum, r, workerVars, thread_ready, data_ready, ErrorStatus>>

\* Mutant: a failed read counts as the end of the file.
AwaitReadAnyStatus ==
    /\ pc = "read_wait" /\ io.status \in {"ok", "failed"}
    /\ LET size == IF offset < NumChunks /\ io.status = "ok" THEN 1 ELSE 0 IN
       /\ read_size' = [read_size EXCEPT ![read_bufnum] = size]
       /\ offset' = offset + size
    /\ read_bufnum' = Succ(read_bufnum)
    /\ ReadFileAsync(Succ(read_bufnum))
    /\ pc' = "threads_wait"
    /\ UNCHANGED <<i, proc_bufnum, r, workerVars, thread_ready, data_ready, ErrorStatus>>

\* Steps 1 to 3: note the size, switch buffers, launch the next read.
AwaitRead ==
    /\ pc = "read_wait" /\ io.status = "ok"
    /\ LET size == IF offset < NumChunks THEN 1 ELSE 0 IN
       /\ read_size' = [read_size EXCEPT ![read_bufnum] = size]
       /\ offset' = offset + size
    /\ read_bufnum' = Succ(read_bufnum)
    /\ ReadFileAsync(Succ(read_bufnum))
    /\ pc' = "threads_wait"
    /\ UNCHANGED <<i, proc_bufnum, r, workerVars, thread_ready, data_ready, ErrorStatus>>

\* The read failed, or is not complete after DRIVE_ACCESS_TIMEOUT.
AwaitReadFails ==
    /\ "read" \in Faults
    /\ pc = "read_wait" /\ io.status # "ok"
    /\ ErrorStatus' = "read_fault"
    /\ pc' = "out"
    /\ UNCHANGED <<i, read_bufnum, proc_bufnum, read_size, offset, r, workerVars,
                   buffer, io, thread_ready, data_ready>>

\* Mutant: waiting for any worker instead of for all of them.
AwaitAnyThread ==
    /\ pc = "threads_wait" /\ thread_ready # {}
    /\ thread_ready' = {}
    /\ proc_bufnum' = Prev(read_bufnum)
    /\ i' = 0
    /\ pc' = "signal"
    /\ UNCHANGED <<read_bufnum, read_size, offset, r, workerVars, buffer, io,
                   data_ready, ErrorStatus>>

\* Steps 4 and 5: all workers ready (the wait resets their events at once).
AwaitThreads ==
    /\ pc = "threads_wait" /\ thread_ready = Hashes
    /\ thread_ready' = {}
    /\ proc_bufnum' = Prev(read_bufnum)
    /\ i' = 0
    /\ pc' = "signal"
    /\ UNCHANGED <<read_bufnum, read_size, offset, r, workerVars, buffer, io,
                   data_ready, ErrorStatus>>

\* Mutant: after the timeout the reader waits again.
AwaitThreadsRetry ==
    /\ "reader_timeout" \in Faults
    /\ pc = "threads_wait" /\ thread_ready # Hashes
    /\ UNCHANGED hash_vars

\* WAIT_TIME expires first.  ErrorStatus is left as it is.
AwaitThreadsTimeout ==
    /\ "reader_timeout" \in Faults
    /\ pc = "threads_wait" /\ thread_ready # Hashes
    /\ pc' = "out"
    /\ UNCHANGED <<i, read_bufnum, proc_bufnum, read_size, offset, r, workerVars,
                   buffer, io, thread_ready, data_ready, ErrorStatus>>

\* Mutant: the last worker is never told.
SignalThreadShort ==
    /\ pc = "signal"
    /\ data_ready' = data_ready \cup {i}
    /\ i' = i + 1
    /\ pc' = IF i + 2 >= NumHashes THEN "loop" ELSE "signal"
    /\ UNCHANGED <<read_bufnum, proc_bufnum, read_size, offset, r, workerVars,
                   buffer, io, thread_ready, ErrorStatus>>

\* Step 6: one SetEvent per worker, in index order.
SignalThread ==
    /\ pc = "signal"
    /\ data_ready' = data_ready \cup {i}
    /\ i' = i + 1
    /\ pc' = IF i + 1 = NumHashes THEN "loop" ELSE "signal"
    /\ UNCHANGED <<read_bufnum, proc_bufnum, read_size, offset, r, workerVars,
                   buffer, io, thread_ready, ErrorStatus>>

SignalThreadFails ==
    /\ "event" \in Faults
    /\ pc = "signal"
    /\ pc' = "out"
    /\ UNCHANGED <<i, read_bufnum, proc_bufnum, read_size, offset, r, workerVars,
                   buffer, io, thread_ready, data_ready, ErrorStatus>>

\* Mutant: the digests are shown without waiting for the workers.
AwaitNoFinal ==
    /\ pc = "final_wait"
    /\ r' = 0
    /\ pc' = "out"
    /\ UNCHANGED <<i, read_bufnum, proc_bufnum, read_size, offset, workerVars,
                   buffer, io, thread_ready, data_ready, ErrorStatus>>

\* Every thread handle is signalled: the thread is over, whatever it returned.
AwaitFinal ==
    /\ pc = "final_wait" /\ \A h \in Hashes : worker[h] \in Exited
    /\ r' = 0
    /\ pc' = "out"
    /\ UNCHANGED <<i, read_bufnum, proc_bufnum, read_size, offset, workerVars,
                   buffer, io, thread_ready, data_ready, ErrorStatus>>

AwaitFinalTimeout ==
    /\ "reader_timeout" \in Faults
    /\ pc = "final_wait" /\ \E h \in Hashes : worker[h] \notin Exited
    /\ pc' = "out"
    /\ UNCHANGED <<i, read_bufnum, proc_bufnum, read_size, offset, r, workerVars,
                   buffer, io, thread_ready, data_ready, ErrorStatus>>

\* out: terminate what still runs, close events and file, post
\* UM_FORMAT_COMPLETED and, if r = 0, show the dialog.
CleanUp ==
    /\ pc = "out"
    /\ worker' = [h \in Hashes |->
                    IF worker[h] \in Exited \cup {"none"} THEN worker[h] ELSE "killed"]
    /\ thread_ready' = {} /\ data_ready' = {}
    /\ io' = [io EXCEPT !.status = "idle"]
    /\ pc' = "done"
    /\ UNCHANGED <<i, read_bufnum, proc_bufnum, read_size, offset, r, hash_buf,
                   hash_ctx, hash_str, buffer, ErrorStatus>>

-----------------------------------------------------------------------------
(* IndividualHashThread.                                                   *)

\* The worker leaves thread_ready signalled and waits, or SetEvent failed.
SignalReady(h) ==
    \/ /\ thread_ready' = thread_ready \cup {h}
       /\ worker' = [worker EXCEPT ![h] = "wait"]
    \/ /\ "event" \in Faults
       /\ worker' = [worker EXCEPT ![h] = "exit1"]
       /\ UNCHANGED thread_ready

WorkerStart(h) ==
    /\ worker[h] = "init"
    /\ SignalReady(h)
    /\ UNCHANGED <<readerVars, hash_buf, hash_ctx, hash_str, buffer, io, data_ready,
                   ErrorStatus>>

\* data_ready is consumed; the size of the buffer decides what is done.
WorkerWakes(h) ==
    /\ worker[h] = "wait" /\ h \in data_ready
    /\ data_ready' = data_ready \ {h}
    /\ IF read_size[proc_bufnum] # 0
       THEN /\ worker' = [worker EXCEPT ![h] = "hash"]
            /\ hash_buf' = [hash_buf EXCEPT ![h] = proc_bufnum]
       ELSE /\ worker' = [worker EXCEPT ![h] = "final"]
            /\ UNCHANGED hash_buf
    /\ UNCHANGED <<readerVars, hash_ctx, hash_str, buffer, io, thread_ready, ErrorStatus>>

\* WAIT_TIME without data: the worker returns 1.
WorkerTimeout(h) ==
    /\ "worker_timeout" \in Faults
    /\ worker[h] = "wait" /\ h \notin data_ready
    /\ worker' = [worker EXCEPT ![h] = "exit1"]
    /\ UNCHANGED <<readerVars, hash_buf, hash_ctx, hash_str, buffer, io, thread_ready,
                   data_ready, ErrorStatus>>

\* hash_write reads the buffer until this step.
HashWrite(h) ==
    /\ worker[h] = "hash"
    /\ hash_ctx' = [hash_ctx EXCEPT ![h] = Append(@, buffer[hash_buf[h]])]
    /\ SignalReady(h)
    /\ UNCHANGED <<readerVars, hash_buf, hash_str, buffer, io, data_ready, ErrorStatus>>

HashFinal(h) ==
    /\ worker[h] = "final"
    /\ hash_str' = [hash_str EXCEPT ![h] = hash_ctx[h]]
    /\ worker' = [worker EXCEPT ![h] = "exit0"]
    /\ UNCHANGED <<readerVars, hash_buf, hash_ctx, buffer, io, thread_ready, data_ready,
                   ErrorStatus>>

-----------------------------------------------------------------------------
(* The dialog's Cancel button, and the specification.                      *)

UserCancels ==
    /\ "cancel" \in Faults
    /\ pc \notin {"out", "done"}
    /\ ErrorStatus' = "cancelled"
    /\ UNCHANGED <<readerVars, workerVars, buffer, io, thread_ready, data_ready>>

Reader == \/ CreateHashThread \/ CreateHashThreadFails \/ OpenImage \/ OpenImageFails
          \/ LoopTest \/ AwaitRead \/ AwaitReadFails \/ AwaitThreads
          \/ AwaitThreadsTimeout \/ SignalThread \/ SignalThreadFails
          \/ AwaitFinal \/ AwaitFinalTimeout \/ CleanUp

Worker(h) == \/ WorkerStart(h) \/ WorkerWakes(h) \/ WorkerTimeout(h)
             \/ HashWrite(h) \/ HashFinal(h)

HashNext == \/ Reader
            \/ \E h \in Hashes : Worker(h)
            \/ ReadCompletes \/ ReadFails \/ UserCancels

HashSpec == HashInit /\ [][HashNext]_hash_vars

\* The steps of reader and workers that are neither a failure nor a timeout.
ReaderRuns == \/ CreateHashThread \/ OpenImage \/ LoopTest \/ AwaitRead \/ AwaitThreads
              \/ SignalThread \/ AwaitFinal \/ CleanUp
WorkerRuns(h) == WorkerStart(h) \/ WorkerWakes(h) \/ HashWrite(h) \/ HashFinal(h)

\* The scheduler runs every thread that can run and the disk answers.
HashFairness == /\ WF_hash_vars(ReaderRuns) /\ WF_hash_vars(ReadCompletes)
                /\ \A h \in Hashes : WF_hash_vars(WorkerRuns(h))

-----------------------------------------------------------------------------
(* Properties.                                                             *)

HashTypeOK ==
    /\ pc \in ReaderStates /\ i \in 0 .. NumHashes /\ r \in 0 .. 1
    /\ read_bufnum \in Buffers /\ proc_bufnum \in Buffers
    /\ offset \in 0 .. NumChunks
    /\ read_size \in [Buffers -> 0 .. 1]
    /\ buffer \in [Buffers -> 0 .. NumChunks]
    /\ io \in [buf : Buffers, status : {"idle", "pending", "ok", "failed"}]
    /\ thread_ready \subseteq Hashes /\ data_ready \subseteq Hashes
    /\ worker \in [Hashes -> WorkerStates]
    /\ hash_buf \in [Hashes -> Buffers]
    /\ hash_ctx \in [Hashes -> Seq(0 .. NumChunks)]
    /\ hash_str \in [Hashes -> Seq(0 .. NumChunks)]
    /\ ErrorStatus \in Errors

-----------------------------------------------------------------------------
(* The inductive invariant the theorems rest on.                           *)

\* Worker h has been told to process proc_bufnum and has not finished.
Consuming(h) == \/ worker[h] = "wait" /\ h \in data_ready
                \/ worker[h] \in {"hash", "final"}

\* Worker h waits, or is about to wait, for its next chunk.
Idle(h) == \/ worker[h] \in {"none", "init"}
           \/ worker[h] = "wait" /\ h \notin data_ready

\* The number of chunks worker h has been told to hash.
Told(h) == IF pc = "threads_wait" \/ (pc = "signal" /\ h >= i)
           THEN offset - read_size[Prev(read_bufnum)] ELSE offset

Looping == {"loop", "read_wait", "threads_wait", "signal"}

\* The events and the control points of the workers.
EventInv ==
    /\ \A h \in Hashes : h \in thread_ready => worker[h] \in {"wait", "exit1"} /\ h \notin data_ready
    /\ \A h \in Hashes : h \in data_ready => worker[h] \in {"wait", "exit1"}
    /\ pc = "create" => /\ data_ready = {} /\ offset = 0 /\ io.status = "idle"
                       /\ \A h \in Hashes : /\ worker[h] \in {"none", "init", "wait", "exit1"}
                                            /\ h >= i => worker[h] = "none"
    /\ pc = "signal" => /\ i < NumHashes
                       /\ \A h \in Hashes : h >= i =>
                            worker[h] \in {"wait", "exit1"} /\ h \notin thread_ready \cup data_ready

\* Where the buffers of the read and of the workers stand.
BufferInv ==
    /\ pc \in Looping \cup {"final_wait"} => io.buf = read_bufnum
    /\ pc = "signal" => proc_bufnum = Prev(read_bufnum)
    /\ pc \in {"read_wait", "threads_wait"} => read_size[proc_bufnum] = 1 \/ \A h \in Hashes : ~ Consuming(h)
    /\ \A h \in Hashes : Consuming(h) =>
         /\ io.buf # proc_bufnum
         /\ pc \in {"loop", "read_wait", "signal"} => proc_bufnum = Prev(read_bufnum)
         /\ pc = "threads_wait" => proc_bufnum = Succ(read_bufnum)

\* What the buffers hold.
DataInv ==
    /\ io.status = "ok" /\ offset < NumChunks => buffer[io.buf] = offset + 1
    /\ pc \in {"threads_wait", "signal"} =>
         LET p == Prev(read_bufnum) IN
         IF read_size[p] = 1 THEN buffer[p] = offset /\ offset > 0 ELSE offset = NumChunks

\* What each worker has hashed and is about to hash.
Progress(h) ==
    /\ pc \in Looping \cup {"create"} /\ Idle(h) => Len(hash_ctx[h]) = Told(h)
    /\ worker[h] = "hash" => hash_buf[h] = proc_bufnum /\ read_size[proc_bufnum] = 1
    /\ worker[h] = "final" => Len(hash_ctx[h]) = NumChunks
    /\ Consuming(h) /\ worker[h] # "final" =>
         IF read_size[proc_bufnum] = 1
         THEN /\ buffer[proc_bufnum] = Len(hash_ctx[h]) + 1
              /\ pc \in Looping => Told(h) = Len(hash_ctx[h]) + 1
         ELSE Len(hash_ctx[h]) = NumChunks

ProgressInv == \A h \in Hashes : Progress(h)

-----------------------------------------------------------------------------
\* The kernel never writes into a buffer that a worker is hashing: the read
\* HashThread launches before it waits for the workers goes elsewhere.
NoBufferRace ==
    io.status = "pending" => \A h \in Hashes : worker[h] = "hash" => hash_buf[h] # io.buf

\* Every worker has hashed a prefix of the image: no chunk is skipped, hashed
\* twice, out of order or while it was being overwritten.
HashedInOrder ==
    \A h \in Hashes : \A k \in 1 .. Len(hash_ctx[h]) : hash_ctx[h][k] = k

\* The digest string of an algorithm is the digest of the whole image or the
\* string from before, never the digest of a part of the image.
DigestNeverPartial ==
    \A h \in Hashes : hash_str[h] \in {HashStale, Digest}

\* The workers' digests and the result that shows them.
ResultInv ==
    /\ pc # "done" => \A h \in Hashes : worker[h] # "killed"
    /\ \A h \in Hashes : worker[h] = "exit0" => hash_str[h] = Digest
    /\ \A h \in Hashes : worker[h] = "exit1" => Faults \cap {"event", "worker_timeout"} # {}
    /\ r = 0 => pc \in {"out", "done"} /\ \A h \in Hashes : worker[h] \in {"exit0", "exit1"}

HashIInv == /\ HashTypeOK /\ EventInv /\ BufferInv /\ DataInv /\ ProgressInv
            /\ HashedInOrder /\ DigestNeverPartial /\ ResultInv

\* No worker publishes the digest of a part of the image, and what the dialog
\* shows for an algorithm is the digest of the image, unless its worker gave
\* up: the final wait takes any thread that ended for one that finished, so
\* that one shows the string of an earlier image.
ShownDigestsAreTheImages ==
    /\ DigestNeverPartial
    /\ pc = "done" /\ r = 0 => \A h \in Hashes : worker[h] = "exit1" \/ hash_str[h] = Digest

\* The comment of step 5: proc_bufnum is only updated once every worker has
\* signalled, so no worker still uses it or is about to.
ProcBufnumStable ==
    [][proc_bufnum' # proc_bufnum =>
         \A h \in Hashes : worker[h] \notin {"hash", "final"} /\ h \notin data_ready]_hash_vars

\* HashThread returns, whatever fails: given that its waits time out, it does
\* not wait for ever for a worker that is gone or for a dead disk.
HashThreadReturns == WF_hash_vars(Reader) => <>(pc = "done")

\* No wake-up is lost: unless the disk or a worker gives up, the events alone
\* carry reader and workers to the end, without any timeout.
NoWakeUpLost ==
    HashFairness => <>(pc = "done" \/ io.status = "failed" \/ \E h \in Hashes : worker[h] = "exit1")
=============================================================================
