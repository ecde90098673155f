--------------------------- MODULE ChunkCompressor ---------------------------
(***************************************************************************)
(* wimlib's chunk compressors: compress_parallel.c, whose worker threads    *)
(* take messages of several chunks from one queue and put them in another,  *)
(* and compress_serial.c.  One thread owns the compressor: it fills         *)
(* buffers, submits them and takes the results, through the operators that  *)
(* BlobWriter's actions use.  A queue's lock is held for a few assignments, *)
(* so putting and getting are atomic but for the wait.                      *)
(***************************************************************************)
EXTENDS Naturals, Sequences

CONSTANTS Threads,     \* the workers that started: two at least
          Shapes,      \* <<chunks_per_msg, msgs_per_thread>>, by the memory there is
          num_threads  \* how many Threads are

ASSUME ThreadAssumption == num_threads \in Nat \ {0, 1}
ASSUME ShapeAssumption == Shapes \subseteq (Nat \ {0}) \X (Nat \ {0})

NoMsg == 0

VARIABLES kind,             \* none, serial or parallel
          shape,
          msgs,             \* the messages' buffers
          available_msgs, submitted_msgs, next_submit_msg, next_ready_msg, next_chunk_idx,
          to_compress, compressed, terminating,
          thr,              \* of each worker: where it is and the message it has
          waiting           \* the owner sleeps until a message is compressed

owned == <<available_msgs, submitted_msgs, next_submit_msg, next_ready_msg, next_chunk_idx>>
queues == <<to_compress, compressed, terminating>>
ccvars == <<kind, shape, msgs, owned, queues, thr, waiting>>

Slots == 1 .. shape[1]
EmptyMsg(s) == [ub |-> [i \in 1 .. s[1] |-> <<>>], cb |-> [i \in 1 .. s[1] |-> <<>>],
                cs |-> [i \in 1 .. s[1] |-> 0], n |-> 0, complete |-> FALSE]
Idle == [t \in Threads |-> [pc |-> "exited", msg |-> NoMsg]]

NoCompressor(k) ==
    /\ kind' = k /\ shape' = <<1, 1>> /\ msgs' = <<EmptyMsg(<<1, 1>>)>>
    /\ available_msgs' = <<>> /\ submitted_msgs' = <<>>
    /\ next_submit_msg' = NoMsg /\ next_ready_msg' = NoMsg /\ next_chunk_idx' = 1
    /\ to_compress' = <<>> /\ compressed' = <<>> /\ terminating' = FALSE
    /\ thr' = Idle /\ waiting' = FALSE

CCInit ==
    /\ kind = "none" /\ shape = <<1, 1>> /\ msgs = <<EmptyMsg(<<1, 1>>)>>
    /\ available_msgs = <<>> /\ submitted_msgs = <<>>
    /\ next_submit_msg = NoMsg /\ next_ready_msg = NoMsg /\ next_chunk_idx = 1
    /\ to_compress = <<>> /\ compressed = <<>> /\ terminating = FALSE
    /\ thr = Idle /\ waiting = FALSE

new_serial_chunk_compressor == NoCompressor("serial")

\* Every message is available; the workers wait for the first one.
new_parallel_chunk_compressor(s) ==
    /\ kind' = "parallel" /\ shape' = s
    /\ msgs' = [m \in 1 .. num_threads * s[2] |-> EmptyMsg(s)]
    /\ available_msgs' = [m \in 1 .. num_threads * s[2] |-> m] /\ submitted_msgs' = <<>>
    /\ next_submit_msg' = NoMsg /\ next_ready_msg' = NoMsg /\ next_chunk_idx' = 1
    /\ to_compress' = <<>> /\ compressed' = <<>> /\ terminating' = FALSE
    /\ thr' = [t \in Threads |-> [pc |-> "get", msg |-> NoMsg]] /\ waiting' = FALSE

-----------------------------------------------------------------------------
\* What wimlib_compress may return for a chunk: 0 when it does not shrink.
Csizes(chunk) == {0, 1} \cap 0 .. Len(chunk) - 1

\* message_queue_put on chunks_to_compress_queue: one sleeper, if any, wakes.
WakeOne(th) ==
    IF \E t \in Threads : th[t].pc = "asleep"
    THEN \E t \in Threads : th[t].pc = "asleep" /\ thr' = [th EXCEPT ![t].pc = "get"]
    ELSE thr' = th

-----------------------------------------------------------------------------
\* compressor_thread_proc: message_queue_get, which sleeps in condvar_wait
\* while the queue is empty, ...
WorkerGets(t) ==
    /\ thr[t].pc = "get"
    /\ CASE terminating -> thr' = [thr EXCEPT ![t].pc = "exited"] /\ UNCHANGED to_compress
         [] ~terminating /\ to_compress = <<>> ->
               thr' = [thr EXCEPT ![t].pc = "asleep"] /\ UNCHANGED to_compress
         [] OTHER -> /\ thr' = [thr EXCEPT ![t] = [pc |-> "compress", msg |-> Head(to_compress)]]
                     /\ to_compress' = Tail(to_compress)
    /\ UNCHANGED <<kind, shape, msgs, owned, compressed, terminating, waiting>>

\* ... compress_chunks ...
WorkerCompresses(t) ==
    /\ thr[t].pc = "compress"
    /\ LET m == thr[t].msg IN
       \E cs \in [Slots -> {0, 1}] :
          /\ \A i \in Slots : cs[i] \in IF i <= msgs[m].n THEN Csizes(msgs[m].ub[i]) ELSE {0}
          /\ msgs' = [msgs EXCEPT ![m].cs = cs, ![m].cb = [i \in Slots |->
                                     IF cs[i] # 0 THEN msgs[m].ub[i] ELSE <<>>]]
    /\ thr' = [thr EXCEPT ![t].pc = "put"]
    /\ UNCHANGED <<kind, shape, owned, queues, waiting>>

\* ... and message_queue_put on compressed_chunks_queue, which wakes the owner.
WorkerPuts(t) ==
    /\ thr[t].pc = "put"
    /\ compressed' = Append(compressed, thr[t].msg) /\ waiting' = FALSE
    /\ thr' = [thr EXCEPT ![t] = [pc |-> "get", msg |-> NoMsg]]
    /\ UNCHANGED <<kind, shape, msgs, owned, to_compress, terminating>>

Worker(t) == WorkerGets(t) \/ WorkerCompresses(t) \/ WorkerPuts(t)

-----------------------------------------------------------------------------
(***************************************************************************)
(* The owner's side                                                        *)
(***************************************************************************)
\* submit_compression_msg, for a message whose buffers are ms
submit_compression_msg(ms) ==
    /\ msgs' = [ms EXCEPT ![next_submit_msg].complete = FALSE]
    /\ submitted_msgs' = Append(submitted_msgs, next_submit_msg)
    /\ to_compress' = Append(to_compress, next_submit_msg)
    /\ next_submit_msg' = NoMsg
    /\ WakeOne(thr)

\* get_chunk_buffer: the buffer to fill is in the message being prepared, in
\* the next available one, or (serial) free once its result was taken.
NoBuffer == IF kind = "serial" THEN next_ready_msg # NoMsg
            ELSE next_submit_msg = NoMsg /\ available_msgs = <<>>

get_chunk_buffer ==
    /\ ~NoBuffer
    /\ CASE kind = "serial" -> next_submit_msg' = 1 /\ UNCHANGED <<msgs, available_msgs>>
         [] kind = "parallel" /\ next_submit_msg # NoMsg -> UNCHANGED <<msgs, available_msgs, next_submit_msg>>
         [] OTHER -> /\ next_submit_msg' = Head(available_msgs)
                     /\ available_msgs' = Tail(available_msgs)
                     /\ msgs' = [msgs EXCEPT ![Head(available_msgs)].n = 0]
    /\ UNCHANGED <<kind, shape, submitted_msgs, next_ready_msg, next_chunk_idx, queues, thr, waiting>>

\* The buffer the owner is filling
Slot == IF kind = "serial" THEN 1 ELSE msgs[next_submit_msg].n + 1

\* signal_chunk_filled, once the buffer holds the chunk: serially it is
\* compressed at once, else its message is submitted when it is full.
signal_chunk_filled(ms) ==
    IF kind = "serial"
    THEN /\ \E cs \in Csizes(ms[1].ub[1]) :
               msgs' = [ms EXCEPT ![1].cs[1] = cs, ![1].cb[1] = IF cs # 0 THEN ms[1].ub[1] ELSE <<>>,
                                  ![1].n = 1]
         /\ next_ready_msg' = 1 /\ next_submit_msg' = NoMsg
         /\ UNCHANGED <<submitted_msgs, to_compress, thr>>
    ELSE LET filled == [ms EXCEPT ![next_submit_msg].n = @ + 1] IN
         /\ UNCHANGED next_ready_msg
         /\ IF filled[next_submit_msg].n = shape[1]
            THEN submit_compression_msg(filled)
            ELSE msgs' = filled /\ UNCHANGED <<submitted_msgs, to_compress, next_submit_msg, thr>>

\* get_compression_result, in steps: a message that is not full is submitted
\* first, ...
SubmitRest ==
    /\ kind = "parallel" /\ next_submit_msg # NoMsg
    /\ submit_compression_msg(msgs)
    /\ UNCHANGED <<kind, shape, available_msgs, next_ready_msg, next_chunk_idx, compressed,
                   terminating, waiting>>

\* ... messages are received, in the order the workers finish, until the one
\* submitted first is there (asleep while none is), ...
Receiving == kind = "parallel" /\ next_submit_msg = NoMsg /\ next_ready_msg = NoMsg /\ submitted_msgs # <<>>

ReceiveMessage ==
    /\ Receiving /\ ~msgs[Head(submitted_msgs)].complete /\ ~waiting
    /\ IF compressed = <<>>
       THEN waiting' = TRUE /\ UNCHANGED <<msgs, compressed>>
       ELSE /\ msgs' = [msgs EXCEPT ![Head(compressed)].complete = TRUE]
            /\ compressed' = Tail(compressed) /\ UNCHANGED waiting
    /\ UNCHANGED <<kind, shape, owned, to_compress, terminating, thr>>

\* Mutant: the index of the chunk is not set back.
FirstIsReady_noreset ==
    /\ Receiving /\ msgs[Head(submitted_msgs)].complete
    /\ next_ready_msg' = Head(submitted_msgs)
    /\ UNCHANGED <<kind, shape, msgs, available_msgs, submitted_msgs, next_submit_msg, next_chunk_idx, queues, thr, waiting>>

\* Mutant: any message that is complete is taken, not the first.
FirstIsReady_any ==
    /\ Receiving
    /\ \E k \in 1 .. Len(submitted_msgs) :
          /\ msgs[submitted_msgs[k]].complete /\ next_ready_msg' = submitted_msgs[k]
          /\ submitted_msgs' = <<submitted_msgs[k]>> \o SubSeq(submitted_msgs, 1, k - 1)
                               \o SubSeq(submitted_msgs, k + 1, Len(submitted_msgs))
    /\ next_chunk_idx' = 1
    /\ UNCHANGED <<kind, shape, msgs, available_msgs, next_submit_msg, queues, thr, waiting>>

\* ... that message is the first one submitted, ...
FirstIsReady ==
    /\ Receiving /\ msgs[Head(submitted_msgs)].complete
    /\ next_ready_msg' = Head(submitted_msgs) /\ next_chunk_idx' = 1
    /\ UNCHANGED <<kind, shape, msgs, available_msgs, submitted_msgs, next_submit_msg, queues, thr, waiting>>

\* ... there is nothing to receive, ...
NoResult == IF kind = "serial" THEN next_ready_msg = NoMsg
            ELSE next_submit_msg = NoMsg /\ next_ready_msg = NoMsg /\ submitted_msgs = <<>>

\* ... or the next chunk of the ready message is the result.
Result == LET m == msgs[next_ready_msg]
              i == next_chunk_idx
          IN  IF m.cs[i] # 0 THEN [data |-> m.cb[i], csize |-> m.cs[i], usize |-> Len(m.ub[i])]
              ELSE [data |-> m.ub[i], csize |-> Len(m.ub[i]), usize |-> Len(m.ub[i])]

\* The caller takes it; after its last chunk the message is available again.
TakeResult ==
    /\ next_ready_msg # NoMsg /\ next_submit_msg = NoMsg
    /\ IF next_chunk_idx = msgs[next_ready_msg].n
       THEN /\ next_ready_msg' = NoMsg
            /\ IF kind = "parallel"
               THEN /\ submitted_msgs' = Tail(submitted_msgs)
                    /\ available_msgs' = Append(available_msgs, next_ready_msg)
                    /\ next_chunk_idx' = next_chunk_idx + 1
               ELSE UNCHANGED <<submitted_msgs, available_msgs, next_chunk_idx>>
       ELSE next_chunk_idx' = next_chunk_idx + 1 /\ UNCHANGED <<next_ready_msg, submitted_msgs, available_msgs>>
    /\ UNCHANGED <<kind, shape, msgs, next_submit_msg, queues, thr, waiting>>

\* Mutant: one sleeper is woken.
Terminate_one ==
    /\ terminating' = TRUE
    /\ WakeOne(thr)
    /\ UNCHANGED <<kind, shape, msgs, owned, to_compress, compressed, waiting>>

\* parallel_chunk_compressor_destroy: message_queue_terminate wakes every
\* sleeper, ...
Terminate ==
    /\ terminating' = TRUE
    /\ thr' = [t \in Threads |-> IF thr[t].pc = "asleep" THEN [thr[t] EXCEPT !.pc = "get"] ELSE thr[t]]
    /\ UNCHANGED <<kind, shape, msgs, owned, to_compress, compressed, waiting>>

\* ... and all threads are joined before the buffers are freed.
Joined == \A t \in Threads : thr[t].pc = "exited"
destroy == Joined /\ NoCompressor("none")

-----------------------------------------------------------------------------
(***************************************************************************)
(* What the compressor holds, as its properties see it                     *)
(***************************************************************************)
\* The messages that were submitted or are being filled, in their order
inOrder == IF next_submit_msg # NoMsg THEN Append(submitted_msgs, next_submit_msg) ELSE submitted_msgs

\* The chunks of the first one that have come back
taken == IF next_ready_msg # NoMsg THEN next_chunk_idx - 1 ELSE 0

\* The chunks handed over that have not come back, in their order.  All
\* messages but the last are full, so a division tells where the k-th chunk is.
pendingCount == IF inOrder = <<>> THEN 0
                ELSE (Len(inOrder) - 1) * shape[1] + msgs[inOrder[Len(inOrder)]].n - taken
Chunk(k) == msgs[inOrder[(k \div shape[1]) + 1]].ub[(k % shape[1]) + 1]
pendingChunks == IF kind = "parallel" THEN [i \in 1 .. pendingCount |-> Chunk(taken + i - 1)]
                 ELSE IF kind = "serial" /\ next_ready_msg # NoMsg THEN <<msgs[1].ub[1]>>
                 ELSE <<>>

\* The places where a message of the parallel compressor is
Owners(m) ==
    {<<"available", k>> : k \in {k \in 1 .. Len(available_msgs) : available_msgs[k] = m}}
    \cup {<<"filled", 1>> : x \in {next_submit_msg} \cap {m}}
    \cup {<<"queued", k>> : k \in {k \in 1 .. Len(to_compress) : to_compress[k] = m}}
    \cup {<<"worker", t>> : t \in {t \in Threads : thr[t].msg = m}}
    \cup {<<"compressed", k>> : k \in {k \in 1 .. Len(compressed) : compressed[k] = m}}
    \cup {<<"received", k>> : k \in {k \in 1 .. Len(submitted_msgs) :
                                        submitted_msgs[k] = m /\ msgs[m].complete}}

\* A message of the parallel compressor is always in exactly one place, so the
\* owner never fills a buffer that a worker compresses or that holds a result
\* which has not come back, and none is ever lost.  (With its last result a
\* message is available again before that result is written; write_chunk is
\* the next thing the owner does.)
OneOwner == kind = "parallel" => \A m \in DOMAIN msgs : \E x \in Owners(m) : Owners(m) = {x}
=============================================================================
