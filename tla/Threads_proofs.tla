-------------------------- MODULE Threads_proofs ---------------------------
(***************************************************************************)
(* Proofs about two protocols of helper threads: the reader and the        *)
(* workers of hash.c, for every number of workers and every image length,  *)
(* and the search thread of process.c with its callers, for any number of  *)
(* processes, table size and bounds.                                       *)
(***************************************************************************)
EXTENDS HashPipeline, ProcessSearch, FiniteSetTheorems, TLAPS

-----------------------------------------------------------------------------
(***************************************************************************)
(* hash.c: the buffers never race, digests are of whole images             *)
(***************************************************************************)
\* A sequence of chunks is a function of their numbers.
LEMMA LengthOf ==
    ASSUME NEW S, NEW s \in Seq(S)
    PROVE  Len(s) \in Nat /\ s \in [1 .. Len(s) -> S]
  OBVIOUS

\* Hashing one more chunk
LEMMA Appended ==
    ASSUME NEW S, NEW s \in Seq(S), NEW e \in S
    PROVE  /\ Len(Append(s, e)) = Len(s) + 1 /\ Append(s, e)[Len(s) + 1] = e
           /\ \A n \in 1 .. Len(s) : Append(s, e)[n] = s[n]
  OBVIOUS

\* The three buffers in a ring.
LEMMA Ring ==
    ASSUME NEW b \in Buffers
    PROVE  /\ Succ(b) \in Buffers /\ Prev(b) \in Buffers
           /\ Succ(b) # b /\ Prev(b) # b /\ Prev(b) # Succ(b)
           /\ Prev(Succ(b)) = b /\ Succ(Succ(b)) = Prev(b)
  BY DEF Buffers, Succ, Prev, NUM_BUFFERS

\* The first two buffers exist.
LEMMA FirstBuffers == 0 \in Buffers /\ 1 \in Buffers
  BY DEF Buffers, NUM_BUFFERS

\* A worker that signals thread_ready, or fails to, moves no other worker.
LEMMA SignalReadyFacts ==
    ASSUME NEW g \in Hashes, worker \in [Hashes -> WorkerStates], SignalReady(g)
    PROVE  /\ worker' \in [Hashes -> WorkerStates]
           /\ \A h \in Hashes : h # g => worker'[h] = worker[h]
           /\ \/ worker'[g] = "wait" /\ thread_ready' = thread_ready \cup {g}
              \/ worker'[g] = "exit1" /\ thread_ready' = thread_ready /\ "event" \in Faults
  <1>1. CASE /\ worker' = [worker EXCEPT ![g] = "wait"]
             /\ thread_ready' = thread_ready \cup {g}
    BY <1>1, Zenon DEF WorkerStates
  <1>2. CASE /\ worker' = [worker EXCEPT ![g] = "exit1"] /\ "event" \in Faults
             /\ thread_ready' = thread_ready
    BY <1>2, Zenon DEF WorkerStates
  <1> QED BY <1>1, <1>2, Zenon DEF SignalReady

\* The error paths of HashThread all go to its label out.
BailOut == \/ CreateHashThreadFails \/ OpenImageFails \/ AwaitReadFails
           \/ AwaitThreadsTimeout \/ SignalThreadFails \/ AwaitFinalTimeout

\* They leave everything but the control point and ErrorStatus alone.
LEMMA BailOutEffect ==
    BailOut => /\ pc' = "out" /\ pc \notin {"out", "done"}
               /\ ErrorStatus' \in {ErrorStatus, "open_failed", "read_fault"}
               /\ i' = i /\ read_bufnum' = read_bufnum /\ proc_bufnum' = proc_bufnum
               /\ read_size' = read_size /\ offset' = offset /\ r' = r
               /\ worker' = worker /\ hash_buf' = hash_buf /\ hash_ctx' = hash_ctx
               /\ hash_str' = hash_str /\ buffer' = buffer /\ io' = io
               /\ thread_ready' = thread_ready /\ data_ready' = data_ready
  BY Zenon DEF BailOut, CreateHashThreadFails, OpenImageFails, AwaitReadFails,
     AwaitThreadsTimeout, SignalThreadFails, AwaitFinalTimeout, workerVars

\* The initial state, whatever an earlier computation left behind.
LEMMA HashInitIInv == HashInit => HashIInv
  <1> SUFFICES ASSUME HashInit PROVE HashIInv
    OBVIOUS
  <1> USE NumHashesAssumption, NumChunksAssumption, FirstBuffers DEF HashInit
  <1>1. HashTypeOK
    BY DEF HashTypeOK, HashStale, Torn, Hashes, ReaderStates, WorkerStates, Errors
  <1>2. EventInv /\ BufferInv /\ DataInv
    BY Zenon DEF EventInv, BufferInv, DataInv, Consuming, Looping, Hashes
  <1>3. ProgressInv
    BY Zenon DEF ProgressInv, Progress, Consuming, Told, Looping, Hashes
  <1>4. HashedInOrder /\ DigestNeverPartial /\ ResultInv
    BY DEF HashedInOrder, DigestNeverPartial, ResultInv
  <1> QED BY <1>1, <1>2, <1>3, <1>4, Zenon DEF HashIInv

\* Types are preserved.
LEMMA TypeStep ==
    ASSUME HashTypeOK, EventInv, [HashNext]_hash_vars
    PROVE  HashTypeOK'
  <1> USE NumHashesAssumption, NumChunksAssumption
  <1>0. /\ worker \in [Hashes -> WorkerStates] /\ thread_ready \subseteq Hashes
        /\ io \in [buf : Buffers, status : {"idle", "pending", "ok", "failed"}]
        /\ buffer \in [Buffers -> 0 .. NumChunks] /\ hash_buf \in [Hashes -> Buffers]
        /\ hash_str \in [Hashes -> Seq(0 .. NumChunks)] /\ proc_bufnum \in Buffers
        /\ offset \in 0 .. NumChunks
    BY Zenon DEF HashTypeOK
  <1>1. CASE CreateHashThread
    <2>1. worker' \in [Hashes -> WorkerStates]
      BY <1>1, <1>0, Zenon DEF CreateHashThread, WorkerStates
    <2> QED BY <1>1, <2>1 DEF CreateHashThread, HashTypeOK
  <1>2. CASE OpenImage
    BY <1>2, Ring, FirstBuffers DEF OpenImage, ReadFileAsync, workerVars, HashTypeOK, ReaderStates, Torn
  <1>3. CASE LoopTest
    BY <1>3, <1>0, Zenon DEF LoopTest, workerVars, HashTypeOK, ReaderStates, WorkerStates, Errors
  <1>4. CASE AwaitRead
    BY <1>4, Ring, FirstBuffers DEF AwaitRead, ReadFileAsync, workerVars, HashTypeOK, ReaderStates, Torn
  <1>5. CASE AwaitThreads
    BY <1>5, Ring DEF AwaitThreads, workerVars, HashTypeOK, ReaderStates
  <1>6. CASE SignalThread
    BY <1>6 DEF SignalThread, workerVars, EventInv, HashTypeOK, ReaderStates, Hashes
  <1>7. CASE AwaitFinal
    BY <1>7, <1>0 DEF AwaitFinal, workerVars, HashTypeOK, ReaderStates, WorkerStates, Errors
  <1>8. CASE CleanUp
    <2>1. worker' \in [Hashes -> WorkerStates]
      BY <1>8, <1>0, Zenon DEF CleanUp, WorkerStates
    <2>2. io' \in [buf : Buffers, status : {"idle", "pending", "ok", "failed"}]
      BY <1>8, <1>0, Zenon DEF CleanUp
    <2> QED BY <1>8, <2>1, <2>2, Zenon DEF CleanUp, HashTypeOK, ReaderStates
  <1>9. CASE BailOut
    BY <1>9, <1>0, BailOutEffect DEF HashTypeOK, ReaderStates, WorkerStates, Errors
  <1>10. CASE ReadCompletes
    <2>1. io' \in [buf : Buffers, status : {"idle", "pending", "ok", "failed"}]
      BY <1>10, <1>0, Zenon DEF ReadCompletes
    <2>2. buffer' \in [Buffers -> 0 .. NumChunks]
      BY <1>10, <1>0 DEF ReadCompletes
    <2> QED BY <1>10, <2>1, <2>2, Zenon DEF ReadCompletes, workerVars, readerVars, HashTypeOK
  <1>11. CASE ReadFails
    <2>1. io' \in [buf : Buffers, status : {"idle", "pending", "ok", "failed"}]
      BY <1>11, <1>0, Zenon DEF ReadFails
    <2> QED BY <1>11, <2>1, Zenon DEF ReadFails, workerVars, readerVars, HashTypeOK
  <1>12. CASE UserCancels
    BY <1>12, <1>0, Zenon DEF UserCancels, workerVars, readerVars, HashTypeOK, ReaderStates,
       WorkerStates, Errors
  <1>13. ASSUME NEW g \in Hashes, Worker(g) PROVE HashTypeOK'
    <2>1. CASE WorkerStart(g)
      <3>1. worker' \in [Hashes -> WorkerStates] /\ thread_ready' \subseteq Hashes
        BY <2>1, <1>0, SignalReadyFacts, Zenon DEF WorkerStart
      <3> QED BY <2>1, <3>1, Zenon DEF WorkerStart, readerVars, HashTypeOK
    <2>2. CASE WorkerWakes(g)
      <3>1. worker' \in [Hashes -> WorkerStates]
        BY <2>2, <1>0, Zenon DEF WorkerWakes, WorkerStates
      <3>2. hash_buf' \in [Hashes -> Buffers]
        BY <2>2, <1>0, Zenon DEF WorkerWakes
      <3> QED BY <2>2, <3>1, <3>2, Zenon DEF WorkerWakes, readerVars, HashTypeOK
    <2>3. CASE WorkerTimeout(g)
      <3>1. worker' \in [Hashes -> WorkerStates]
        BY <2>3, <1>0, Zenon DEF WorkerTimeout, WorkerStates
      <3> QED BY <2>3, <3>1, Zenon DEF WorkerTimeout, readerVars, HashTypeOK
    <2>4. CASE HashWrite(g)
      <3>1. worker' \in [Hashes -> WorkerStates] /\ thread_ready' \subseteq Hashes
        BY <2>4, <1>0, SignalReadyFacts, Zenon DEF HashWrite
      <3>2. hash_ctx' \in [Hashes -> Seq(0 .. NumChunks)]
        <4>1. /\ hash_ctx \in [Hashes -> Seq(0 .. NumChunks)]
              /\ buffer[hash_buf[g]] \in 0 .. NumChunks
          BY Zenon DEF HashTypeOK
        <4>2. Append(hash_ctx[g], buffer[hash_buf[g]]) \in Seq(0 .. NumChunks)
          BY <4>1
        <4> QED BY <2>4, <4>1, <4>2, Zenon DEF HashWrite
      <3> QED BY <2>4, <3>1, <3>2, Zenon DEF HashWrite, readerVars, HashTypeOK
    <2>5. CASE HashFinal(g)
      <3>1. worker' \in [Hashes -> WorkerStates]
        BY <2>5, <1>0, Zenon DEF HashFinal, WorkerStates
      <3>2. hash_str' \in [Hashes -> Seq(0 .. NumChunks)]
        <4>1. hash_ctx[g] \in Seq(0 .. NumChunks)
          BY Zenon DEF HashTypeOK
        <4> QED BY <2>5, <1>0, <4>1, Zenon DEF HashFinal
      <3> QED BY <2>5, <3>1, <3>2, Zenon DEF HashFinal, readerVars, HashTypeOK
    <2> QED BY <1>13, <2>1, <2>2, <2>3, <2>4, <2>5, Zenon DEF Worker
  <1>14. CASE UNCHANGED hash_vars
    BY <1>14, Zenon DEF hash_vars, readerVars, workerVars, HashTypeOK, ReaderStates, WorkerStates, Errors
  <1> QED BY <1>1, <1>2, <1>3, <1>4, <1>5, <1>6, <1>7, <1>8, <1>9, <1>10, <1>11, <1>12, Zenon,
         <1>13, <1>14 DEF HashNext, Reader, BailOut

\* The discipline of the events is preserved.
LEMMA EventStep ==
    ASSUME HashTypeOK, HashTypeOK', EventInv, [HashNext]_hash_vars
    PROVE  EventInv'
  <1> USE NumHashesAssumption
  <1>0. worker \in [Hashes -> WorkerStates] /\ thread_ready \subseteq Hashes /\ i \in Nat
    BY SMTT(30) DEF HashTypeOK
  <1>1. CASE CreateHashThread
    <2>1. i \in Hashes /\ worker[i] = "none"
      BY <1>1, <1>0 DEF CreateHashThread, EventInv, Hashes
    <2>2. i \notin thread_ready /\ i \notin data_ready
      BY <2>1, Zenon DEF EventInv
    <2>3. worker'[i] = "init" /\ \A h \in Hashes : h # i => worker'[h] = worker[h]
      BY <1>1, <1>0, <2>1, Zenon DEF CreateHashThread
    <2>4. \A h \in Hashes : h >= i' => h >= i /\ h # i
      BY <1>1, <1>0 DEF CreateHashThread, Hashes
    <2> QED BY <1>1, <2>1, <2>2, <2>3, <2>4, Zenon DEF CreateHashThread, EventInv
  <1>2. CASE OpenImage
    BY <1>2, <1>0, Zenon DEF OpenImage, ReadFileAsync, workerVars, EventInv
  <1>3. CASE LoopTest
    BY <1>3, <1>0, Zenon DEF LoopTest, workerVars, EventInv
  <1>4. CASE AwaitRead
    BY <1>4, <1>0, Zenon DEF AwaitRead, ReadFileAsync, workerVars, EventInv
  <1>5. CASE AwaitThreads
    BY <1>5, <1>0 DEF AwaitThreads, workerVars, EventInv, Hashes
  <1>6. CASE SignalThread
    <2>1. i < NumHashes /\ i \in Hashes
      BY <1>6, <1>0 DEF SignalThread, EventInv, Hashes
    <2>2. \A h \in Hashes : h >= i' => h >= i /\ h # i
      BY <1>6, <1>0 DEF SignalThread, Hashes
    <2>3. pc' = "signal" => i' < NumHashes
      BY <1>6, <1>0, <2>1 DEF SignalThread
    <2>4. worker[i] \in {"wait", "exit1"} /\ i \notin thread_ready
      BY <1>6, <1>0, <2>1 DEF SignalThread, EventInv
    <2> QED BY <1>6, <2>2, <2>3, <2>4, Zenon DEF SignalThread, workerVars, EventInv
  <1>7. CASE AwaitFinal
    BY <1>7, <1>0, Zenon DEF AwaitFinal, workerVars, EventInv
  <1>8. CASE CleanUp
    BY <1>8, <1>0, Zenon DEF CleanUp, EventInv
  <1>9. CASE BailOut
    BY <1>9, <1>0, BailOutEffect, Zenon DEF EventInv
  <1>10. CASE ReadCompletes
    BY <1>10, <1>0, Zenon DEF ReadCompletes, workerVars, readerVars, EventInv
  <1>11. CASE ReadFails
    BY <1>11, <1>0, Zenon DEF ReadFails, workerVars, readerVars, EventInv
  <1>12. CASE UserCancels
    BY <1>12, <1>0, Zenon DEF UserCancels, workerVars, readerVars, EventInv
  <1>13. ASSUME NEW g \in Hashes, Worker(g) PROVE EventInv'
    <2>1. CASE WorkerStart(g)
      <3>1. g \notin thread_ready /\ g \notin data_ready /\ (pc \in {"create", "signal"} => ~ g >= i)
        BY <2>1, Zenon DEF WorkerStart, EventInv
      <3>2. /\ \A h \in Hashes : h # g => worker'[h] = worker[h]
            /\ worker'[g] \in {"wait", "exit1"} /\ thread_ready' \subseteq thread_ready \cup {g}
        BY <2>1, <1>0, SignalReadyFacts, Zenon DEF WorkerStart
      <3> QED BY <2>1, <3>1, <3>2, Zenon DEF WorkerStart, readerVars, EventInv
    <2>2. CASE WorkerWakes(g)
      <3>1. pc # "create" /\ (pc = "signal" => ~ g >= i) /\ g \notin thread_ready
        BY <2>2, Zenon DEF WorkerWakes, EventInv
      <3>2. \A h \in Hashes : h # g => worker'[h] = worker[h]
        BY <2>2, <1>0, Zenon DEF WorkerWakes
      <3> QED BY <2>2, <3>1, <3>2, Zenon DEF WorkerWakes, readerVars, EventInv
    <2>3. CASE WorkerTimeout(g)
      BY <2>3, <1>0, Zenon DEF WorkerTimeout, readerVars, EventInv
    <2>4. CASE HashWrite(g)
      <3>1. g \notin thread_ready /\ g \notin data_ready /\ (pc \in {"create", "signal"} => ~ g >= i)
        BY <2>4, Zenon DEF HashWrite, EventInv
      <3>2. /\ \A h \in Hashes : h # g => worker'[h] = worker[h]
            /\ worker'[g] \in {"wait", "exit1"} /\ thread_ready' \subseteq thread_ready \cup {g}
        BY <2>4, <1>0, SignalReadyFacts, Zenon DEF HashWrite
      <3> QED BY <2>4, <3>1, <3>2, Zenon DEF HashWrite, readerVars, EventInv
    <2>5. CASE HashFinal(g)
      <3>1. g \notin thread_ready /\ g \notin data_ready /\ (pc \in {"create", "signal"} => ~ g >= i)
        BY <2>5, Zenon DEF HashFinal, EventInv
      <3>2. \A h \in Hashes : h # g => worker'[h] = worker[h]
        BY <2>5, <1>0, Zenon DEF HashFinal
      <3>3. pc # "create"
        BY <2>5, Zenon DEF HashFinal, EventInv
      <3> QED BY <2>5, <3>1, <3>2, <3>3, Zenon DEF HashFinal, readerVars, EventInv
    <2> QED BY <1>13, <2>1, <2>2, <2>3, <2>4, <2>5, Zenon DEF Worker
  <1>14. CASE UNCHANGED hash_vars
    BY <1>14, Zenon DEF hash_vars, readerVars, workerVars, EventInv
  <1> QED BY <1>1, <1>2, <1>3, <1>4, <1>5, <1>6, <1>7, <1>8, <1>9, <1>10, <1>11, <1>12, Zenon,
         <1>13, <1>14 DEF HashNext, Reader, BailOut

\* The positions of the buffers are preserved.
LEMMA BufferStep ==
    ASSUME HashTypeOK, HashTypeOK', EventInv, BufferInv, [HashNext]_hash_vars
    PROVE  BufferInv'
  <1> USE Ring, FirstBuffers
  <1>0. /\ worker \in [Hashes -> WorkerStates] /\ read_bufnum \in Buffers
        /\ proc_bufnum \in Buffers /\ read_size \in [Buffers -> 0 .. 1]
        /\ io \in [buf : Buffers, status : {"idle", "pending", "ok", "failed"}]
    BY Zenon DEF HashTypeOK
  <1>1. CASE CreateHashThread
    BY <1>1, <1>0, Zenon DEF CreateHashThread, BufferInv, Consuming, Looping
  <1>2. CASE OpenImage
    <2>1. \A h \in Hashes : ~ Consuming(h)'
      BY <1>2, Zenon DEF OpenImage, workerVars, EventInv, Consuming
    <2> QED BY <1>2, <2>1, Zenon DEF OpenImage, ReadFileAsync, workerVars, BufferInv, Looping
  <1>3. CASE LoopTest
    BY <1>3, <1>0 DEF LoopTest, workerVars, BufferInv, Consuming, Looping
  <1>4. CASE AwaitRead
    BY <1>4, <1>0, Zenon DEF AwaitRead, ReadFileAsync, workerVars, BufferInv, Consuming, Looping
  <1>5. CASE AwaitThreads
    <2>1. \A h \in Hashes : ~ Consuming(h)'
      BY <1>5, Zenon DEF AwaitThreads, workerVars, EventInv, Consuming
    <2> QED BY <1>5, <1>0, <2>1, Zenon DEF AwaitThreads, workerVars, BufferInv, Looping
  <1>6. CASE SignalThread
    BY <1>6, <1>0, Zenon DEF SignalThread, workerVars, BufferInv, Consuming, Looping
  <1>7. CASE AwaitFinal
    BY <1>7, <1>0, Zenon DEF AwaitFinal, workerVars, BufferInv, Consuming, Looping
  <1>8. CASE CleanUp
    BY <1>8, <1>0, Zenon DEF CleanUp, BufferInv, Consuming, Looping
  <1>9. CASE BailOut
    BY <1>9, <1>0, BailOutEffect, Zenon DEF BufferInv, Consuming, Looping
  <1>10. CASE ReadCompletes
    BY <1>10, <1>0, Zenon DEF ReadCompletes, workerVars, readerVars, BufferInv, Consuming, Looping
  <1>11. CASE ReadFails
    BY <1>11, <1>0, Zenon DEF ReadFails, workerVars, readerVars, BufferInv, Consuming, Looping
  <1>12. CASE UserCancels
    BY <1>12, <1>0, Zenon DEF UserCancels, workerVars, readerVars, BufferInv, Consuming, Looping
  <1>13. ASSUME NEW g \in Hashes, Worker(g) PROVE BufferInv'
    <2>1. CASE WorkerStart(g)
      <3>1. g \notin data_ready
        BY <2>1, Zenon DEF WorkerStart, EventInv
      <3>2. \A h \in Hashes : Consuming(h)' => Consuming(h)
        BY <2>1, <1>0, <3>1, SignalReadyFacts, Zenon DEF WorkerStart, Consuming
      <3> QED BY <2>1, <3>2, Zenon DEF WorkerStart, readerVars, BufferInv
    <2>2. CASE WorkerWakes(g)
      BY <2>2, <1>0, Zenon DEF WorkerWakes, readerVars, BufferInv, Consuming, Looping
    <2>3. CASE WorkerTimeout(g)
      BY <2>3, <1>0, Zenon DEF WorkerTimeout, readerVars, BufferInv, Consuming, Looping
    <2>4. CASE HashWrite(g)
      BY <2>4, <1>0, SignalReadyFacts, Zenon DEF HashWrite, readerVars, BufferInv, Consuming,
         Looping
    <2>5. CASE HashFinal(g)
      BY <2>5, <1>0, Zenon DEF HashFinal, readerVars, BufferInv, Consuming, Looping
    <2> QED BY <1>13, <2>1, <2>2, <2>3, <2>4, <2>5, Zenon DEF Worker
  <1>14. CASE UNCHANGED hash_vars
    BY <1>14, Zenon DEF hash_vars, readerVars, workerVars, BufferInv, Consuming, Looping
  <1> QED BY <1>1, <1>2, <1>3, <1>4, <1>5, <1>6, <1>7, <1>8, <1>9, <1>10, <1>11, <1>12,
         <1>13, <1>14 DEF HashNext, Reader, BailOut

\* The contents of the buffers are preserved.
LEMMA DataStep ==
    ASSUME HashTypeOK, HashTypeOK', BufferInv, DataInv, [HashNext]_hash_vars
    PROVE  DataInv'
  <1> USE Ring, NumChunksAssumption
  <1>0. /\ read_bufnum \in Buffers /\ read_size \in [Buffers -> 0 .. 1]
        /\ offset \in 0 .. NumChunks /\ buffer \in [Buffers -> 0 .. NumChunks]
        /\ io \in [buf : Buffers, status : {"idle", "pending", "ok", "failed"}]
    BY Zenon DEF HashTypeOK
  <1>1. CASE CreateHashThread
    BY <1>1, <1>0, Zenon DEF CreateHashThread, DataInv
  <1>2. CASE OpenImage
    BY <1>2, <1>0, Zenon DEF OpenImage, ReadFileAsync, workerVars, DataInv
  <1>3. CASE LoopTest
    BY <1>3, <1>0, Zenon DEF LoopTest, workerVars, DataInv
  <1>4. CASE AwaitRead
    BY <1>4, <1>0 DEF AwaitRead, ReadFileAsync, DataInv, BufferInv, Looping
  <1>5. CASE AwaitThreads
    BY <1>5, <1>0, Zenon DEF AwaitThreads, workerVars, DataInv
  <1>6. CASE SignalThread
    BY <1>6, <1>0, Zenon DEF SignalThread, workerVars, DataInv
  <1>7. CASE AwaitFinal
    BY <1>7, <1>0, Zenon DEF AwaitFinal, workerVars, DataInv
  <1>8. CASE CleanUp
    BY <1>8, <1>0, Zenon DEF CleanUp, DataInv
  <1>9. CASE BailOut
    BY <1>9, <1>0, BailOutEffect, Zenon DEF DataInv
  <1>10. CASE ReadCompletes
    BY <1>10, <1>0, Zenon DEF ReadCompletes, readerVars, DataInv, BufferInv, Looping
  <1>11. CASE ReadFails
    BY <1>11, <1>0, Zenon DEF ReadFails, workerVars, readerVars, DataInv
  <1>12. CASE UserCancels
    BY <1>12, <1>0, Zenon DEF UserCancels, workerVars, readerVars, DataInv
  <1>13. ASSUME NEW g \in Hashes, Worker(g) PROVE DataInv'
    <2>1. CASE WorkerStart(g)
      BY <2>1, <1>0, SignalReadyFacts, Zenon DEF WorkerStart, readerVars, DataInv
    <2>2. CASE WorkerWakes(g)
      BY <2>2, <1>0, Zenon DEF WorkerWakes, readerVars, DataInv
    <2>3. CASE WorkerTimeout(g)
      BY <2>3, <1>0, Zenon DEF WorkerTimeout, readerVars, DataInv
    <2>4. CASE HashWrite(g)
      BY <2>4, <1>0, SignalReadyFacts, Zenon DEF HashWrite, readerVars, DataInv
    <2>5. CASE HashFinal(g)
      BY <2>5, <1>0, Zenon DEF HashFinal, readerVars, DataInv
    <2> QED BY <1>13, <2>1, <2>2, <2>3, <2>4, <2>5, Zenon DEF Worker
  <1>14. CASE UNCHANGED hash_vars
    BY <1>14, Zenon DEF hash_vars, readerVars, workerVars, DataInv
  <1> QED BY <1>1, <1>2, <1>3, <1>4, <1>5, <1>6, <1>7, <1>8, <1>9, <1>10, <1>11, <1>12, Zenon,
         <1>13, <1>14 DEF HashNext, Reader, BailOut

\* The results and what they stand for are preserved.
LEMMA ResultStep ==
    ASSUME HashTypeOK, ProgressInv, HashedInOrder, DigestNeverPartial, ResultInv, [HashNext]_hash_vars
    PROVE  (DigestNeverPartial /\ ResultInv)'
  <1>0. /\ worker \in [Hashes -> WorkerStates]
        /\ hash_str \in [Hashes -> Seq(0 .. NumChunks)]
    BY Zenon DEF HashTypeOK
  <1>1. CASE CreateHashThread
    BY <1>1, <1>0, Zenon DEF CreateHashThread, DigestNeverPartial, ResultInv, Exited
  <1>2. CASE OpenImage
    BY <1>2, <1>0, Zenon DEF OpenImage, ReadFileAsync, workerVars, DigestNeverPartial, ResultInv,
       Exited
  <1>3. CASE LoopTest
    BY <1>3, <1>0, Zenon DEF LoopTest, workerVars, DigestNeverPartial, ResultInv, Exited
  <1>4. CASE AwaitRead
    BY <1>4, <1>0, Zenon DEF AwaitRead, ReadFileAsync, workerVars, DigestNeverPartial, ResultInv,
       Exited
  <1>5. CASE AwaitThreads
    BY <1>5, <1>0, Zenon DEF AwaitThreads, workerVars, DigestNeverPartial, ResultInv, Exited
  <1>6. CASE SignalThread
    BY <1>6, <1>0, Zenon DEF SignalThread, workerVars, DigestNeverPartial, ResultInv, Exited
  <1>7. CASE AwaitFinal
    BY <1>7, <1>0, Zenon DEF AwaitFinal, workerVars, DigestNeverPartial, ResultInv, Exited
  <1>8. CASE CleanUp
    BY <1>8, <1>0, Zenon DEF CleanUp, DigestNeverPartial, ResultInv, Exited
  <1>9. CASE BailOut
    BY <1>9, <1>0, BailOutEffect, Zenon DEF DigestNeverPartial, ResultInv, Exited
  <1>10. CASE ReadCompletes
    BY <1>10, <1>0, Zenon DEF ReadCompletes, workerVars, readerVars, DigestNeverPartial, ResultInv,
       Exited
  <1>11. CASE ReadFails
    BY <1>11, <1>0, Zenon DEF ReadFails, workerVars, readerVars, DigestNeverPartial, ResultInv,
       Exited
  <1>12. CASE UserCancels
    BY <1>12, <1>0, Zenon DEF UserCancels, workerVars, readerVars, DigestNeverPartial, ResultInv,
       Exited
  <1>13. ASSUME NEW g \in Hashes, Worker(g) PROVE (DigestNeverPartial /\ ResultInv)'
    <2>1. CASE WorkerStart(g)
      <3>1. worker[g] = "init" /\ UNCHANGED <<pc, r, hash_str>>
        BY <2>1, Zenon DEF WorkerStart, readerVars
      <3>2. SignalReady(g)
        BY <2>1, Zenon DEF WorkerStart
      <3> QED BY <1>0, <3>1, <3>2, SignalReadyFacts, Zenon DEF DigestNeverPartial, ResultInv
    <2>2. CASE WorkerWakes(g)
      <3>1. worker[g] = "wait" /\ worker'[g] \in {"hash", "final"}
        BY <2>2, <1>0, Zenon DEF WorkerWakes
      <3>2. \A h \in Hashes : h # g => worker'[h] = worker[h]
        BY <2>2, <1>0, Zenon DEF WorkerWakes
      <3> QED BY <2>2, <3>1, <3>2, Zenon DEF WorkerWakes, readerVars, DigestNeverPartial, ResultInv
    <2>3. CASE WorkerTimeout(g)
      BY <2>3, <1>0, Zenon DEF WorkerTimeout, readerVars, DigestNeverPartial, ResultInv, Exited
    <2>4. CASE HashWrite(g)
      <3>1. worker[g] = "hash" /\ UNCHANGED <<pc, r, hash_str>>
        BY <2>4, Zenon DEF HashWrite, readerVars
      <3>2. SignalReady(g)
        BY <2>4, Zenon DEF HashWrite
      <3> QED BY <1>0, <3>1, <3>2, SignalReadyFacts, Zenon DEF DigestNeverPartial, ResultInv
    <2>5. CASE HashFinal(g)
      <3>1. hash_ctx[g] = Digest
        <4>1. Len(hash_ctx[g]) = NumChunks
          BY <2>5, Zenon DEF HashFinal, ProgressInv, Progress
        <4>2. \A k \in 1 .. NumChunks : hash_ctx[g][k] = k
          BY <4>1, Zenon DEF HashedInOrder
        <4>3. hash_ctx[g] \in Seq(0 .. NumChunks)
          BY Zenon DEF HashTypeOK
        <4>4. hash_ctx[g] \in [1 .. NumChunks -> 0 .. NumChunks]
          BY <4>1, <4>3, LengthOf, Zenon
        <4> QED BY <4>2, <4>4, Zenon DEF Digest
      <3>2. hash_str'[g] = Digest /\ \A h \in Hashes : h # g => hash_str'[h] = hash_str[h]
        BY <2>5, <1>0, <3>1, Zenon DEF HashFinal
      <3>3. worker'[g] = "exit0" /\ \A h \in Hashes : h # g => worker'[h] = worker[h]
        BY <2>5, <1>0, Zenon DEF HashFinal
      <3> QED BY <2>5, <3>2, <3>3 DEF HashFinal, readerVars, DigestNeverPartial, ResultInv
    <2> QED BY <1>13, <2>1, <2>2, <2>3, <2>4, <2>5, Zenon DEF Worker
  <1>14. CASE UNCHANGED hash_vars
    BY <1>14, Zenon DEF hash_vars, readerVars, workerVars, DigestNeverPartial, ResultInv, Exited
  <1> QED BY <1>1, <1>2, <1>3, <1>4, <1>5, <1>6, <1>7, <1>8, <1>9, <1>10, <1>11, <1>12, Zenon,
         <1>13, <1>14 DEF HashNext, Reader, BailOut

\* Every worker goes on with the next chunk.
LEMMA OrderStep ==
    ASSUME HashTypeOK, ProgressInv, HashedInOrder, [HashNext]_hash_vars
    PROVE  HashedInOrder'
  <1>1. CASE CreateHashThread
    BY <1>1, Zenon DEF CreateHashThread, HashedInOrder
  <1>2. CASE OpenImage
    BY <1>2, Zenon DEF OpenImage, ReadFileAsync, workerVars, HashedInOrder
  <1>3. CASE LoopTest
    BY <1>3, Zenon DEF LoopTest, workerVars, HashedInOrder
  <1>4. CASE AwaitRead
    BY <1>4, Zenon DEF AwaitRead, ReadFileAsync, workerVars, HashedInOrder
  <1>5. CASE AwaitThreads
    BY <1>5, Zenon DEF AwaitThreads, workerVars, HashedInOrder
  <1>6. CASE SignalThread
    BY <1>6, Zenon DEF SignalThread, workerVars, HashedInOrder
  <1>7. CASE AwaitFinal
    BY <1>7, Zenon DEF AwaitFinal, workerVars, HashedInOrder
  <1>8. CASE CleanUp
    BY <1>8, Zenon DEF CleanUp, HashedInOrder
  <1>9. CASE BailOut
    BY <1>9, BailOutEffect, Zenon DEF HashedInOrder
  <1>10. CASE ReadCompletes
    BY <1>10, Zenon DEF ReadCompletes, workerVars, readerVars, HashedInOrder
  <1>11. CASE ReadFails
    BY <1>11, Zenon DEF ReadFails, workerVars, readerVars, HashedInOrder
  <1>12. CASE UserCancels
    BY <1>12, Zenon DEF UserCancels, workerVars, readerVars, HashedInOrder
  <1>13. ASSUME NEW g \in Hashes, Worker(g) PROVE HashedInOrder'
    <2>1. CASE WorkerStart(g)
      BY <2>1, SignalReadyFacts, Zenon DEF WorkerStart, readerVars, HashedInOrder
    <2>2. CASE WorkerWakes(g)
      BY <2>2, Zenon DEF WorkerWakes, readerVars, HashedInOrder
    <2>3. CASE WorkerTimeout(g)
      BY <2>3, Zenon DEF WorkerTimeout, readerVars, HashedInOrder
    <2>4. CASE HashWrite(g)
      <3>1. /\ hash_ctx \in [Hashes -> Seq(0 .. NumChunks)]
            /\ buffer[hash_buf[g]] \in 0 .. NumChunks
        BY Zenon DEF HashTypeOK
      <3> DEFINE s == hash_ctx[g]  e == buffer[hash_buf[g]]
      <3>2. hash_ctx'[g] = Append(s, e) /\ \A h \in Hashes : h # g => hash_ctx'[h] = hash_ctx[h]
        BY <2>4, <3>1, Zenon DEF HashWrite
      <3>3. e = Len(s) + 1
        BY <2>4, Zenon DEF HashWrite, ProgressInv, Progress, Consuming
      <3>4. /\ Len(Append(s, e)) = Len(s) + 1 /\ Append(s, e)[Len(s) + 1] = e
            /\ \A n \in 1 .. Len(s) : Append(s, e)[n] = s[n]
        BY <3>1, Appended
      <3>5. Len(s) \in Nat
        BY <3>1, LengthOf, Zenon
      <3>6. \A n \in 1 .. Len(s) : s[n] = n
        BY Zenon DEF HashedInOrder
      <3> HIDE DEF s, e
      <3>7. \A n \in 1 .. Len(Append(s, e)) : Append(s, e)[n] = n
        BY <3>3, <3>4, <3>5, <3>6
      <3> QED BY <3>2, <3>7, Zenon DEF HashedInOrder
    <2>5. CASE HashFinal(g)
      BY <2>5, Zenon DEF HashFinal, readerVars, HashedInOrder
    <2> QED BY <1>13, <2>1, <2>2, <2>3, <2>4, <2>5, Zenon DEF Worker
  <1>14. CASE UNCHANGED hash_vars
    BY <1>14, Zenon DEF hash_vars, readerVars, workerVars, HashedInOrder
  <1> QED BY <1>1, <1>2, <1>3, <1>4, <1>5, <1>6, <1>7, <1>8, <1>9, <1>10, <1>11, <1>12, Zenon,
         <1>13, <1>14 DEF HashNext, Reader, BailOut

\* The progress of the workers is preserved.
LEMMA ProgressStep ==
    ASSUME HashTypeOK, EventInv, BufferInv, DataInv, ProgressInv, [HashNext]_hash_vars
    PROVE  ProgressInv'
  <1> USE NumChunksAssumption
  <1> SUFFICES ASSUME NEW h \in Hashes, Progress(h) PROVE Progress(h)'
    BY Zenon DEF ProgressInv
  <1>0. /\ worker \in [Hashes -> WorkerStates] /\ read_bufnum \in Buffers
        /\ proc_bufnum \in Buffers /\ read_size \in [Buffers -> 0 .. 1]
        /\ buffer \in [Buffers -> 0 .. NumChunks] /\ offset \in Nat /\ i \in Nat
        /\ hash_ctx \in [Hashes -> Seq(0 .. NumChunks)] /\ hash_buf \in [Hashes -> Buffers]
        /\ io \in [buf : Buffers, status : {"idle", "pending", "ok", "failed"}]
    BY SMTT(30) DEF HashTypeOK
  <1>1. CASE CreateHashThread
    <2>1. i \in Hashes /\ worker[i] = "none" /\ offset = 0
      BY <1>1, <1>0, NumHashesAssumption DEF CreateHashThread, EventInv, Hashes
    <2>2. worker'[h] = worker[h] \/ (worker[h] = "none" /\ worker'[h] = "init")
      BY <1>1, <1>0, <2>1, Zenon DEF CreateHashThread
    <2> QED BY <1>1, <2>1, <2>2, Zenon DEF CreateHashThread, Progress, Consuming, Idle, Told, Looping
  <1>2. CASE OpenImage
    <2>1. ~ Consuming(h)' /\ worker[h] \notin {"hash", "final"} /\ offset = 0
      BY <1>2, Zenon DEF OpenImage, workerVars, EventInv, Consuming
    <2>2. Idle(h)' => Idle(h)
      BY <1>2, Zenon DEF OpenImage, workerVars, Idle
    <2>3. Told(h)' = Told(h) /\ pc = "create" /\ worker' = worker /\ hash_ctx' = hash_ctx
      BY <1>2, Zenon DEF OpenImage, workerVars, Told
    <2> QED BY <2>1, <2>2, <2>3, Zenon DEF Progress
  <1>3. CASE LoopTest
    <2>1. Told(h)' = Told(h) /\ Idle(h)' = Idle(h) /\ Consuming(h)' = Consuming(h)
      BY <1>3, Zenon DEF LoopTest, workerVars, Told, Idle, Consuming
    <2> QED BY <1>3, <2>1, Zenon DEF LoopTest, workerVars, Progress, Looping
  <1>4. CASE AwaitRead
    <2>1. Consuming(h) => read_bufnum # proc_bufnum /\ Succ(read_bufnum) # proc_bufnum
      BY <1>4, <1>0, Ring, Zenon DEF AwaitRead, BufferInv, Looping
    <2>2. Consuming(h) => /\ read_size'[proc_bufnum] = read_size[proc_bufnum]
                          /\ buffer'[proc_bufnum] = buffer[proc_bufnum]
      BY <1>4, <1>0, <2>1, Zenon DEF AwaitRead, ReadFileAsync
    <2>3. Told(h) = offset /\ Told(h)' = offset
      BY <1>4, <1>0, Ring DEF AwaitRead, Told
    <2>4. Idle(h)' = Idle(h) /\ Consuming(h)' = Consuming(h)
      BY <1>4, Zenon DEF AwaitRead, workerVars, Idle, Consuming
    <2>5. worker[h] = "hash" => Consuming(h)
      BY Zenon DEF Consuming
    <2> QED BY <1>4, <2>2, <2>3, <2>4, <2>5, Zenon DEF AwaitRead, workerVars, Progress, Looping
  <1>5. CASE AwaitThreads
    <2>1. ~ Consuming(h)' /\ worker[h] \notin {"hash", "final"}
      BY <1>5, Zenon DEF AwaitThreads, workerVars, EventInv, Consuming
    <2>2. Told(h)' = Told(h)
      BY <1>5, <1>0 DEF AwaitThreads, Told, Hashes
    <2>3. Idle(h)' => Idle(h)
      BY <1>5, Zenon DEF AwaitThreads, workerVars, Idle
    <2>4. pc = "threads_wait" /\ worker' = worker /\ hash_ctx' = hash_ctx
      BY <1>5, Zenon DEF AwaitThreads, workerVars
    <2> QED BY <2>1, <2>2, <2>3, <2>4, Zenon DEF Progress, Looping
  <1>6. CASE SignalThread
    <2>1. pc = "signal" /\ pc' \in {"signal", "loop"} /\ i' = i + 1 /\ i + 1 <= NumHashes
      BY <1>6, <1>0, NumHashesAssumption DEF SignalThread, EventInv
    <2>2. UNCHANGED <<worker, hash_ctx, hash_buf, read_size, buffer, proc_bufnum>>
      BY <1>6, Zenon DEF SignalThread, workerVars
    <2>3. CASE h = i
      <3>1. worker[h] \in {"wait", "exit1"} /\ h \notin data_ready /\ proc_bufnum = Prev(read_bufnum)
        BY <1>6, <1>0, <2>3 DEF SignalThread, EventInv, BufferInv
      <3>2. worker[h] = "wait" => Len(hash_ctx[h]) = offset - read_size[proc_bufnum]
        BY <1>0, <2>1, <2>3, <3>1, SMTT(30) DEF Progress, Consuming, Idle, Told, Looping
      <3>3. IF read_size[proc_bufnum] = 1 THEN buffer[proc_bufnum] = offset ELSE offset = NumChunks
        BY <2>1, <3>1, Zenon DEF DataInv
      <3>4. Told(h)' = offset
        BY <1>6, <1>0, <2>1, <2>3 DEF SignalThread, Told
      <3>5. read_size[proc_bufnum] \in {0, 1} /\ h \in data_ready'
        BY <1>6, <1>0, <2>3 DEF SignalThread
      <3> QED BY <1>0, <2>2, <3>1, <3>2, <3>3, <3>4, <3>5 DEF Progress, Consuming, Idle
    <2>4. CASE h # i
      <3>1. h \in data_ready' <=> h \in data_ready
        BY <1>6, <2>4, Zenon DEF SignalThread
      <3>2. h \in Nat /\ (h >= i + 1 <=> h >= i)
        BY <1>0, <2>4, NumHashesAssumption DEF Hashes
      <3>3. Told(h)' = Told(h)
        <4>1. pc' = "loop" => i + 1 = NumHashes
          BY <1>6, Zenon DEF SignalThread
        <4>2. pc' = "loop" => ~ h >= i
          BY <1>0, <3>2, <4>1, NumHashesAssumption DEF Hashes
        <4>3. offset' = offset /\ read_size' = read_size /\ read_bufnum' = read_bufnum
          BY <1>6, Zenon DEF SignalThread
        <4> QED BY <2>1, <3>2, <4>2, <4>3, Zenon DEF Told
      <3> QED BY <2>1, <2>2, <3>1, <3>3, Zenon DEF Progress, Consuming, Idle, Looping
    <2> QED BY <2>3, <2>4, Zenon
  <1>7. CASE AwaitFinal
    BY <1>7, <1>0, Zenon DEF AwaitFinal, workerVars, Progress, Consuming, Idle, Told, Looping
  <1>8. CASE CleanUp
    BY <1>8, <1>0, Zenon DEF CleanUp, Progress, Consuming, Idle, Told, Looping
  <1>9. CASE BailOut
    BY <1>9, <1>0, BailOutEffect, Zenon DEF Progress, Consuming, Idle, Told, Looping
  <1>10. CASE ReadCompletes
    <2>1. Consuming(h) => buffer'[proc_bufnum] = buffer[proc_bufnum]
      BY <1>10, <1>0, Zenon DEF ReadCompletes, BufferInv
    <2>2. Told(h)' = Told(h) /\ Idle(h)' = Idle(h) /\ Consuming(h)' = Consuming(h)
      BY <1>10, Zenon DEF ReadCompletes, readerVars, workerVars, Told, Idle, Consuming
    <2> QED BY <1>10, <2>1, <2>2, Zenon DEF ReadCompletes, workerVars, readerVars, Progress
  <1>11. CASE ReadFails
    <2>1. Told(h)' = Told(h) /\ Idle(h)' = Idle(h) /\ Consuming(h)' = Consuming(h)
      BY <1>11, Zenon DEF ReadFails, readerVars, workerVars, Told, Idle, Consuming
    <2> QED BY <1>11, <2>1, Zenon DEF ReadFails, workerVars, readerVars, Progress
  <1>12. CASE UserCancels
    <2>1. Told(h)' = Told(h) /\ Idle(h)' = Idle(h) /\ Consuming(h)' = Consuming(h)
      BY <1>12, Zenon DEF UserCancels, readerVars, workerVars, Told, Idle, Consuming
    <2> QED BY <1>12, <2>1, Zenon DEF UserCancels, workerVars, readerVars, Progress
  <1>13. ASSUME NEW g \in Hashes, Worker(g) PROVE Progress(h)'
    <2>1. CASE WorkerStart(g)
      <3>1. Told(h)' = Told(h) /\ g \notin data_ready /\ worker[g] = "init" /\ UNCHANGED data_ready
        BY <2>1, Zenon DEF WorkerStart, readerVars, EventInv, Told
      <3>2. worker'[h] = worker[h] \/ (h = g /\ worker'[g] \in {"wait", "exit1"})
        BY <2>1, <1>0, SignalReadyFacts, Zenon DEF WorkerStart
      <3>3. UNCHANGED <<pc, proc_bufnum, read_size, buffer, hash_buf, hash_ctx>>
        BY <2>1, Zenon DEF WorkerStart, readerVars
      <3> QED BY <3>1, <3>2, <3>3 DEF Progress, Consuming, Idle
    <2>2. CASE WorkerWakes(g)
      BY <2>2, <1>0 DEF WorkerWakes, readerVars, Progress, Consuming, Idle, Told, Looping
    <2>3. CASE WorkerTimeout(g)
      BY <2>3, <1>0, Zenon DEF WorkerTimeout, readerVars, Progress, Consuming, Idle, Told, Looping
    <2>4. CASE HashWrite(g)
      <3>1. Told(h)' = Told(h) /\ g \notin data_ready /\ UNCHANGED data_ready
        BY <2>4, Zenon DEF HashWrite, readerVars, EventInv, Told
      <3>2. UNCHANGED <<pc, proc_bufnum, read_size, buffer, hash_buf>>
        BY <2>4, Zenon DEF HashWrite, readerVars
      <3>3. CASE h = g
        <4>1. Len(hash_ctx'[g]) = Len(hash_ctx[g]) + 1
          <5>1. hash_ctx[g] \in Seq(0 .. NumChunks) /\ buffer[hash_buf[g]] \in 0 .. NumChunks
            BY Zenon DEF HashTypeOK
          <5>2. hash_ctx'[g] = Append(hash_ctx[g], buffer[hash_buf[g]])
            BY <2>4, <1>0, Zenon DEF HashWrite
          <5> QED BY <5>1, <5>2, Appended
        <4>2. worker'[g] \in {"wait", "exit1"}
          BY <2>4, <1>0, SignalReadyFacts, Zenon DEF HashWrite
        <4>3. pc # "create" /\ (pc \in Looping => Told(g) = Len(hash_ctx[g]) + 1)
          BY <2>4, <3>3, Zenon DEF HashWrite, EventInv, Progress, Consuming
        <4> QED BY <3>1, <3>2, <3>3, <4>1, <4>2, <4>3, Zenon DEF Progress, Consuming
      <3>4. CASE h # g
        <4>1. hash_ctx'[h] = hash_ctx[h] /\ worker'[h] = worker[h]
          <5>1. SignalReady(g) /\ hash_ctx' = [hash_ctx EXCEPT ![g] = Append(@, buffer[hash_buf[g]])]
            BY <2>4, Zenon DEF HashWrite
          <5>2. worker'[h] = worker[h]
            BY <1>0, <3>4, <5>1, SignalReadyFacts, Zenon
          <5> QED BY <1>0, <3>4, <5>1, <5>2, Zenon
        <4> QED BY <3>1, <3>2, <4>1, Zenon DEF Progress, Consuming, Idle
      <3> QED BY <3>3, <3>4, Zenon
    <2>5. CASE HashFinal(g)
      BY <2>5, <1>0, Zenon DEF HashFinal, readerVars, Progress, Consuming, Idle, Told, Looping
    <2> QED BY <1>13, <2>1, <2>2, <2>3, <2>4, <2>5, Zenon DEF Worker
  <1>14. CASE UNCHANGED hash_vars
    BY <1>14, Zenon DEF hash_vars, readerVars, workerVars, Progress, Consuming, Idle, Told, Looping
  <1> QED BY <1>1, <1>2, <1>3, <1>4, <1>5, <1>6, <1>7, <1>8, <1>9, <1>10, <1>11, <1>12, Zenon,
         <1>13, <1>14 DEF HashNext, Reader, BailOut

\* The inductive invariant holds throughout.
THEOREM Invariance == HashSpec => []HashIInv
  <1>1. ASSUME HashIInv, [HashNext]_hash_vars PROVE HashIInv'
    <2>1. HashTypeOK' /\ EventInv'
      BY <1>1, TypeStep, EventStep, Zenon DEF HashIInv
    <2>2. BufferInv' /\ DataInv' /\ HashedInOrder'
      BY <1>1, <2>1, BufferStep, DataStep, OrderStep, Zenon DEF HashIInv
    <2>3. ProgressInv'
      BY <1>1, ProgressStep, Zenon DEF HashIInv
    <2>4. DigestNeverPartial' /\ ResultInv'
      BY <1>1, ResultStep, Zenon DEF HashIInv
    <2> QED BY <2>1, <2>2, <2>3, <2>4, Zenon DEF HashIInv
  <1> QED BY HashInitIInv, <1>1, PTL DEF HashSpec

\* HashThread and its workers keep to their types.
THEOREM HashTypeCorrect == HashSpec => []HashTypeOK
  BY Invariance, PTL DEF HashIInv

\* No asynchronous read goes into a buffer a worker is hashing.
THEOREM RaceFree == HashSpec => []NoBufferRace
  <1>1. HashIInv => NoBufferRace
    BY Zenon DEF HashIInv, BufferInv, ProgressInv, Progress, Consuming, NoBufferRace
  <1> QED BY <1>1, Invariance, PTL

\* Every worker hashes the chunks of the image once each and in order, and
\* what it publishes is the digest of the whole image.
THEOREM DigestsCorrect == HashSpec => [](HashedInOrder /\ DigestNeverPartial)
  BY Invariance, PTL DEF HashIInv

\* No digest of a part of the image is published, and one the dialog shows is
\* the image's unless its worker gave up.
THEOREM ShownCorrect == HashSpec => []ShownDigestsAreTheImages
  <1>1. HashIInv => ShownDigestsAreTheImages
    BY Zenon DEF HashIInv, ResultInv, ShownDigestsAreTheImages
  <1> QED BY <1>1, Invariance, PTL

\* proc_bufnum changes only when no worker uses it or is about to.
THEOREM ProcBufnumDiscipline == HashSpec => ProcBufnumStable
  <1> DEFINE A == proc_bufnum' # proc_bufnum =>
       \A h \in Hashes : worker[h] \notin {"hash", "final"} /\ h \notin data_ready
  <1>1. ASSUME HashIInv, [HashNext]_hash_vars PROVE [A]_hash_vars
    <2>1. CASE OpenImage \/ AwaitThreads
      BY <1>1, <2>1, Zenon DEF OpenImage, AwaitThreads, HashIInv, EventInv
    <2>2. CASE UNCHANGED proc_bufnum
      BY <2>2, Zenon
    <2>3. HashNext => OpenImage \/ AwaitThreads \/ UNCHANGED proc_bufnum
      BY Zenon DEF HashNext, Reader, Worker, CreateHashThread, CreateHashThreadFails, OpenImageFails,
         LoopTest, AwaitRead, AwaitReadFails, AwaitThreadsTimeout, SignalThread,
         SignalThreadFails, AwaitFinal, AwaitFinalTimeout, CleanUp, WorkerStart, WorkerWakes,
         WorkerTimeout, HashWrite, HashFinal, ReadCompletes, ReadFails, UserCancels, readerVars
    <2> QED BY <1>1, <2>1, <2>2, <2>3, Zenon
  <1> QED BY <1>1, Invariance, PTL DEF ProcBufnumStable, HashSpec

-----------------------------------------------------------------------------
(***************************************************************************)
(* process.c: reports are of whole passes over the drive set last          *)
(***************************************************************************)
\* The types, without the bounds
BpShape == bp \in [bActive : BOOLEAN, v0 : Nat, v1 : Nat, names : Nat, hLock : Nat, hStart : {"null", "reset", "set"},
                   nPass : Nat, table : [Slots -> [pid : Nat, seen : Nat]]]
ThrShape == thr \in [pc : ThreadPcs, n : Nat, names : Nat, i : Nat]
ClShape == cl \in [pc : CallerPcs, l : Nat]
GShape == past \in [set : Nat, killed : BOOLEAN,
                 this : [passes : Nat, hits : [Procs -> Nat], stored : SUBSET Nat, ever : SUBSET Nat, first : BOOLEAN]]
Shape == BpShape /\ ThrShape /\ ClShape /\ GShape

\* The places where the thread works on the names that it has copied
Working == thr.pc \in {"enum", "scan", "store", "storing", "pass"}

\* The thread's version is not ahead, and there are no names but the last set.
NamesOfLastSet == bp.v1 <= bp.v0 /\ bp.names \in {NoNames, past.set}

\* With equal versions the thread's copy is of the names that were set last.
CopyIsCurrent ==
    bp.v0 = bp.v1 =>
        /\ Working => thr.names = past.set
        /\ bp.names # NoNames /\ thr.pc \notin {"none", "init", "exited", "killed"} => thr.names = past.set

\* A pass is only cut short by a caller that then lets go of the thread.
CutShortByStop ==
    cl.pc # "stopping" =>
        /\ thr.pc \in {"names", "enum", "scan", "store", "storing"} => bp.bActive
        /\ thr.pc = "pass" => thr.i > NumProcs

\* The counters that GetProcessSearch looks at stand for a pass, where it can
\* be called or the setting is not yet back from its call.
CountsArePasses ==
    /\ handle # 0 /\ cl.pc \in {"idle", "set_release", "get", "get_locked"}
    /\ bp.v0 = bp.v1 /\ bp.nPass >= 1
    => past.this.passes >= 1

\* There is a thread to ask only while its handle is kept.
HandleWhileAsking == cl.pc \in {"get", "get_locked"} => handle # 0

SearchIInv == Shape /\ NamesOfLastSet /\ CopyIsCurrent /\ CutShortByStop /\ CountsArePasses /\ HandleWhileAsking
-----------------------------------------------------------------------------
\* SearchIInv holds before the first search.
LEMMA SearchInitIInv == SearchInit => SearchIInv
<1> SUFFICES ASSUME SearchInit PROVE SearchIInv
  OBVIOUS
<1> USE DEF SearchInit, Zeroed, NewThread, NoCall, NoNames, NothingFound, NoEntry
<1>1. BpShape
  BY Zenon DEF BpShape
<1>2. ThrShape /\ ClShape
  BY Zenon DEF ThrShape, ClShape, ThreadPcs, CallerPcs
<1>3. GShape
  BY Zenon DEF GShape
<1>4. NamesOfLastSet /\ CopyIsCurrent /\ CutShortByStop /\ CountsArePasses /\ HandleWhileAsking
  BY DEF NamesOfLastSet, CopyIsCurrent, CutShortByStop, CountsArePasses, HandleWhileAsking, Working
<1> QED
  BY <1>1, <1>2, <1>3, <1>4, Zenon DEF SearchIInv, Shape

\* The thread goes to another place and process of the list.
LEMMA ThreadMoves ==
    ASSUME ThrShape, NEW place \in ThreadPcs, NEW nr \in Nat, thr' = [thr EXCEPT !.pc = place, !.i = nr]
    PROVE  ThrShape' /\ thr'.pc = place /\ thr'.names = thr.names
<1>1. ThrShape'
  BY Zenon DEF ThrShape
<1> QED
  BY <1>1, Zenon DEF ThrShape

\* The thread goes to the next process of the list.
LEMMA NextProcess ==
    ASSUME ThrShape, thr' = [thr EXCEPT !.pc = "scan", !.i = thr.i + 1]
    PROVE  ThrShape' /\ thr'.pc = "scan" /\ thr'.names = thr.names
<1>1. "scan" \in ThreadPcs /\ thr.i + 1 \in Nat
  BY DEF ThrShape, ThreadPcs
<1> QED
  BY <1>1, ThreadMoves, Zenon

\* What a new setting leaves of blocking_process
LEMMA NewSetting ==
    ASSUME BpShape, NEW v \in Nat, NEW names \in Nat, NEW start \in {"null", "reset", "set"},
           bp' = [bp EXCEPT !.names = names, !.v0 = v, !.bActive = TRUE, !.hStart = start]
    PROVE  BpShape' /\ bp'.names = names /\ bp'.v0 = v /\ bp'.v1 = bp.v1 /\ bp'.bActive = TRUE
<1>1. BpShape'
  BY Zenon DEF BpShape
<1> QED
  BY <1>1, Zenon DEF BpShape

\* What the end of a pass over the drive set last leaves of its record
LEMMA PassCounted ==
    ASSUME GShape, NEW n \in Nat, NEW hits \in [Procs -> Nat],
           past' = [past EXCEPT !.this.passes = n, !.this.stored = {}, !.this.hits = hits]
    PROVE  GShape' /\ past'.set = past.set /\ past'.this.passes = n
<1>1. GShape'
  BY Zenon DEF GShape
<1> QED
  BY <1>1, Zenon DEF GShape

\* The thread copies the names and takes over their version.
LEMMA NamesCopied ==
    ASSUME BpShape, ThrShape, bp' = [bp EXCEPT !.v1 = bp.v0, !.nPass = 0],
           thr' = [thr EXCEPT !.pc = "enum", !.names = bp.names]
    PROVE  /\ BpShape' /\ ThrShape'
           /\ bp'.v1 = bp.v0 /\ bp'.v0 = bp.v0 /\ bp'.nPass = 0 /\ bp'.names = bp.names /\ bp'.bActive = bp.bActive
           /\ thr'.pc = "enum" /\ thr'.names = bp.names
<1>1. BpShape'
  BY Zenon DEF BpShape
<1>2. bp'.v1 = bp.v0 /\ bp'.v0 = bp.v0 /\ bp'.nPass = 0 /\ bp'.names = bp.names /\ bp'.bActive = bp.bActive
  BY Zenon DEF BpShape
<1>3. ThrShape'
  BY Zenon DEF ThrShape, BpShape, ThreadPcs
<1>4. thr'.pc = "enum" /\ thr'.names = bp.names
  BY Zenon DEF ThrShape
<1> QED
  BY <1>1, <1>2, <1>3, <1>4, Zenon

\* The threads started are counted by a natural number.
LEMMA StartsNat == Starts \in Nat
<1>1. IsFiniteSet(1 .. MaxStarts)
  BY FS_Interval, BoundAssumption
<1>2. IsFiniteSet({n \in 1 .. MaxStarts : lock[n] # "none"})
  BY <1>1, FS_Subset, Zenon
<1> QED
  BY <1>2, FS_CardinalityType, Zenon DEF Starts

\* Every step of the search thread keeps SearchIInv.
LEMMA ThreadKeepsIInv == SearchIInv /\ Thread => SearchIInv'
<1> SUFFICES ASSUME SearchIInv, Thread PROVE SearchIInv'
  OBVIOUS
<1> USE DEF SearchIInv, Shape, ThreadAt, ThreadGoto, CallerAt, CallerGoto, Return, NoCall, NewThread, NoNames
<1>1. CASE ThreadInit
  <2>1. BpShape' /\ GShape'
    BY <1>1, Zenon DEF BpShape, GShape, ThrShape, ThreadInit, Zeroed, mine, NoEntry
  <2>2. ThrShape' /\ ClShape'
    BY <1>1, Zenon DEF BpShape, ThrShape, ClShape, ThreadPcs, CallerPcs, ThreadInit, Zeroed, mine, NoEntry
  <2>3. NamesOfLastSet' /\ HandleWhileAsking'
    BY <1>1 DEF BpShape, ClShape, GShape, NamesOfLastSet, HandleWhileAsking, ThreadInit, Zeroed, mine, NoEntry
  <2>4. CopyIsCurrent' /\ CutShortByStop'
    BY <1>1 DEF BpShape, ThrShape, ClShape, GShape, NamesOfLastSet, CopyIsCurrent, CutShortByStop, Working,
       ThreadInit, Zeroed, mine, NoEntry
  <2>5. CountsArePasses'
    BY <1>1 DEF BpShape, ThrShape, ClShape, GShape, NamesOfLastSet, CopyIsCurrent, CutShortByStop,
       CountsArePasses, Working, ThreadInit, Zeroed, mine, NoEntry
  <2> QED
    BY <2>1, <2>2, <2>3, <2>4, <2>5, Zenon
<1>2. CASE ThreadPublish
  <2>1. BpShape' /\ GShape'
    BY <1>2, Zenon DEF BpShape, GShape, ThrShape, ThreadPublish, mine
  <2>2. ThrShape' /\ ClShape'
    BY <1>2, Zenon DEF BpShape, ThrShape, ClShape, ThreadPcs, CallerPcs, ThreadPublish, mine
  <2>3. NamesOfLastSet' /\ HandleWhileAsking'
    BY <1>2, Zenon DEF BpShape, ClShape, GShape, NamesOfLastSet, HandleWhileAsking, ThreadPublish, mine
  <2>4. CopyIsCurrent' /\ CutShortByStop'
    BY <1>2 DEF BpShape, ThrShape, ClShape, GShape, NamesOfLastSet, CopyIsCurrent, CutShortByStop, Working,
       ThreadPublish, mine
  <2>5. CountsArePasses'
    BY <1>2, Zenon DEF BpShape, ThrShape, ClShape, GShape, NamesOfLastSet, CopyIsCurrent, CutShortByStop,
       CountsArePasses, Working, ThreadPublish, mine
  <2> QED
    BY <2>1, <2>2, <2>3, <2>4, <2>5, Zenon
<1>3. CASE ThreadWait
  <2>1. BpShape' /\ GShape'
    BY <1>3, Zenon DEF BpShape, GShape, ThrShape, ThreadWait
  <2>2. ThrShape' /\ ClShape'
    BY <1>3, Zenon DEF BpShape, ThrShape, ClShape, ThreadPcs, CallerPcs, ThreadWait
  <2>3. NamesOfLastSet' /\ HandleWhileAsking'
    BY <1>3, Zenon DEF BpShape, ClShape, GShape, NamesOfLastSet, HandleWhileAsking, ThreadWait
  <2>4. CopyIsCurrent' /\ CutShortByStop'
    BY <1>3 DEF BpShape, ThrShape, ClShape, GShape, NamesOfLastSet, CopyIsCurrent, CutShortByStop, Working,
       ThreadWait
  <2>5. CountsArePasses'
    BY <1>3, Zenon DEF BpShape, ThrShape, ClShape, GShape, NamesOfLastSet, CopyIsCurrent, CutShortByStop,
       CountsArePasses, Working, ThreadWait
  <2> QED
    BY <2>1, <2>2, <2>3, <2>4, <2>5, Zenon
<1>4. CASE ThreadLocks
  <2>1. BpShape' /\ GShape'
    BY <1>4, Zenon DEF BpShape, GShape, ThrShape, ThreadLocks
  <2>2. ThrShape' /\ ClShape'
    BY <1>4 DEF BpShape, ThrShape, ClShape, ThreadPcs, CallerPcs, ThreadLocks
  <2>3. NamesOfLastSet' /\ HandleWhileAsking'
    BY <1>4, Zenon DEF BpShape, ClShape, GShape, NamesOfLastSet, HandleWhileAsking, ThreadLocks
  <2>4. CopyIsCurrent' /\ CutShortByStop'
    BY <1>4 DEF BpShape, ThrShape, ClShape, GShape, NamesOfLastSet, CopyIsCurrent, CutShortByStop, Working,
       ThreadLocks
  <2>5. CountsArePasses'
    BY <1>4, Zenon DEF BpShape, ThrShape, ClShape, GShape, NamesOfLastSet, CopyIsCurrent, CutShortByStop,
       CountsArePasses, Working, ThreadLocks
  <2> QED
    BY <2>1, <2>2, <2>3, <2>4, <2>5, Zenon
<1>5. CASE ThreadNames
  <2> UNCHANGED <<handle, cl, past>>
    BY <1>5, Zenon DEF ThreadNames
  <2>1. CASE UNCHANGED bp /\ (ThreadGoto("top") \/ ThreadGoto("out"))
    BY <2>1, <1>5 DEF BpShape, ThrShape, ClShape, GShape, NamesOfLastSet, CopyIsCurrent, CutShortByStop,
           CountsArePasses, HandleWhileAsking, Working, ThreadPcs, ThreadNames
  <2>2. CASE bp.names # NoNames /\ bp.v0 = bp.v1 /\ ThreadGoto("enum") /\ UNCHANGED bp
    BY <2>2, <1>5 DEF BpShape, ThrShape, ClShape, GShape, NamesOfLastSet, CopyIsCurrent, CutShortByStop,
           CountsArePasses, HandleWhileAsking, Working, ThreadPcs, ThreadNames
  <2>3. CASE /\ bp.names # NoNames /\ bp' = [bp EXCEPT !.v1 = bp.v0, !.nPass = 0]
             /\ thr' = [thr EXCEPT !.pc = "enum", !.names = bp.names]
    <3>1. BpShape' /\ ThrShape'
      BY <2>3, NamesCopied, Zenon
    <3>2. NamesOfLastSet' /\ CopyIsCurrent' /\ CutShortByStop' /\ CountsArePasses'
      BY <2>3, <1>5, NamesCopied DEF BpShape, ThrShape, ClShape, GShape, NamesOfLastSet, CopyIsCurrent,
         CutShortByStop,
           CountsArePasses, HandleWhileAsking, Working, ThreadNames
    <3> QED
      BY <3>1, <3>2, Zenon DEF ClShape, GShape, HandleWhileAsking
  <2> QED
    BY <1>5, <2>1, <2>2, <2>3, Zenon DEF ThreadNames
<1>6. CASE ThreadEnumerates
  <2>1. BpShape' /\ GShape'
    BY <1>6, Zenon DEF BpShape, GShape, ThrShape, ThreadEnumerates
  <2>2. ThrShape' /\ ClShape'
    BY <1>6, Zenon DEF BpShape, ThrShape, ClShape, ThreadPcs, CallerPcs, ThreadEnumerates
  <2>3. NamesOfLastSet' /\ HandleWhileAsking'
    BY <1>6, Zenon DEF BpShape, ClShape, GShape, NamesOfLastSet, HandleWhileAsking, ThreadEnumerates
  <2>4. CopyIsCurrent' /\ CutShortByStop'
    BY <1>6, Zenon DEF BpShape, ThrShape, ClShape, GShape, NamesOfLastSet, CopyIsCurrent, CutShortByStop,
       Working, ThreadEnumerates
  <2>5. CountsArePasses'
    BY <1>6, Zenon DEF BpShape, ThrShape, ClShape, GShape, NamesOfLastSet, CopyIsCurrent, CutShortByStop,
       CountsArePasses, Working, ThreadEnumerates
  <2> QED
    BY <2>1, <2>2, <2>3, <2>4, <2>5, Zenon
<1>7. CASE ThreadScans
  <2>1. BpShape' /\ GShape'
    BY <1>7, Zenon DEF BpShape, GShape, ThrShape, ThreadScans
  <2>2. ThrShape' /\ ClShape'
    BY <1>7 DEF BpShape, ThrShape, ClShape, ThreadPcs, CallerPcs, ThreadScans
  <2>3. NamesOfLastSet' /\ HandleWhileAsking'
    BY <1>7, Zenon DEF BpShape, ClShape, GShape, NamesOfLastSet, HandleWhileAsking, ThreadScans
  <2>4. CopyIsCurrent' /\ CutShortByStop'
    BY <1>7 DEF BpShape, ThrShape, ClShape, GShape, NamesOfLastSet, CopyIsCurrent, CutShortByStop, Working,
       ThreadScans
  <2>5. CountsArePasses'
    BY <1>7, Zenon DEF BpShape, ThrShape, ClShape, GShape, NamesOfLastSet, CopyIsCurrent, CutShortByStop,
       CountsArePasses, Working, ThreadScans
  <2> QED
    BY <2>1, <2>2, <2>3, <2>4, <2>5, Zenon
<1>8. CASE StoreLocks
  <2> UNCHANGED <<handle, bp, cl, past>>
    BY <1>8, Zenon DEF StoreLocks
  <2>1. CASE ThreadGoto("storing") \/ (~bp.bActive /\ ThreadGoto("pass"))
    BY <2>1, <1>8 DEF BpShape, ThrShape, ClShape, GShape, NamesOfLastSet, CopyIsCurrent, CutShortByStop,
           CountsArePasses, HandleWhileAsking, Working, ThreadPcs, StoreLocks
  <2>2. CASE thr' = [thr EXCEPT !.pc = "scan", !.i = thr.i + 1]
    <3>1. ThrShape' /\ thr'.pc = "scan" /\ thr'.names = thr.names
      BY <2>2, NextProcess, Zenon
    <3>2. BpShape' /\ ClShape' /\ GShape'
      BY Zenon DEF BpShape, ClShape, GShape
    <3>3. NamesOfLastSet' /\ HandleWhileAsking' /\ CopyIsCurrent' /\ CutShortByStop'
      BY <1>8, <3>1, Zenon DEF NamesOfLastSet, HandleWhileAsking, CopyIsCurrent, CutShortByStop, Working,
         StoreLocks, ThreadScans
    <3>4. CountsArePasses'
      BY <1>8, <3>1, Zenon DEF CountsArePasses, Working, StoreLocks, ThreadScans
    <3> QED
      BY <3>1, <3>2, <3>3, <3>4, Zenon
  <2> QED
    BY <1>8, <2>1, <2>2, Zenon DEF StoreLocks
<1>9. CASE StoreProcess
  <2>1. BpShape' /\ GShape'
    BY <1>9, ZenonT(60) DEF BpShape, GShape, ThrShape, StoreProcess, Pruned, NoEntry
  <2>2. thr' = [thr EXCEPT !.pc = "scan", !.i = thr.i + 1] /\ UNCHANGED <<handle, cl>>
    BY <1>9, Zenon DEF StoreProcess
  <2>3. ThrShape' /\ thr'.pc = "scan" /\ thr'.names = thr.names
    BY <2>2, NextProcess, Zenon
  <2>4. /\ bp'.bActive = bp.bActive /\ bp'.v0 = bp.v0 /\ bp'.v1 = bp.v1 /\ bp'.names = bp.names
        /\ bp'.nPass = bp.nPass /\ past'.set = past.set /\ past'.this.passes = past.this.passes
    BY <1>9, Zenon DEF BpShape, GShape, StoreProcess
  <2>5. NamesOfLastSet' /\ CopyIsCurrent' /\ CutShortByStop' /\ CountsArePasses' /\ HandleWhileAsking'
    BY <1>9, <2>2, <2>3, <2>4, Zenon DEF NamesOfLastSet, CopyIsCurrent, CutShortByStop, CountsArePasses,
       HandleWhileAsking,
                              Working, StoreProcess
  <2> QED
    BY <2>1, <2>2, <2>3, <2>5, Zenon DEF ClShape
<1>10. CASE PassEnds
  <2> UNCHANGED <<handle, cl>>
    BY <1>10, Zenon DEF PassEnds
  <2>1. BpShape' /\ ThrShape'
    <3>1. BpShape'
      BY <1>10 DEF BpShape, PassEnds
    <3>2. ThrShape'
      BY <1>10, Zenon DEF ThrShape, ThreadPcs, PassEnds
    <3> QED
      BY <3>1, <3>2, Zenon
  <2>2. bp'.nPass = bp.nPass + 1 /\ bp'.bActive = bp.bActive /\ bp'.v0 = bp.v0 /\ bp'.v1 = bp.v1 /\ bp'.names = bp.names
    BY <1>10, Zenon DEF BpShape, PassEnds
  <2>3. thr'.pc = "top" /\ thr'.names = thr.names
    BY <1>10, Zenon DEF ThrShape, PassEnds
  <2>4. /\ GShape' /\ past'.set = past.set
        /\ past'.this.passes = IF thr.names = past.set /\ thr.i > NumProcs THEN past.this.passes + 1 ELSE past.this.passes
    <3>1. CASE thr.names = past.set /\ thr.i > NumProcs
      <4> DEFINE hits == [p \in Procs |-> IF p \in past.this.stored THEN Min2(past.this.hits[p] + 1) ELSE 0]
      <4>1. past.this.passes + 1 \in Nat /\ hits \in [Procs -> Nat]
        BY DEF GShape, Min2
      <4>2. past' = [past EXCEPT !.this.passes = past.this.passes + 1, !.this.stored = {}, !.this.hits = hits]
        BY <1>10, <3>1, Zenon DEF PassEnds
      <4> HIDE DEF hits
      <4> QED
        BY <3>1, <4>1, <4>2, PassCounted, Zenon
    <3>2. CASE ~(thr.names = past.set /\ thr.i > NumProcs)
      BY <1>10, <3>2, Zenon DEF GShape, PassEnds
    <3> QED
      BY <3>1, <3>2, Zenon
  <2>5. NamesOfLastSet' /\ CopyIsCurrent' /\ CutShortByStop' /\ HandleWhileAsking'
    BY <1>10, <2>2, <2>3, <2>4, Zenon DEF NamesOfLastSet, CopyIsCurrent, CutShortByStop, HandleWhileAsking,
       Working, PassEnds
  <2>6. CountsArePasses'
    <3>1. past.this.passes \in Nat /\ thr.pc = "pass"
      BY <1>10, Zenon DEF GShape, PassEnds
    <3>2. CASE bp.v0 = bp.v1 /\ cl.pc # "stopping"
      BY <2>4, <3>1, <3>2 DEF CopyIsCurrent, CutShortByStop, CountsArePasses, Working
    <3>3. CASE bp.v0 # bp.v1 \/ cl.pc = "stopping"
      BY <2>2, <3>3, Zenon DEF CountsArePasses
    <3> QED
      BY <3>2, <3>3, Zenon
  <2> QED
    BY <2>1, <2>4, <2>5, <2>6, Zenon DEF ClShape
<1>11. CASE ThreadLeaves
  <2>1. BpShape' /\ GShape'
    BY <1>11, Zenon DEF BpShape, GShape, ThrShape, ThreadLeaves, ThreadExits, mine
  <2>2. ThrShape' /\ ClShape'
    BY <1>11 DEF BpShape, ThrShape, ClShape, ThreadPcs, CallerPcs, ThreadLeaves, ThreadExits, mine
  <2>3. NamesOfLastSet' /\ HandleWhileAsking'
    BY <1>11, Zenon DEF BpShape, ClShape, GShape, NamesOfLastSet, HandleWhileAsking, ThreadLeaves,
       ThreadExits, mine
  <2>4. CopyIsCurrent' /\ CutShortByStop'
    BY <1>11 DEF BpShape, ThrShape, ClShape, GShape, NamesOfLastSet, CopyIsCurrent, CutShortByStop, Working,
       ThreadLeaves, ThreadExits, mine
  <2>5. CountsArePasses'
    BY <1>11, Zenon DEF BpShape, ThrShape, ClShape, GShape, NamesOfLastSet, CopyIsCurrent, CutShortByStop,
       CountsArePasses, Working, ThreadLeaves, ThreadExits, mine
  <2> QED
    BY <2>1, <2>2, <2>3, <2>4, <2>5, Zenon
<1>12. CASE ThreadCleansUp
  <2>1. BpShape' /\ GShape'
    BY <1>12, Zenon DEF BpShape, GShape, ThrShape, ThreadCleansUp, ThreadExits, mine
  <2>2. ThrShape' /\ ClShape'
    BY <1>12, Zenon DEF BpShape, ThrShape, ClShape, ThreadPcs, CallerPcs, ThreadCleansUp, ThreadExits, mine
  <2>3. NamesOfLastSet' /\ HandleWhileAsking'
    BY <1>12, Zenon DEF BpShape, ClShape, GShape, NamesOfLastSet, HandleWhileAsking, ThreadCleansUp,
       ThreadExits, mine
  <2>4. CopyIsCurrent' /\ CutShortByStop'
    BY <1>12, Zenon DEF BpShape, ThrShape, ClShape, GShape, NamesOfLastSet, CopyIsCurrent, CutShortByStop,
       Working, ThreadCleansUp, ThreadExits, mine
  <2>5. CountsArePasses'
    BY <1>12, Zenon DEF BpShape, ThrShape, ClShape, GShape, NamesOfLastSet, CopyIsCurrent, CutShortByStop,
       CountsArePasses, Working, ThreadCleansUp, ThreadExits, mine
  <2> QED
    BY <2>1, <2>2, <2>3, <2>4, <2>5, Zenon
<1> QED
  BY <1>1, <1>2, <1>3, <1>4, <1>5, <1>6, <1>7, <1>8, <1>9, <1>10, <1>11, <1>12, Zenon DEF Thread

\* Every step of a caller keeps SearchIInv.
LEMMA CallerKeepsIInv == SearchIInv /\ Caller => SearchIInv'
<1> SUFFICES ASSUME SearchIInv, Caller PROVE SearchIInv'
  OBVIOUS
<1> USE DEF SearchIInv, Shape, ThreadAt, ThreadGoto, CallerAt, CallerGoto, Return, NoCall, NewThread, NoNames
<1>1. CASE StartProcessSearch
  <2>1. BpShape' /\ GShape'
    BY <1>1, Zenon DEF BpShape, GShape, ThrShape, StartProcessSearch, mine
  <2>2. ThrShape' /\ ClShape'
    BY <1>1, StartsNat DEF BpShape, ThrShape, ClShape, ThreadPcs, CallerPcs, StartProcessSearch, mine
  <2>3. NamesOfLastSet' /\ HandleWhileAsking'
    BY <1>1, Zenon DEF BpShape, ClShape, GShape, NamesOfLastSet, HandleWhileAsking, StartProcessSearch, mine
  <2>4. CopyIsCurrent' /\ CutShortByStop'
    BY <1>1 DEF BpShape, ThrShape, ClShape, GShape, NamesOfLastSet, CopyIsCurrent, CutShortByStop, Working,
       StartProcessSearch, mine
  <2>5. CountsArePasses'
    BY <1>1, Zenon DEF BpShape, ThrShape, ClShape, GShape, NamesOfLastSet, CopyIsCurrent, CutShortByStop,
       CountsArePasses, Working, StartProcessSearch, mine
  <2> QED
    BY <2>1, <2>2, <2>3, <2>4, <2>5, Zenon
<1>2. CASE PollLock
  <2>1. BpShape' /\ GShape'
    BY <1>2, Zenon DEF BpShape, GShape, ThrShape, PollLock, Terminate, mine
  <2>2. ThrShape' /\ ClShape'
    BY <1>2 DEF BpShape, ThrShape, ClShape, ThreadPcs, CallerPcs, PollLock, Terminate, mine
  <2>3. NamesOfLastSet' /\ HandleWhileAsking'
    BY <1>2 DEF BpShape, ClShape, GShape, NamesOfLastSet, HandleWhileAsking, PollLock, Terminate, mine
  <2>4. CopyIsCurrent' /\ CutShortByStop'
    BY <1>2 DEF BpShape, ThrShape, ClShape, GShape, NamesOfLastSet, CopyIsCurrent, CutShortByStop, Working,
       PollLock, Terminate, mine
  <2>5. CountsArePasses'
    BY <1>2 DEF BpShape, ThrShape, ClShape, GShape, NamesOfLastSet, CopyIsCurrent, CutShortByStop,
       CountsArePasses, Working, PollLock, Terminate, mine
  <2> QED
    BY <2>1, <2>2, <2>3, <2>4, <2>5, Zenon
<1>3. CASE SetProcessSearch
  <2>1. BpShape' /\ GShape'
    BY <1>3, Zenon DEF BpShape, GShape, ThrShape, SetProcessSearch
  <2>2. ThrShape' /\ ClShape'
    BY <1>3 DEF BpShape, ThrShape, ClShape, ThreadPcs, CallerPcs, SetProcessSearch
  <2>3. NamesOfLastSet' /\ HandleWhileAsking'
    BY <1>3 DEF BpShape, ClShape, GShape, NamesOfLastSet, HandleWhileAsking, SetProcessSearch
  <2>4. CopyIsCurrent' /\ CutShortByStop'
    BY <1>3, Zenon DEF BpShape, ThrShape, ClShape, GShape, NamesOfLastSet, CopyIsCurrent, CutShortByStop,
       Working, SetProcessSearch
  <2>5. CountsArePasses'
    BY <1>3 DEF BpShape, ThrShape, ClShape, GShape, NamesOfLastSet, CopyIsCurrent, CutShortByStop,
       CountsArePasses, Working, SetProcessSearch
  <2> QED
    BY <2>1, <2>2, <2>3, <2>4, <2>5, Zenon
<1>4. CASE SetLocks
  <2>1. BpShape' /\ GShape'
    BY <1>4, Zenon DEF BpShape, GShape, ThrShape, SetLocks, CallerLocks
  <2>2. ThrShape' /\ ClShape'
    BY <1>4, Zenon DEF BpShape, ThrShape, ClShape, ThreadPcs, CallerPcs, SetLocks, CallerLocks
  <2>3. NamesOfLastSet' /\ HandleWhileAsking'
    BY <1>4, Zenon DEF BpShape, ClShape, GShape, NamesOfLastSet, HandleWhileAsking, SetLocks, CallerLocks
  <2>4. CopyIsCurrent' /\ CutShortByStop'
    BY <1>4, Zenon DEF BpShape, ThrShape, ClShape, GShape, NamesOfLastSet, CopyIsCurrent, CutShortByStop,
       Working, SetLocks, CallerLocks
  <2>5. CountsArePasses'
    BY <1>4 DEF BpShape, ThrShape, ClShape, GShape, NamesOfLastSet, CopyIsCurrent, CutShortByStop,
       CountsArePasses, Working, SetLocks, CallerLocks
  <2> QED
    BY <2>1, <2>2, <2>3, <2>4, <2>5, Zenon
<1>5. CASE SetNames
  <2>1. PICK names \in {past.set + 1, NoNames} :
            bp' = [bp EXCEPT !.names = names, !.v0 = bp.v0 + 1, !.bActive = TRUE,
                             !.hStart = IF bp.hStart = "null" THEN "null" ELSE "set"]
    BY <1>5, Zenon DEF SetNames
  <2>2. UNCHANGED <<handle, thr>> /\ ClShape' /\ cl'.pc = "set_release"
    BY <1>5, Zenon DEF SetNames, ClShape, CallerPcs
  <2>3. GShape' /\ past'.set = past.set + 1
    <3>1. NothingFound \in [passes : Nat, hits : [Procs -> Nat], stored : SUBSET Nat, ever : SUBSET Nat, first : BOOLEAN]
      BY Zenon DEF NothingFound
    <3>2. past' = [past EXCEPT !.set = past.set + 1, !.this = NothingFound] /\ past.set + 1 \in Nat
      BY <1>5 DEF SetNames, GShape
    <3> HIDE DEF NothingFound
    <3>3. GShape'
      BY <3>1, <3>2, Zenon DEF GShape
    <3>4. past'.set = past.set + 1
      BY <3>2, Zenon DEF GShape
    <3> QED
      BY <3>3, <3>4, Zenon
  <2>4. BpShape' /\ bp'.names = names /\ bp'.v0 = bp.v0 + 1 /\ bp'.v1 = bp.v1 /\ bp'.bActive = TRUE
    <3> DEFINE start == IF bp.hStart = "null" THEN "null" ELSE "set"
    <3>1. bp.v0 + 1 \in Nat /\ names \in Nat
      BY <2>1 DEF BpShape, GShape
    <3>2. start \in {"null", "reset", "set"}
      OBVIOUS
    <3> HIDE DEF start
    <3> QED
      BY <2>1, <3>1, <3>2, NewSetting, Zenon DEF start
  <2>5. NamesOfLastSet' /\ CopyIsCurrent' /\ CutShortByStop' /\ CountsArePasses' /\ HandleWhileAsking'
    BY <1>5, <2>2, <2>3, <2>4 DEF BpShape, NamesOfLastSet, CopyIsCurrent, CutShortByStop, CountsArePasses,
                              HandleWhileAsking, SetNames
  <2> QED
    BY <2>2, <2>3, <2>4, <2>5, Zenon DEF ThrShape
<1>6. CASE SetReleases
  <2>1. BpShape' /\ GShape'
    BY <1>6, Zenon DEF BpShape, GShape, ThrShape, SetReleases
  <2>2. ThrShape' /\ ClShape'
    BY <1>6 DEF BpShape, ThrShape, ClShape, ThreadPcs, CallerPcs, SetReleases
  <2>3. NamesOfLastSet' /\ HandleWhileAsking'
    BY <1>6 DEF BpShape, ClShape, GShape, NamesOfLastSet, HandleWhileAsking, SetReleases
  <2>4. CopyIsCurrent' /\ CutShortByStop'
    BY <1>6, Zenon DEF BpShape, ThrShape, ClShape, GShape, NamesOfLastSet, CopyIsCurrent, CutShortByStop,
       Working, SetReleases
  <2>5. CountsArePasses'
    BY <1>6, Zenon DEF BpShape, ThrShape, ClShape, GShape, NamesOfLastSet, CopyIsCurrent, CutShortByStop,
       CountsArePasses, Working, SetReleases
  <2> QED
    BY <2>1, <2>2, <2>3, <2>4, <2>5, Zenon
<1>7. CASE StopProcessSearch
  <2>1. BpShape' /\ GShape'
    BY <1>7, Zenon DEF BpShape, GShape, ThrShape, StopProcessSearch
  <2>2. ThrShape' /\ ClShape'
    BY <1>7, Zenon DEF BpShape, ThrShape, ClShape, ThreadPcs, CallerPcs, StopProcessSearch
  <2>3. NamesOfLastSet' /\ HandleWhileAsking'
    BY <1>7, Zenon DEF BpShape, ClShape, GShape, NamesOfLastSet, HandleWhileAsking, StopProcessSearch
  <2>4. CopyIsCurrent' /\ CutShortByStop'
    BY <1>7, Zenon DEF BpShape, ThrShape, ClShape, GShape, NamesOfLastSet, CopyIsCurrent, CutShortByStop,
       Working, StopProcessSearch
  <2>5. CountsArePasses'
    BY <1>7, Zenon DEF BpShape, ThrShape, ClShape, GShape, NamesOfLastSet, CopyIsCurrent, CutShortByStop,
       CountsArePasses, Working, StopProcessSearch
  <2> QED
    BY <2>1, <2>2, <2>3, <2>4, <2>5, Zenon
<1>8. CASE Deactivate
  <2>1. BpShape' /\ GShape'
    BY <1>8, Zenon DEF BpShape, GShape, ThrShape, Deactivate
  <2>2. ThrShape' /\ ClShape'
    BY <1>8, Zenon DEF BpShape, ThrShape, ClShape, ThreadPcs, CallerPcs, Deactivate
  <2>3. NamesOfLastSet' /\ HandleWhileAsking'
    BY <1>8, Zenon DEF BpShape, ClShape, GShape, NamesOfLastSet, HandleWhileAsking, Deactivate
  <2>4. CopyIsCurrent' /\ CutShortByStop'
    BY <1>8, Zenon DEF BpShape, ThrShape, ClShape, GShape, NamesOfLastSet, CopyIsCurrent, CutShortByStop,
       Working, Deactivate
  <2>5. CountsArePasses'
    BY <1>8, Zenon DEF BpShape, ThrShape, ClShape, GShape, NamesOfLastSet, CopyIsCurrent, CutShortByStop,
       CountsArePasses, Working, Deactivate
  <2> QED
    BY <2>1, <2>2, <2>3, <2>4, <2>5, Zenon
<1>9. CASE Stopped
  <2>1. BpShape' /\ GShape'
    BY <1>9, Zenon DEF BpShape, GShape, ThrShape, Stopped, Terminate, mine
  <2>2. ThrShape' /\ ClShape'
    BY <1>9 DEF BpShape, ThrShape, ClShape, ThreadPcs, CallerPcs, Stopped, Terminate, mine
  <2>3. NamesOfLastSet' /\ HandleWhileAsking'
    BY <1>9, Zenon DEF BpShape, ClShape, GShape, NamesOfLastSet, HandleWhileAsking, Stopped, Terminate, mine
  <2>4. CopyIsCurrent' /\ CutShortByStop'
    BY <1>9 DEF BpShape, ThrShape, ClShape, GShape, NamesOfLastSet, CopyIsCurrent, CutShortByStop, Working,
       Stopped, Terminate, mine
  <2>5. CountsArePasses'
    BY <1>9, Zenon DEF BpShape, ThrShape, ClShape, GShape, NamesOfLastSet, CopyIsCurrent, CutShortByStop,
       CountsArePasses, Working, Stopped, Terminate, mine
  <2> QED
    BY <2>1, <2>2, <2>3, <2>4, <2>5, Zenon
<1>10. CASE GetProcessSearch
  <2>1. BpShape' /\ GShape'
    BY <1>10, Zenon DEF BpShape, GShape, ThrShape, GetProcessSearch
  <2>2. ThrShape' /\ ClShape'
    BY <1>10, Zenon DEF BpShape, ThrShape, ClShape, ThreadPcs, CallerPcs, GetProcessSearch
  <2>3. NamesOfLastSet' /\ HandleWhileAsking'
    BY <1>10, Zenon DEF BpShape, ClShape, GShape, NamesOfLastSet, HandleWhileAsking, GetProcessSearch
  <2>4. CopyIsCurrent' /\ CutShortByStop'
    BY <1>10, Zenon DEF BpShape, ThrShape, ClShape, GShape, NamesOfLastSet, CopyIsCurrent, CutShortByStop,
       Working, GetProcessSearch
  <2>5. CountsArePasses'
    BY <1>10, Zenon DEF BpShape, ThrShape, ClShape, GShape, NamesOfLastSet, CopyIsCurrent, CutShortByStop,
       CountsArePasses, Working, GetProcessSearch
  <2> QED
    BY <2>1, <2>2, <2>3, <2>4, <2>5, Zenon
<1>11. CASE GetLocks
  <2>1. BpShape' /\ GShape'
    BY <1>11, Zenon DEF BpShape, GShape, ThrShape, GetLocks, CallerLocks
  <2>2. ThrShape' /\ ClShape'
    BY <1>11 DEF BpShape, ThrShape, ClShape, ThreadPcs, CallerPcs, GetLocks, CallerLocks
  <2>3. NamesOfLastSet' /\ HandleWhileAsking'
    BY <1>11, Zenon DEF BpShape, ClShape, GShape, NamesOfLastSet, HandleWhileAsking, GetLocks, CallerLocks
  <2>4. CopyIsCurrent' /\ CutShortByStop'
    BY <1>11, Zenon DEF BpShape, ThrShape, ClShape, GShape, NamesOfLastSet, CopyIsCurrent, CutShortByStop,
       Working, GetLocks, CallerLocks
  <2>5. CountsArePasses'
    BY <1>11, Zenon DEF BpShape, ThrShape, ClShape, GShape, NamesOfLastSet, CopyIsCurrent, CutShortByStop,
       CountsArePasses, Working, GetLocks, CallerLocks
  <2> QED
    BY <2>1, <2>2, <2>3, <2>4, <2>5, Zenon
<1>12. CASE GetWaits
  <2>1. BpShape' /\ GShape'
    BY <1>12, Zenon DEF BpShape, GShape, ThrShape, GetWaits
  <2>2. ThrShape' /\ ClShape'
    BY <1>12 DEF BpShape, ThrShape, ClShape, ThreadPcs, CallerPcs, GetWaits
  <2>3. NamesOfLastSet' /\ HandleWhileAsking'
    BY <1>12, Zenon DEF BpShape, ClShape, GShape, NamesOfLastSet, HandleWhileAsking, GetWaits
  <2>4. CopyIsCurrent' /\ CutShortByStop'
    BY <1>12, Zenon DEF BpShape, ThrShape, ClShape, GShape, NamesOfLastSet, CopyIsCurrent, CutShortByStop,
       Working, GetWaits
  <2>5. CountsArePasses'
    BY <1>12, Zenon DEF BpShape, ThrShape, ClShape, GShape, NamesOfLastSet, CopyIsCurrent, CutShortByStop,
       CountsArePasses, Working, GetWaits
  <2> QED
    BY <2>1, <2>2, <2>3, <2>4, <2>5, Zenon
<1>13. CASE GetReports
  <2>1. BpShape' /\ GShape'
    BY <1>13, Zenon DEF BpShape, GShape, ThrShape, GetReports
  <2>2. ThrShape' /\ ClShape'
    BY <1>13, Zenon DEF BpShape, ThrShape, ClShape, ThreadPcs, CallerPcs, GetReports
  <2>3. NamesOfLastSet' /\ HandleWhileAsking'
    BY <1>13, Zenon DEF BpShape, ClShape, GShape, NamesOfLastSet, HandleWhileAsking, GetReports
  <2>4. CopyIsCurrent' /\ CutShortByStop'
    BY <1>13, Zenon DEF BpShape, ThrShape, ClShape, GShape, NamesOfLastSet, CopyIsCurrent, CutShortByStop,
       Working, GetReports
  <2>5. CountsArePasses'
    BY <1>13, Zenon DEF BpShape, ThrShape, ClShape, GShape, NamesOfLastSet, CopyIsCurrent, CutShortByStop,
       CountsArePasses, Working, GetReports
  <2> QED
    BY <2>1, <2>2, <2>3, <2>4, <2>5, Zenon
<1> QED
  BY <1>1, <1>2, <1>3, <1>4, <1>5, <1>6, <1>7, <1>8, <1>9, <1>10, <1>11, <1>12, <1>13, Zenon DEF Caller

\* Every step keeps SearchIInv.
LEMMA NextIInv == SearchIInv /\ [SearchNext]_search_vars => SearchIInv'
<1>1. ASSUME SearchIInv, UNCHANGED search_vars PROVE SearchIInv'
  BY <1>1 DEF SearchIInv, Shape, BpShape, ThrShape, ClShape, GShape, NamesOfLastSet, CopyIsCurrent,
     CutShortByStop,
              CountsArePasses, HandleWhileAsking, Working, search_vars
<1> QED
  BY <1>1, ThreadKeepsIInv, CallerKeepsIInv, Zenon DEF SearchNext

\* GetProcessSearch reports a list only if a whole pass with the names that were
\* set last has ended since they were set, however starts, settings, stops,
\* terminated threads and timeouts came before (process.c:893).
THEOREM ReportsAreFresh == SearchSpec => FreshReport
<1>1. SearchIInv /\ [SearchNext]_search_vars => [GetReports => past.this.passes >= 1]_search_vars
  <2> SUFFICES ASSUME SearchIInv, GetReports PROVE past.this.passes >= 1
    OBVIOUS
  <2> QED
    BY DEF SearchIInv, Shape, BpShape, CountsArePasses, HandleWhileAsking, GetReports, NotReady, CallerAt
<1> QED
  BY SearchInitIInv, NextIInv, <1>1, PTL DEF SearchSpec, FreshReport
-----------------------------------------------------------------------------
(***************************************************************************)
(* SearchTypeOK, in three layers on top of SearchIInv: who has the mutexes, the bounds, *)
(* and the table.                                                           *)
(***************************************************************************)
LockStates == {"none", "new", "free", "thread", "caller", "abandoned", "closed"}

Numbers == /\ handle \in 0 .. MaxStarts /\ bp.hLock \in 0 .. MaxStarts
           /\ thr.n \in 0 .. MaxStarts /\ cl.l \in 0 .. MaxStarts
LockTypes == lock \in [1 .. MaxStarts -> LockStates]

\* Without a handle there is no thread that still runs.
NoThread == handle = 0 => thr.pc \in {"none", "exited", "killed"}

\* The thread has only its own mutex, and only where it takes it.
Holds(n) == thr.n = n /\ thr.pc \in {"names", "storing", "cleanup"}
Held == \A n \in 1 .. MaxStarts : lock[n] = "thread" => Holds(n)

Owners == Numbers /\ LockTypes /\ NoThread /\ Held

\* Every step of the search thread keeps Owners.
LEMMA ThreadKeepsOwners == SearchIInv /\ Owners /\ Thread => Owners'
<1> SUFFICES ASSUME SearchIInv, Owners, Thread PROVE Owners'
  OBVIOUS
<1> BpShape /\ ThrShape /\ ClShape
  BY Zenon DEF SearchIInv, Shape
<1> HIDE DEF SearchIInv
<1> USE BoundAssumption DEF Owners, Holds, LockStates, ThreadAt, ThreadGoto, BpShape, ThrShape, ClShape
<1>1. CASE ThreadInit
  <2>1. Numbers'
    BY <1>1 DEF Numbers, ThreadInit, Zeroed, NoEntry, mine
  <2>2. NoThread'
    BY <1>1, Zenon DEF Numbers, NoThread, ThreadInit, Zeroed, NoEntry, mine
  <2>3. LockTypes'
    BY <1>1, Zenon DEF Numbers, LockTypes, ThreadInit, Zeroed, NoEntry, mine
  <2>4. Held'
    BY <1>1, Zenon DEF Numbers, NoThread, LockTypes, Held, ThreadInit, Zeroed, NoEntry, mine
  <2> QED
    BY <2>1, <2>2, <2>3, <2>4, Zenon
<1>2. CASE ThreadPublish
  BY <1>2, Zenon DEF Owners, Numbers, NoThread, LockTypes, Held, ThreadPublish, mine
<1>3. CASE ThreadWait
  BY <1>3, Zenon DEF Owners, Numbers, NoThread, LockTypes, Held, ThreadWait
<1>4. CASE ThreadLocks
  <2>1. Numbers'
    BY <1>4, Zenon DEF Numbers, ThreadLocks, mine
  <2>2. NoThread'
    BY <1>4, Zenon DEF Numbers, NoThread, ThreadLocks, mine
  <2>3. LockTypes'
    BY <1>4, Zenon DEF Numbers, LockTypes, ThreadLocks, mine
  <2>4. Held'
    <3>1. \A n \in 1 .. MaxStarts : lock[n] # "thread"
      BY <1>4, Zenon DEF Held, ThreadLocks
    <3>2. CASE lock' = [lock EXCEPT ![thr.n] = "thread"] /\ ThreadGoto("names")
      BY <3>1, <3>2, Zenon DEF LockTypes, Held
    <3>3. CASE UNCHANGED lock
      BY <3>1, <3>3, Zenon DEF LockTypes, Held
    <3> QED
      BY <1>4, <3>2, <3>3, Zenon DEF ThreadLocks, mine
  <2> QED
    BY <2>1, <2>2, <2>3, <2>4, Zenon
<1>5. CASE ThreadNames
  BY <1>5, ZenonT(60) DEF Owners, Numbers, NoThread, LockTypes, Held, ThreadNames, mine
<1>6. CASE ThreadEnumerates
  BY <1>6, Zenon DEF Owners, Numbers, NoThread, LockTypes, Held, ThreadEnumerates
<1>7. CASE ThreadScans
  BY <1>7, Zenon DEF Owners, Numbers, NoThread, LockTypes, Held, ThreadScans
<1>8. CASE StoreLocks
  <2>1. Numbers'
    BY <1>8, Zenon DEF Numbers, StoreLocks, mine
  <2>2. NoThread'
    BY <1>8, Zenon DEF Numbers, NoThread, StoreLocks, mine
  <2>3. LockTypes'
    BY <1>8, ZenonT(60) DEF Numbers, LockTypes, StoreLocks, mine
  <2>4. Held'
    <3>1. \A n \in 1 .. MaxStarts : lock[n] # "thread"
      BY <1>8, Zenon DEF Held, StoreLocks
    <3>2. CASE lock' = [lock EXCEPT ![thr.n] = "thread"] /\ ThreadGoto("storing")
      BY <3>1, <3>2, Zenon DEF LockTypes, Held
    <3>3. CASE UNCHANGED lock
      BY <3>1, <3>3, Zenon DEF LockTypes, Held
    <3> QED
      BY <1>8, <3>2, <3>3, Zenon DEF StoreLocks, mine
  <2> QED
    BY <2>1, <2>2, <2>3, <2>4, Zenon
<1>9. CASE StoreProcess
  BY <1>9, Zenon DEF Owners, Numbers, NoThread, LockTypes, Held, StoreProcess, mine
<1>10. CASE PassEnds
  BY <1>10, Zenon DEF Owners, Numbers, NoThread, LockTypes, Held, PassEnds
<1>11. CASE ThreadLeaves
  <2>1. Numbers'
    BY <1>11 DEF Numbers, ThreadLeaves, ThreadExits, mine, NewThread
  <2>2. NoThread'
    BY <1>11, Zenon DEF Numbers, NoThread, ThreadLeaves, ThreadExits, mine, NewThread
  <2>3. LockTypes'
    BY <1>11, ZenonT(60) DEF Numbers, LockTypes, ThreadLeaves, ThreadExits, mine, NewThread
  <2>4. Held'
    <3>1. \A n \in 1 .. MaxStarts : lock[n] # "thread"
      BY <1>11, Zenon DEF Held, ThreadLeaves
    <3>2. CASE lock' = [lock EXCEPT ![thr.n] = "thread"] /\ ThreadGoto("cleanup")
      BY <3>1, <3>2, Zenon DEF LockTypes, Held
    <3>3. CASE lock' = [lock EXCEPT ![thr.n] = "closed"]
      BY <3>1, <3>3, Zenon DEF LockTypes, Held
    <3> QED
      BY <1>11, <3>2, <3>3, Zenon DEF ThreadLeaves, mine
  <2> QED
    BY <2>1, <2>2, <2>3, <2>4, Zenon
<1>12. CASE ThreadCleansUp
  <2>1. Numbers'
    BY <1>12 DEF Numbers, ThreadCleansUp, ThreadExits, mine, NewThread
  <2>2. NoThread'
    BY <1>12, Zenon DEF Numbers, NoThread, ThreadCleansUp, ThreadExits, mine, NewThread
  <2>3. LockTypes'
    BY <1>12, Zenon DEF Numbers, LockTypes, ThreadCleansUp, ThreadExits, mine, NewThread
  <2>4. Held'
    BY <1>12 DEF Numbers, NoThread, LockTypes, Held, ThreadCleansUp, ThreadExits, mine, NewThread
  <2> QED
    BY <2>1, <2>2, <2>3, <2>4, Zenon
<1> QED
  BY <1>1, <1>2, <1>3, <1>4, <1>5, <1>6, <1>7, <1>8, <1>9, <1>10, <1>11, <1>12, Zenon DEF Thread

\* Every step of a caller keeps Owners.
LEMMA CallerKeepsOwners == SearchIInv /\ Owners /\ Caller => Owners'
<1> SUFFICES ASSUME SearchIInv, Owners, Caller PROVE Owners'
  OBVIOUS
<1> BpShape /\ ThrShape /\ ClShape
  BY Zenon DEF SearchIInv, Shape
<1> HIDE DEF SearchIInv
<1> USE BoundAssumption DEF Owners, Holds, LockStates, ThreadAt, CallerAt, CallerGoto, Return, NoCall, NewThread,
        BpShape, ThrShape, ClShape
<1>1. CASE StartProcessSearch
  <2>1. Numbers'
    BY <1>1, StartsNat DEF Numbers, StartProcessSearch
  <2>2. NoThread'
    BY <1>1, StartsNat DEF Numbers, NoThread, StartProcessSearch
  <2>3. LockTypes'
    BY <1>1, StartsNat, Zenon DEF Numbers, LockTypes, StartProcessSearch
  <2>4. Held'
    BY <1>1, StartsNat, Zenon DEF Numbers, NoThread, LockTypes, Held, StartProcessSearch
  <2> QED
    BY <2>1, <2>2, <2>3, <2>4, Zenon
<1>2. CASE PollLock
  <2>1. Numbers'
    BY <1>2 DEF Numbers, PollLock, Terminate, mine
  <2>2. NoThread'
    BY <1>2 DEF Numbers, NoThread, PollLock, Terminate, mine
  <2>3. LockTypes'
    BY <1>2, Zenon DEF Numbers, LockTypes, PollLock, Terminate, mine
  <2>4. Held'
    BY <1>2, ZenonT(60) DEF Numbers, NoThread, LockTypes, Held, PollLock, Terminate, mine
  <2> QED
    BY <2>1, <2>2, <2>3, <2>4, Zenon
<1>3. CASE SetProcessSearch
  <2>1. Numbers'
    BY <1>3 DEF Numbers, SetProcessSearch
  <2>2. NoThread'
    BY <1>3, Zenon DEF Numbers, NoThread, SetProcessSearch
  <2>3. LockTypes'
    BY <1>3, Zenon DEF Numbers, LockTypes, SetProcessSearch
  <2>4. Held'
    BY <1>3, Zenon DEF Numbers, NoThread, LockTypes, Held, SetProcessSearch
  <2> QED
    BY <2>1, <2>2, <2>3, <2>4, Zenon
<1>4. CASE SetLocks
  <2>1. Numbers'
    BY <1>4, Zenon DEF Numbers, SetLocks, CallerLocks
  <2>2. NoThread'
    BY <1>4, Zenon DEF Numbers, NoThread, SetLocks, CallerLocks
  <2>3. LockTypes'
    BY <1>4, ZenonT(60) DEF Numbers, LockTypes, SetLocks, CallerLocks
  <2>4. Held'
    <3>1. UNCHANGED lock \/ lock' = [lock EXCEPT ![cl.l] = "caller"]
      BY <1>4, Zenon DEF SetLocks, CallerLocks
    <3>2. UNCHANGED thr
      BY <1>4, Zenon DEF SetLocks, CallerLocks
    <3> QED
      BY <3>1, <3>2, Zenon DEF LockTypes, Held
  <2> QED
    BY <2>1, <2>2, <2>3, <2>4, Zenon
<1>5. CASE SetNames
  BY <1>5, Zenon DEF Owners, Numbers, NoThread, LockTypes, Held, SetNames
<1>6. CASE SetReleases
  <2>1. Numbers'
    BY <1>6 DEF Numbers, SetReleases, Released
  <2>2. NoThread'
    BY <1>6, Zenon DEF Numbers, NoThread, SetReleases, Released
  <2>3. LockTypes'
    BY <1>6, Zenon DEF Numbers, LockTypes, SetReleases, Released
  <2>4. Held'
    BY <1>6, Zenon DEF Numbers, NoThread, LockTypes, Held, SetReleases, Released
  <2> QED
    BY <2>1, <2>2, <2>3, <2>4, Zenon
<1>7. CASE StopProcessSearch
  BY <1>7, Zenon DEF Owners, Numbers, NoThread, LockTypes, Held, StopProcessSearch
<1>8. CASE Deactivate
  BY <1>8, Zenon DEF Owners, Numbers, NoThread, LockTypes, Held, Deactivate
<1>9. CASE Stopped
  <2>1. Numbers'
    BY <1>9 DEF Numbers, Stopped, Terminate, mine
  <2>2. NoThread'
    BY <1>9 DEF Numbers, NoThread, Stopped, Terminate, mine
  <2>3. LockTypes'
    BY <1>9, Zenon DEF Numbers, LockTypes, Stopped, Terminate, mine
  <2>4. Held'
    BY <1>9, ZenonT(60) DEF Numbers, NoThread, LockTypes, Held, Stopped, Terminate, mine
  <2> QED
    BY <2>1, <2>2, <2>3, <2>4, Zenon
<1>10. CASE GetProcessSearch
  BY <1>10, Zenon DEF Owners, Numbers, NoThread, LockTypes, Held, GetProcessSearch
<1>11. CASE GetLocks
  <2>1. Numbers'
    BY <1>11 DEF Numbers, GetLocks, CallerLocks
  <2>2. NoThread'
    BY <1>11, Zenon DEF Numbers, NoThread, GetLocks, CallerLocks
  <2>3. LockTypes'
    BY <1>11, Zenon DEF Numbers, LockTypes, GetLocks, CallerLocks
  <2>4. Held'
    <3>1. UNCHANGED lock \/ lock' = [lock EXCEPT ![cl.l] = "caller"]
      BY <1>11, Zenon DEF GetLocks, CallerLocks
    <3>2. UNCHANGED thr
      BY <1>11, Zenon DEF GetLocks, CallerLocks
    <3> QED
      BY <3>1, <3>2, Zenon DEF LockTypes, Held
  <2> QED
    BY <2>1, <2>2, <2>3, <2>4, Zenon
<1>12. CASE GetWaits
  <2>1. Numbers'
    BY <1>12 DEF Numbers, GetWaits, Released
  <2>2. NoThread'
    BY <1>12, Zenon DEF Numbers, NoThread, GetWaits, Released
  <2>3. LockTypes'
    BY <1>12, Zenon DEF Numbers, LockTypes, GetWaits, Released
  <2>4. Held'
    BY <1>12, Zenon DEF Numbers, NoThread, LockTypes, Held, GetWaits, Released
  <2> QED
    BY <2>1, <2>2, <2>3, <2>4, Zenon
<1>13. CASE GetReports
  <2>1. Numbers'
    BY <1>13 DEF Numbers, GetReports, Released
  <2>2. NoThread'
    BY <1>13, Zenon DEF Numbers, NoThread, GetReports, Released
  <2>3. LockTypes'
    BY <1>13, Zenon DEF Numbers, LockTypes, GetReports, Released
  <2>4. Held'
    BY <1>13, Zenon DEF Numbers, NoThread, LockTypes, Held, GetReports, Released
  <2> QED
    BY <2>1, <2>2, <2>3, <2>4, Zenon
<1> QED
  BY <1>1, <1>2, <1>3, <1>4, <1>5, <1>6, <1>7, <1>8, <1>9, <1>10, <1>11, <1>12, <1>13, Zenon DEF Caller
\* The versions and names are of the settings made, and there is one more to
\* make while a caller is at it.
SetBounds ==
    /\ past.set <= MaxSets /\ bp.v0 <= past.set /\ thr.names <= MaxSets
    /\ cl.pc \in {"poll", "set", "set_wait", "set_locked"} => past.set < MaxSets

\* There is a process to be stored.
ListBounds == thr.i \in 1 .. NumProcs + 1 /\ (thr.pc \in {"store", "storing"} => thr.i <= NumProcs)

\* There is a pass to be counted.
PassBounds ==
    /\ bp.nPass <= MaxPasses /\ (Working => bp.nPass < MaxPasses)
    /\ thr.pc = "names" => bp.nPass < MaxPasses \/ bp.v0 # bp.v1

Bounds == SetBounds /\ ListBounds /\ PassBounds

\* Every step of the search thread keeps Bounds.
LEMMA ThreadKeepsBounds == SearchIInv /\ Bounds /\ Thread => Bounds'
<1> SUFFICES ASSUME SearchIInv, Bounds, Thread PROVE Bounds'
  OBVIOUS
<1> BpShape /\ ThrShape /\ ClShape /\ GShape /\ NamesOfLastSet
  BY Zenon DEF SearchIInv, Shape
<1> HIDE DEF SearchIInv
<1> USE BoundAssumption DEF Bounds, ThreadAt, CallerAt, ThreadGoto, CallerGoto, Return, NoCall, NewThread, NoNames,
        BpShape, ThrShape, ClShape
<1>1. CASE ThreadInit
  <2>1. SetBounds'
    BY <1>1 DEF SetBounds, GShape, NamesOfLastSet, ThreadInit, Zeroed, NoEntry, mine
  <2>2. ListBounds'
    BY <1>1, Zenon DEF ListBounds, ThreadInit, Zeroed, NoEntry, mine
  <2>3. PassBounds'
    BY <1>1 DEF PassBounds, Working, NamesOfLastSet, ThreadInit, Zeroed, NoEntry, mine
  <2> QED
    BY <2>1, <2>2, <2>3, Zenon
<1>2. CASE ThreadPublish
  <2>1. SetBounds'
    BY <1>2, Zenon DEF SetBounds, GShape, NamesOfLastSet, ThreadPublish, mine
  <2>2. ListBounds'
    BY <1>2, Zenon DEF ListBounds, ThreadPublish, mine
  <2>3. PassBounds'
    BY <1>2, Zenon DEF PassBounds, Working, NamesOfLastSet, ThreadPublish, mine
  <2> QED
    BY <2>1, <2>2, <2>3, Zenon
<1>3. CASE ThreadWait
  <2>1. SetBounds'
    BY <1>3, Zenon DEF SetBounds, GShape, NamesOfLastSet, ThreadWait
  <2>2. ListBounds'
    BY <1>3, Zenon DEF ListBounds, ThreadWait
  <2>3. PassBounds'
    BY <1>3, Zenon DEF PassBounds, Working, NamesOfLastSet, ThreadWait
  <2> QED
    BY <2>1, <2>2, <2>3, Zenon
<1>4. CASE ThreadLocks
  <2>1. SetBounds'
    BY <1>4, Zenon DEF SetBounds, GShape, NamesOfLastSet, ThreadLocks, mine
  <2>2. ListBounds'
    BY <1>4, Zenon DEF ListBounds, ThreadLocks, mine
  <2>3. PassBounds'
    BY <1>4, Zenon DEF PassBounds, Working, NamesOfLastSet, ThreadLocks, mine
  <2> QED
    BY <2>1, <2>2, <2>3, Zenon
<1>5. CASE ThreadNames
  <2>1. SetBounds'
    BY <1>5, Zenon DEF SetBounds, GShape, NamesOfLastSet, ThreadNames
  <2>2. ListBounds'
    BY <1>5, Zenon DEF ListBounds, ThreadNames
  <2>3. PassBounds'
    <3>1. CASE /\ bp' = [bp EXCEPT !.v1 = bp.v0, !.nPass = 0]
               /\ thr' = [thr EXCEPT !.pc = "enum", !.names = bp.names]
      BY <3>1, NamesCopied DEF PassBounds, Working
    <3>2. CASE UNCHANGED bp /\ (ThreadGoto("top") \/ ThreadGoto("out"))
      BY <3>2, Zenon DEF PassBounds, Working
    <3>3. CASE UNCHANGED bp /\ bp.v0 = bp.v1 /\ ThreadGoto("enum")
      BY <1>5, <3>3, Zenon DEF PassBounds, Working, ThreadNames
    <3> QED
      BY <1>5, <3>1, <3>2, <3>3, Zenon DEF ThreadNames
  <2> QED
    BY <2>1, <2>2, <2>3, Zenon
<1>6. CASE ThreadEnumerates
  <2>1. SetBounds'
    BY <1>6, Zenon DEF SetBounds, GShape, NamesOfLastSet, ThreadEnumerates
  <2>2. ListBounds'
    BY <1>6, Zenon DEF ListBounds, ThreadEnumerates
  <2>3. PassBounds'
    BY <1>6, Zenon DEF PassBounds, Working, NamesOfLastSet, ThreadEnumerates
  <2> QED
    BY <2>1, <2>2, <2>3, Zenon
<1>7. CASE ThreadScans
  <2>1. SetBounds'
    BY <1>7, Zenon DEF SetBounds, GShape, NamesOfLastSet, ThreadScans
  <2>2. ListBounds'
    BY <1>7 DEF ListBounds, ThreadScans
  <2>3. PassBounds'
    BY <1>7, Zenon DEF PassBounds, Working, NamesOfLastSet, ThreadScans
  <2> QED
    BY <2>1, <2>2, <2>3, Zenon
<1>8. CASE StoreLocks
  <2>1. SetBounds'
    BY <1>8, Zenon DEF SetBounds, GShape, NamesOfLastSet, StoreLocks
  <2>2. ListBounds'
    <3>1. CASE ThreadGoto("storing") \/ ThreadGoto("pass")
      BY <1>8, <3>1, Zenon DEF ListBounds, StoreLocks
    <3>2. CASE thr' = [thr EXCEPT !.pc = "scan", !.i = thr.i + 1]
      BY <1>8, <3>2 DEF ListBounds, StoreLocks
    <3> QED
      BY <1>8, <3>1, <3>2, Zenon DEF StoreLocks
  <2>3. PassBounds'
    BY <1>8, Zenon DEF PassBounds, Working, NamesOfLastSet, StoreLocks
  <2> QED
    BY <2>1, <2>2, <2>3, Zenon
<1>9. CASE StoreProcess
  <2>1. SetBounds'
    BY <1>9, Zenon DEF SetBounds, GShape, NamesOfLastSet, StoreProcess
  <2>2. ListBounds'
    BY <1>9 DEF ListBounds, StoreProcess
  <2>3. PassBounds'
    BY <1>9, Zenon DEF PassBounds, Working, NamesOfLastSet, StoreProcess
  <2> QED
    BY <2>1, <2>2, <2>3, Zenon
<1>10. CASE PassEnds
  <2>1. SetBounds'
    BY <1>10, Zenon DEF SetBounds, GShape, NamesOfLastSet, PassEnds
  <2>2. ListBounds'
    BY <1>10 DEF ListBounds, PassEnds
  <2>3. PassBounds'
    BY <1>10 DEF PassBounds, Working, NamesOfLastSet, PassEnds
  <2> QED
    BY <2>1, <2>2, <2>3, Zenon
<1>11. CASE ThreadLeaves
  <2>1. SetBounds'
    BY <1>11 DEF SetBounds, GShape, NamesOfLastSet, ThreadLeaves, ThreadExits, mine, NewThread
  <2>2. ListBounds'
    BY <1>11 DEF ListBounds, ThreadLeaves, ThreadExits, mine, NewThread
  <2>3. PassBounds'
    BY <1>11 DEF PassBounds, Working, NamesOfLastSet, ThreadLeaves, ThreadExits, mine, NewThread
  <2> QED
    BY <2>1, <2>2, <2>3, Zenon
<1>12. CASE ThreadCleansUp
  <2>1. SetBounds'
    BY <1>12 DEF SetBounds, GShape, NamesOfLastSet, ThreadCleansUp, ThreadExits, mine, NewThread
  <2>2. ListBounds'
    BY <1>12 DEF ListBounds, ThreadCleansUp, ThreadExits, mine, NewThread
  <2>3. PassBounds'
    BY <1>12, Zenon DEF PassBounds, Working, NamesOfLastSet, ThreadCleansUp, ThreadExits, mine, NewThread
  <2> QED
    BY <2>1, <2>2, <2>3, Zenon
<1> QED
  BY <1>1, <1>2, <1>3, <1>4, <1>5, <1>6, <1>7, <1>8, <1>9, <1>10, <1>11, <1>12, Zenon DEF Thread

\* Every step of a caller keeps Bounds.
LEMMA CallerKeepsBounds == SearchIInv /\ Bounds /\ Caller => Bounds'
<1> SUFFICES ASSUME SearchIInv, Bounds, Caller PROVE Bounds'
  OBVIOUS
<1> BpShape /\ ThrShape /\ ClShape /\ GShape /\ NamesOfLastSet
  BY Zenon DEF SearchIInv, Shape
<1> HIDE DEF SearchIInv
<1> USE BoundAssumption DEF Bounds, ThreadAt, CallerAt, ThreadGoto, CallerGoto, Return, NoCall, NewThread, NoNames,
        BpShape, ThrShape, ClShape
<1>1. CASE StartProcessSearch
  <2>1. SetBounds'
    BY <1>1 DEF SetBounds, GShape, NamesOfLastSet, StartProcessSearch
  <2>2. ListBounds'
    BY <1>1 DEF ListBounds, StartProcessSearch
  <2>3. PassBounds'
    BY <1>1 DEF PassBounds, Working, NamesOfLastSet, StartProcessSearch
  <2> QED
    BY <2>1, <2>2, <2>3, Zenon
<1>2. CASE PollLock
  <2>1. SetBounds'
    BY <1>2 DEF SetBounds, GShape, NamesOfLastSet, PollLock, Terminate, mine
  <2>2. ListBounds'
    BY <1>2 DEF ListBounds, PollLock, Terminate, mine
  <2>3. PassBounds'
    BY <1>2 DEF PassBounds, Working, NamesOfLastSet, PollLock, Terminate, mine
  <2> QED
    BY <2>1, <2>2, <2>3, Zenon
<1>3. CASE SetProcessSearch
  <2>1. SetBounds'
    BY <1>3, Zenon DEF SetBounds, GShape, NamesOfLastSet, SetProcessSearch
  <2>2. ListBounds'
    BY <1>3, Zenon DEF ListBounds, SetProcessSearch
  <2>3. PassBounds'
    BY <1>3, Zenon DEF PassBounds, Working, NamesOfLastSet, SetProcessSearch
  <2> QED
    BY <2>1, <2>2, <2>3, Zenon
<1>4. CASE SetLocks
  <2>1. SetBounds'
    BY <1>4, Zenon DEF SetBounds, GShape, NamesOfLastSet, SetLocks, CallerLocks
  <2>2. ListBounds'
    BY <1>4, Zenon DEF ListBounds, SetLocks, CallerLocks
  <2>3. PassBounds'
    BY <1>4, Zenon DEF PassBounds, Working, NamesOfLastSet, SetLocks, CallerLocks
  <2> QED
    BY <2>1, <2>2, <2>3, Zenon
<1>5. CASE SetNames
  <2>1. SetBounds'
    BY <1>5 DEF SetBounds, GShape, NamesOfLastSet, SetNames
  <2>2. ListBounds'
    BY <1>5, Zenon DEF ListBounds, SetNames
  <2>3. PassBounds'
    BY <1>5 DEF PassBounds, Working, NamesOfLastSet, SetNames
  <2> QED
    BY <2>1, <2>2, <2>3, Zenon
<1>6. CASE SetReleases
  <2>1. SetBounds'
    BY <1>6 DEF SetBounds, GShape, NamesOfLastSet, SetReleases
  <2>2. ListBounds'
    BY <1>6, Zenon DEF ListBounds, SetReleases
  <2>3. PassBounds'
    BY <1>6, Zenon DEF PassBounds, Working, NamesOfLastSet, SetReleases
  <2> QED
    BY <2>1, <2>2, <2>3, Zenon
<1>7. CASE StopProcessSearch
  <2>1. SetBounds'
    BY <1>7, Zenon DEF SetBounds, GShape, NamesOfLastSet, StopProcessSearch
  <2>2. ListBounds'
    BY <1>7, Zenon DEF ListBounds, StopProcessSearch
  <2>3. PassBounds'
    BY <1>7, Zenon DEF PassBounds, Working, NamesOfLastSet, StopProcessSearch
  <2> QED
    BY <2>1, <2>2, <2>3, Zenon
<1>8. CASE Deactivate
  <2>1. SetBounds'
    BY <1>8, Zenon DEF SetBounds, GShape, NamesOfLastSet, Deactivate
  <2>2. ListBounds'
    BY <1>8, Zenon DEF ListBounds, Deactivate
  <2>3. PassBounds'
    BY <1>8, Zenon DEF PassBounds, Working, NamesOfLastSet, Deactivate
  <2> QED
    BY <2>1, <2>2, <2>3, Zenon
<1>9. CASE Stopped
  <2>1. SetBounds'
    BY <1>9 DEF SetBounds, GShape, NamesOfLastSet, Stopped, Terminate, mine
  <2>2. ListBounds'
    BY <1>9 DEF ListBounds, Stopped, Terminate, mine
  <2>3. PassBounds'
    BY <1>9 DEF PassBounds, Working, NamesOfLastSet, Stopped, Terminate, mine
  <2> QED
    BY <2>1, <2>2, <2>3, Zenon
<1>10. CASE GetProcessSearch
  <2>1. SetBounds'
    BY <1>10, Zenon DEF SetBounds, GShape, NamesOfLastSet, GetProcessSearch
  <2>2. ListBounds'
    BY <1>10, Zenon DEF ListBounds, GetProcessSearch
  <2>3. PassBounds'
    BY <1>10, Zenon DEF PassBounds, Working, NamesOfLastSet, GetProcessSearch
  <2> QED
    BY <2>1, <2>2, <2>3, Zenon
<1>11. CASE GetLocks
  <2>1. SetBounds'
    BY <1>11 DEF SetBounds, GShape, NamesOfLastSet, GetLocks, CallerLocks
  <2>2. ListBounds'
    BY <1>11, Zenon DEF ListBounds, GetLocks, CallerLocks
  <2>3. PassBounds'
    BY <1>11, Zenon DEF PassBounds, Working, NamesOfLastSet, GetLocks, CallerLocks
  <2> QED
    BY <2>1, <2>2, <2>3, Zenon
<1>12. CASE GetWaits
  <2>1. SetBounds'
    BY <1>12 DEF SetBounds, GShape, NamesOfLastSet, GetWaits
  <2>2. ListBounds'
    BY <1>12, Zenon DEF ListBounds, GetWaits
  <2>3. PassBounds'
    BY <1>12, Zenon DEF PassBounds, Working, NamesOfLastSet, GetWaits
  <2> QED
    BY <2>1, <2>2, <2>3, Zenon
<1>13. CASE GetReports
  <2>1. SetBounds'
    BY <1>13, Zenon DEF SetBounds, GShape, NamesOfLastSet, GetReports
  <2>2. ListBounds'
    BY <1>13, Zenon DEF ListBounds, GetReports
  <2>3. PassBounds'
    BY <1>13, Zenon DEF PassBounds, Working, NamesOfLastSet, GetReports
  <2> QED
    BY <2>1, <2>2, <2>3, Zenon
<1> QED
  BY <1>1, <1>2, <1>3, <1>4, <1>5, <1>6, <1>7, <1>8, <1>9, <1>10, <1>11, <1>12, <1>13, Zenon DEF Caller
\* A set of numbers that is not empty has a first one.
LEMMA FirstIsIn ==
    ASSUME NEW S \in SUBSET Nat, S # {}
    PROVE  First(S) \in S /\ \A k \in S : First(S) <= k
<1> DEFINE R == OpToRel(<, Nat)
<1>1. \E j \in S : \A k \in S : ~(<<k, j>> \in R)
  <2> HIDE DEF R
  <2>1. IsWellFoundedOn(R, Nat)
    BY NatLessThanWellFounded, Zenon DEF R
  <2> QED
    BY <2>1, WFMin, Zenon
<1>2. \A j, k \in Nat : <<k, j>> \in R <=> k < j
  BY Zenon DEF OpToRel
<1> HIDE DEF R
<1>3. PICK j \in S : \A k \in S : ~(<<k, j>> \in R)
  BY <1>1, Zenon
<1>4. \A k \in S : j \in Nat /\ k \in Nat /\ ~(k < j)
  BY <1>2, <1>3, Zenon
<1>5. \A k \in S : j <= k
  BY <1>4
<1> QED
  BY <1>5, Zenon DEF First

\* The table is of the model's processes and passes, each process once.
Table ==
    /\ bp.table \in [Slots -> [pid : 0 .. NumProcs, seen : 0 .. MaxPasses]]
    /\ \A j, k \in Slots : bp.table[j].pid = bp.table[k].pid /\ j # k => bp.table[j].pid = 0

\* Storing a process keeps the table: the slot is the only one of the process,
\* or no slot is.
LEMMA StoreKeepsTable == SearchIInv /\ Bounds /\ Table /\ StoreProcess => Table'
<1> SUFFICES ASSUME SearchIInv, Bounds, Table, StoreProcess PROVE Table'
  OBVIOUS
<1> DEFINE s == SlotFor(Pruned, thr.i)
           e == [pid |-> thr.i, seen |-> bp.nPass]
<1>1. /\ thr.i \in 1 .. NumProcs /\ bp.nPass \in 0 .. MaxPasses
      /\ e \in [pid : 0 .. NumProcs, seen : 0 .. MaxPasses]
  BY BoundAssumption DEF SearchIInv, Shape, BpShape, ThrShape, Bounds, ListBounds, PassBounds, StoreProcess,
     ThreadAt
<1>2. bp'.table = [j \in Slots |-> IF j \in s THEN e ELSE Pruned[j]]
  BY Zenon DEF StoreProcess, SearchIInv, Shape, BpShape
<1>3. /\ Pruned \in [Slots -> [pid : 0 .. NumProcs, seen : 0 .. MaxPasses]]
      /\ \A j, k \in Slots : Pruned[j].pid = Pruned[k].pid /\ j # k => Pruned[j].pid = 0
  BY BoundAssumption DEF Table, Pruned, NoEntry
<1>4. \A j, k \in s : j = k
  BY Zenon DEF SlotFor
<1>5. \A j \in Slots \ s : Pruned[j].pid # thr.i
  <2>1. CASE \E j \in Slots : Pruned[j].pid = thr.i
    <3> DEFINE S == {j \in Slots : Pruned[j].pid = thr.i}
    <3>1. S \in SUBSET Nat /\ S # {} /\ s = {First(S)}
      BY <2>1, BoundAssumption DEF SlotFor, Slots
    <3>2. First(S) \in S
      <4> HIDE DEF S
      <4> QED
        BY <3>1, FirstIsIn, Zenon
    <3> QED
      BY <1>1, <1>3, <3>1, <3>2
  <2> QED
    BY <2>1, Zenon
<1> HIDE DEF s
<1>6. bp'.table \in [Slots -> [pid : 0 .. NumProcs, seen : 0 .. MaxPasses]]
  BY <1>1, <1>2, <1>3, Zenon
<1>7. ASSUME NEW j \in Slots, NEW k \in Slots, bp'.table[j].pid = bp'.table[k].pid, j # k PROVE bp'.table[j].pid = 0
  BY <1>1, <1>2, <1>3, <1>4, <1>5, <1>7
<1> QED
  BY <1>6, <1>7, Zenon DEF Table

\* Every step keeps the table.
LEMMA NextKeepsTable == SearchIInv /\ Bounds /\ Table /\ SearchNext => Table'
<1> SUFFICES ASSUME SearchIInv, Bounds, Table, SearchNext PROVE Table'
  OBVIOUS
<1>1. CASE ThreadInit
  <2>1. bp'.table = [j \in Slots |-> NoEntry]
    BY <1>1, Zenon DEF ThreadInit, Zeroed
  <2>2. NoEntry \in [pid : 0 .. NumProcs, seen : 0 .. MaxPasses] /\ NoEntry.pid = 0
    BY BoundAssumption, SMTT(30) DEF NoEntry
  <2> QED
    BY <2>1, <2>2, Zenon DEF Table
<1>2. ASSUME ~ThreadInit, ~StoreProcess PROVE bp'.table = bp.table
  BY <1>2, Zenon DEF SearchIInv, Shape, BpShape, SearchNext, Thread, Caller, ThreadPublish, ThreadWait,
     ThreadLocks, ThreadNames, ThreadEnumerates,
     ThreadScans, StoreLocks, PassEnds, ThreadLeaves, ThreadCleansUp, StartProcessSearch, PollLock, SetProcessSearch,
     SetLocks, CallerLocks, SetNames, SetReleases, StopProcessSearch, Deactivate, Stopped, GetProcessSearch, GetLocks,
     GetWaits, GetReports
<1>3. CASE bp'.table = bp.table
  BY <1>3, Zenon DEF Table
<1> QED
  BY <1>1, <1>2, <1>3, StoreKeepsTable, Zenon

TInv == SearchIInv /\ Owners /\ Bounds /\ Table

\* The layers hold before the first search.
LEMMA InitTInv == SearchInit => TInv
<1> SUFFICES ASSUME SearchInit PROVE TInv
  OBVIOUS
<1> USE BoundAssumption DEF SearchInit, Zeroed, NewThread, NoCall, NoEntry, NoNames
<1>1. Owners
  BY DEF Owners, Numbers, LockTypes, LockStates, NoThread, Held
<1>2. Bounds
  BY DEF Bounds, SetBounds, ListBounds, PassBounds, Working
<1>3. Table
  BY DEF Table
<1> QED
  BY SearchInitIInv, <1>1, <1>2, <1>3, Zenon DEF TInv

\* Every step keeps all of it.
LEMMA NextTInv == TInv /\ [SearchNext]_search_vars => TInv'
<1> SUFFICES ASSUME TInv, [SearchNext]_search_vars PROVE TInv'
  OBVIOUS
<1>1. CASE UNCHANGED search_vars
  <2> USE <1>1 DEF search_vars
  <2>1. SearchIInv'
    BY NextIInv, Zenon DEF TInv
  <2>2. Owners'
    BY Zenon DEF TInv, Owners, Numbers, LockTypes, NoThread, Held, Holds
  <2>3. Bounds' /\ Table'
    BY Zenon DEF TInv, Bounds, SetBounds, ListBounds, PassBounds, Working, Table
  <2> QED
    BY <2>1, <2>2, <2>3, Zenon DEF TInv
<1>2. CASE SearchNext
  BY <1>2, NextIInv, ThreadKeepsOwners, CallerKeepsOwners, ThreadKeepsBounds, CallerKeepsBounds,
     NextKeepsTable, Zenon
     DEF TInv, SearchNext
<1> QED
  BY <1>1, <1>2, Zenon

\* Whatever calls, terminations and timeouts come, blocking_process, the
\* mutexes, the thread and the caller keep their types, the counters stay in
\* their bounds, the search thread holds no mutex but its own and that only
\* where process.c takes it (process.c:441, 535, 712), and no process is in
\* the table twice.
THEOREM SearchTypeCorrect == SearchSpec => []SearchTypeOK
<1>1. TInv => SearchTypeOK
  <2> SUFFICES ASSUME TInv PROVE SearchTypeOK
    OBVIOUS
  <2> USE BoundAssumption DEF TInv, SearchIInv, Shape
  <2>1. bp \in [bActive : BOOLEAN, v0 : 0 .. MaxSets, v1 : 0 .. MaxSets, names : 0 .. MaxSets, hLock : 0 .. MaxStarts,
                hStart : {"null", "reset", "set"}, nPass : 0 .. MaxPasses,
                table : [Slots -> [pid : 0 .. NumProcs, seen : 0 .. MaxPasses]]]
    <3>1. /\ bp.v0 \in 0 .. MaxSets /\ bp.v1 \in 0 .. MaxSets /\ bp.names \in 0 .. MaxSets
          /\ bp.hLock \in 0 .. MaxStarts /\ bp.nPass \in 0 .. MaxPasses
      BY DEF BpShape, GShape, NamesOfLastSet, NoNames, Owners, Numbers, Bounds, SetBounds, PassBounds
    <3>2. bp.table \in [Slots -> [pid : 0 .. NumProcs, seen : 0 .. MaxPasses]]
      BY Zenon DEF Table
    <3> QED
      BY <3>1, <3>2, Zenon DEF BpShape
  <2>2. thr \in [pc : ThreadPcs, n : 0 .. MaxStarts, names : 0 .. MaxSets, i : 1 .. NumProcs + 1]
    BY DEF ThrShape, Owners, Numbers, Bounds, SetBounds, ListBounds
  <2>3. cl \in [pc : CallerPcs, l : 0 .. MaxStarts]
    BY Zenon DEF ClShape, Owners, Numbers
  <2>4. handle \in 0 .. MaxStarts /\ lock \in [1 .. MaxStarts -> LockStates]
    BY Zenon DEF Owners, Numbers, LockTypes
  <2>5. \A n \in 1 .. MaxStarts : lock[n] = "thread" => thr.n = n /\ thr.pc \in {"names", "storing", "cleanup"}
    BY Zenon DEF Owners, Held, Holds
  <2>6. \A j, k \in Slots : bp.table[j].pid = bp.table[k].pid /\ j # k => bp.table[j].pid = 0
    BY Zenon DEF Table
  <2> HIDE DEF TInv
  <2> QED
    BY <2>1, <2>2, <2>3, <2>4, <2>5, <2>6, Zenon DEF SearchTypeOK, LockStates
<1> QED
  BY InitTInv, NextTInv, <1>1, PTL DEF SearchSpec
-----------------------------------------------------------------------------
(***************************************************************************)
(* ReportIsRight: what the table keeps of the passes                        *)
(***************************************************************************)
\* Once a process has been stored in the first pass over the drive set last,
\* there is none of another drive in the table, and none will be stored.
OnlyOfThisDrive ==
    past.this.first => /\ \A j \in Slots : bp.table[j].pid \in past.this.ever \cup {0}
                       /\ Working => thr.names = past.set

\* Until the names are copied no pass over them is on its way or has ended.
NotYetCopied == bp.v0 # bp.v1 => thr.names # past.set /\ \A p \in Procs : past.this.hits[p] = 0

\* A caller may ask: it is neither setting another drive nor stopping.
Asking == handle # 0 /\ cl.pc \in {"idle", "set_release", "get", "get_locked"}
InTable(p, n) == \E j \in Slots : bp.table[j].pid = p /\ bp.table[j].seen >= n

\* But for the first pass, which drops all that it has stored before, what a
\* pass stores is in the table until the end of the next one.
Kept(p) ==
    /\ past.this.hits[p] >= 1 => bp.nPass >= 1
    /\ past.this.hits[p] >= 2 => bp.nPass >= 2
    /\ p \in past.this.stored /\ bp.nPass >= 1 => InTable(p, bp.nPass)
    /\ past.this.hits[p] >= 1 /\ bp.nPass >= 2 => InTable(p, bp.nPass - 1)
Searching == Asking /\ bp.v0 = bp.v1 /\ (bp.names # NoNames \/ bp.nPass >= 1 \/ Working)
HitsAreKept == Searching => \A p \in Procs : Kept(p)

Record == thr.names <= past.set /\ OnlyOfThisDrive /\ NotYetCopied /\ HitsAreKept

\* A step that neither sets nor copies names, stores no process and ends no pass
Quiet ==
    /\ past'.set = past.set /\ past'.this = past.this
    /\ bp'.v0 = bp.v0 /\ bp'.v1 = bp.v1 /\ bp'.nPass = bp.nPass /\ bp'.table = bp.table /\ bp'.names \in {bp.names, NoNames}
    /\ thr'.names = thr.names \/ (thr'.names = NoNames /\ ~Working')
    /\ Working' => Working \/ (bp.names # NoNames /\ thr.names = past.set)
    /\ Asking' => Asking

\* A quiet step keeps Record.
LEMMA QuietKeepsRecord == TInv /\ Record /\ Quiet => Record'
<1> SUFFICES ASSUME TInv, Record, Quiet PROVE Record'
  OBVIOUS
<1>1. /\ past.set \in Nat /\ thr.names \in Nat /\ bp.v0 \in Nat /\ bp.v1 \in Nat /\ bp.nPass \in Nat
      /\ bp.v1 <= bp.v0 /\ bp.v0 <= past.set
  BY Zenon DEF TInv, SearchIInv, Shape, BpShape, ThrShape, GShape, NamesOfLastSet, Bounds, SetBounds
<1>2. (thr.names <= past.set)'
  BY <1>1 DEF Record, Quiet, NoNames
<1>3. OnlyOfThisDrive'
  BY Zenon DEF Record, OnlyOfThisDrive, Quiet
<1>4. NotYetCopied'
  BY <1>1 DEF Record, NotYetCopied, Quiet, NoNames
<1>5. HitsAreKept'
  <2>1. ASSUME Searching' PROVE Searching
    BY <2>1, Zenon DEF Searching, Quiet
  <2>2. \A p \in Procs : Kept(p) => Kept(p)'
    BY Zenon DEF Kept, InTable, Quiet
  <2> QED
    BY <2>1, <2>2, Zenon DEF HitsAreKept, Record
<1> QED
  BY <1>2, <1>3, <1>4, <1>5, Zenon DEF Record

\* The steps of the search thread that are quiet
LEMMA QuietThread ==
    TInv /\ (\/ ThreadPublish \/ ThreadWait \/ ThreadLocks \/ ThreadEnumerates \/ ThreadScans \/ StoreLocks
             \/ ThreadLeaves \/ ThreadCleansUp) => Quiet
<1> SUFFICES ASSUME TInv, \/ ThreadPublish \/ ThreadWait \/ ThreadLocks \/ ThreadEnumerates \/ ThreadScans \/ StoreLocks
                          \/ ThreadLeaves \/ ThreadCleansUp
             PROVE  Quiet
  OBVIOUS
<1> BpShape /\ ThrShape
  BY Zenon DEF TInv, SearchIInv, Shape
<1> HIDE DEF TInv
<1> USE DEF ThreadPublish, ThreadWait, ThreadLocks, ThreadEnumerates, ThreadScans, StoreLocks, ThreadLeaves, ThreadCleansUp,
            ThreadExits, ThreadAt, ThreadGoto, NewThread
<1>1. past' = past /\ handle' = handle /\ cl' = cl
  OBVIOUS
<1>2. /\ bp'.v0 = bp.v0 /\ bp'.v1 = bp.v1 /\ bp'.nPass = bp.nPass /\ bp'.table = bp.table
      /\ bp'.names \in {bp.names, NoNames}
  BY Zenon DEF BpShape
<1>3. /\ thr'.names = thr.names \/ (thr'.names = NoNames /\ ~Working')
      /\ Working' => Working
  <2>1. CASE StoreLocks
    <3>1. CASE thr' = [thr EXCEPT !.pc = "scan", !.i = thr.i + 1]
      BY <2>1, <3>1, NextProcess, Zenon DEF Working
    <3>2. CASE ThreadGoto("storing") \/ ThreadGoto("pass")
      BY <2>1, <3>2, Zenon DEF ThrShape, Working
    <3> QED
      BY <2>1, <3>1, <3>2, Zenon
  <2>2. CASE ThreadLeaves \/ ThreadCleansUp
    BY <2>2 DEF ThrShape, Working
  <2>3. CASE ThreadPublish \/ ThreadWait \/ ThreadLocks \/ ThreadEnumerates
    BY <2>3, Zenon DEF ThrShape, Working
  <2>4. CASE ThreadScans
    BY <2>4, Zenon DEF ThrShape, Working
  <2> QED
    BY <2>1, <2>2, <2>3, <2>4, Zenon
<1> QED
  BY <1>1, <1>2, <1>3, Zenon DEF Quiet, Asking

\* The steps of a caller but for the setting are quiet.
LEMMA QuietCaller == TInv /\ Caller /\ ~SetNames => Quiet
<1> SUFFICES ASSUME TInv, Caller, ~SetNames PROVE Quiet
  OBVIOUS
<1> BpShape /\ ThrShape /\ ClShape /\ GShape
  BY Zenon DEF TInv, SearchIInv, Shape
<1> HIDE DEF TInv
<1> USE DEF Caller, StartProcessSearch, PollLock, SetProcessSearch, SetLocks, CallerLocks, SetReleases, StopProcessSearch,
     Deactivate, Stopped, Terminate, GetProcessSearch, GetLocks, GetWaits, GetReports, ThreadAt, CallerAt, CallerGoto, Return,
     NoCall, NewThread
<1>1. past'.set = past.set /\ past'.this = past.this
  BY Zenon DEF GShape
<1>2. /\ bp'.v0 = bp.v0 /\ bp'.v1 = bp.v1 /\ bp'.nPass = bp.nPass /\ bp'.table = bp.table
      /\ bp'.names = bp.names
  BY Zenon DEF BpShape
<1>3. thr' = thr \/ (thr'.names = NoNames /\ ~Working')
  BY DEF ThrShape, Working
<1>4. Asking' => Asking
  BY DEF Asking, ClShape
<1>5. Working' => Working
  BY DEF ThrShape, Working
<1> QED
  BY <1>1, <1>2, <1>3, <1>4, <1>5, Zenon DEF Quiet
\* Nothing is left in the table when a thread zeroes blocking_process.
LEMMA InitKeepsRecord == TInv /\ Record /\ ThreadInit => Record'
<1> SUFFICES ASSUME TInv, Record, ThreadInit PROVE Record'
  OBVIOUS
<1>1. thr'.names = thr.names /\ past' = past /\ ~Working'
  BY Zenon DEF TInv, SearchIInv, Shape, ThrShape, ThreadInit, ThreadGoto, Working
<1>2. /\ bp'.v0 = 0 /\ bp'.v1 = 0 /\ bp'.nPass = 0 /\ bp'.names = NoNames
      /\ \A j \in Slots : bp'.table[j].pid = 0
  BY Zenon DEF ThreadInit, Zeroed, NoEntry
<1> QED
  BY <1>1, <1>2 DEF Record, OnlyOfThisDrive, NotYetCopied, HitsAreKept, Searching

\* New names: nothing has been found of them.
LEMMA SettingKeepsRecord == TInv /\ Record /\ SetNames => Record'
<1> SUFFICES ASSUME TInv, Record, SetNames PROVE Record'
  OBVIOUS
<1>1. thr' = thr /\ past'.set = past.set + 1 /\ past'.this = NothingFound
  BY Zenon DEF TInv, SearchIInv, Shape, GShape, SetNames
<1>2. bp'.v0 = bp.v0 + 1 /\ bp'.v1 = bp.v1
  BY Zenon DEF TInv, SearchIInv, Shape, BpShape, SetNames
<1>3. thr.names \in Nat /\ past.set \in Nat /\ bp.v0 \in Nat /\ bp.v1 \in Nat /\ bp.v1 <= bp.v0
  BY Zenon DEF TInv, SearchIInv, Shape, ThrShape, GShape, BpShape, NamesOfLastSet
<1> QED
  BY <1>1, <1>2, <1>3 DEF Record, OnlyOfThisDrive, NotYetCopied, HitsAreKept, Searching, NothingFound

\* The copy of the names starts the count of the passes.
LEMMA CopyKeepsRecord == TInv /\ Record /\ ThreadNames => Record'
<1> SUFFICES ASSUME TInv, Record, ThreadNames PROVE Record'
  OBVIOUS
<1> BpShape /\ ThrShape /\ GShape /\ NamesOfLastSet /\ CopyIsCurrent
  BY Zenon DEF TInv, SearchIInv, Shape
<1>1. UNCHANGED <<handle, cl, past>>
  BY Zenon DEF ThreadNames
<1>2. CASE /\ bp.names # NoNames /\ bp.v0 # bp.v1
           /\ bp' = [bp EXCEPT !.v1 = bp.v0, !.nPass = 0]
           /\ thr' = [thr EXCEPT !.pc = "enum", !.names = bp.names]
  <2>1. /\ bp'.v1 = bp.v0 /\ bp'.v0 = bp.v0 /\ bp'.nPass = 0 /\ thr'.names = past.set /\ bp'.table = bp.table
    BY <1>2, NamesCopied, Zenon DEF NamesOfLastSet, BpShape
  <2>2. \A p \in Procs : past.this.hits[p] = 0
    BY <1>2, Zenon DEF Record, NotYetCopied
  <2>3. (thr.names <= past.set)' /\ OnlyOfThisDrive' /\ NotYetCopied'
    BY <1>1, <2>1 DEF Record, OnlyOfThisDrive, NotYetCopied, GShape
  <2>4. HitsAreKept'
    BY <1>1, <2>1, <2>2 DEF HitsAreKept, Kept
  <2> QED
    BY <2>3, <2>4, Zenon DEF Record
<1>3. CASE UNCHANGED bp /\ (ThreadGoto("top") \/ ThreadGoto("out"))
  <2>1. Quiet
    BY <1>1, <1>3, Zenon DEF Quiet, ThreadGoto, ThrShape, Working, Asking
  <2> QED
    BY <2>1, QuietKeepsRecord, Zenon
<1>4. CASE UNCHANGED bp /\ bp.names # NoNames /\ bp.v0 = bp.v1 /\ ThreadGoto("enum")
  <2>1. thr.names = past.set
    BY <1>4, Zenon DEF CopyIsCurrent, ThreadNames, ThreadAt
  <2>2. Quiet
    BY <1>1, <1>4, <2>1, Zenon DEF Quiet, ThreadGoto, ThrShape, Working, Asking
  <2> QED
    BY <2>2, QuietKeepsRecord, Zenon
<1> QED
  BY <1>2, <1>3, <1>4, Zenon DEF ThreadNames
\* uint32_t: one pass before the first is the last that there could be.
LEMMA PassBefore ==
    ASSUME NEW n \in 0 .. MaxPasses
    PROVE  (n - 1) % PassRange = IF n = 0 THEN PassRange - 1 ELSE n - 1
<1> USE BoundAssumption
<1>1. CASE n = 0
  BY <1>1, SMTT(30)
<1>2. CASE n # 0
  BY <1>2, SMTT(30)
<1> QED
  BY <1>1, <1>2, Zenon

\* The slot of a process holds that process or none, after the pruning.
LEMMA SlotIsOwn ==
    ASSUME TInv
    PROVE  \A j \in SlotFor(Pruned, thr.i) : j \in Slots /\ Pruned[j].pid \in {thr.i, 0}
<1> DEFINE S(p) == {j \in Slots : Pruned[j].pid = p}
<1>1. \A p : S(p) # {} => First(S(p)) \in S(p)
  <2> SUFFICES ASSUME NEW p, S(p) # {} PROVE First(S(p)) \in S(p)
    OBVIOUS
  <2>1. S(p) \in SUBSET Nat
    BY BoundAssumption DEF Slots
  <2> HIDE DEF S
  <2> QED
    BY <2>1, FirstIsIn, Zenon
<1>2. CASE S(thr.i) # {}
  BY <1>1, <1>2, Zenon DEF SlotFor
<1>3. CASE S(thr.i) = {} /\ S(0) # {}
  BY <1>1, <1>3, Zenon DEF SlotFor
<1>4. CASE S(thr.i) = {} /\ S(0) = {}
  BY <1>4, Zenon DEF SlotFor
<1> QED
  BY <1>2, <1>3, <1>4, Zenon

\* What is stored stays in the table, and the first store of a new drive drops
\* what was there.
LEMMA StoreKeepsRecord == TInv /\ Record /\ StoreProcess => Record'
<1> SUFFICES ASSUME TInv, Record, StoreProcess PROVE Record'
  OBVIOUS
<1> DEFINE s == SlotFor(Pruned, thr.i)
           e == [pid |-> thr.i, seen |-> bp.nPass]
<1> BpShape /\ ThrShape /\ GShape
  BY Zenon DEF TInv, SearchIInv, Shape
<1>1. UNCHANGED <<handle, cl>> /\ thr.pc = "storing"
  BY Zenon DEF StoreProcess, ThreadAt
<1>2. thr'.pc = "scan" /\ thr'.names = thr.names
  BY NextProcess, Zenon DEF StoreProcess
<1>3. /\ bp'.v0 = bp.v0 /\ bp'.v1 = bp.v1 /\ bp'.nPass = bp.nPass /\ bp'.names = bp.names
      /\ bp'.table = [j \in Slots |-> IF j \in s THEN e ELSE Pruned[j]]
  BY Zenon DEF StoreProcess, BpShape
<1>4. /\ past'.set = past.set /\ past'.this.hits = past.this.hits
      /\ past'.this.stored = IF s # {} THEN past.this.stored \cup {thr.i} ELSE past.this.stored
      /\ past'.this.ever = IF thr.names = past.set THEN past.this.ever \cup {thr.i} ELSE past.this.ever
      /\ past'.this.first <=> past.this.first \/ (thr.names = past.set /\ bp.nPass = 0)
  BY Zenon DEF StoreProcess, GShape
<1>5. /\ bp.nPass \in 0 .. MaxPasses /\ thr.i \in 1 .. NumProcs
      /\ bp.table \in [Slots -> [pid : 0 .. NumProcs, seen : 0 .. MaxPasses]]
  BY <1>1, BoundAssumption DEF TInv, Table, Bounds, ListBounds, PassBounds, BpShape
<1>6. \A j \in s : j \in Slots /\ Pruned[j].pid \in {thr.i, 0}
  BY SlotIsOwn, Zenon
<1> HIDE DEF s
<1>7. \A j \in Slots : Pruned[j] = bp.table[j] \/ Pruned[j] = NoEntry
  BY Zenon DEF Pruned
<1>8. \A j \in Slots : bp.nPass >= 1 /\ bp.table[j].seen >= bp.nPass - 1 => Pruned[j] = bp.table[j]
  BY <1>5, PassBefore DEF Pruned, SearchStale
<1>9. (thr.names <= past.set)' /\ NotYetCopied'
  BY <1>2, <1>3, <1>4 DEF Record, NotYetCopied
<1>10. OnlyOfThisDrive'
  <2> SUFFICES ASSUME past'.this.first
               PROVE  thr.names = past.set /\ \A j \in Slots : bp'.table[j].pid \in past'.this.ever \cup {0}
    BY <1>2, <1>4, Zenon DEF OnlyOfThisDrive
  <2>1. thr.names = past.set
    BY <1>1, <1>4, Zenon DEF Record, OnlyOfThisDrive, Working
  <2>2. \A j \in Slots : Pruned[j].pid \in past.this.ever \cup {0}
    <3>1. CASE past.this.first
      BY <3>1, <1>7 DEF Record, OnlyOfThisDrive, NoEntry
    <3>2. CASE bp.nPass = 0
      <4>1. \A j \in Slots : bp.table[j].seen < (bp.nPass - 1) % PassRange
        BY <3>2, <1>5, PassBefore, BoundAssumption, SMTT(30)
      <4> QED
        BY <4>1, Zenon DEF Pruned, SearchStale, NoEntry
    <3> QED
      BY <3>1, <3>2, <1>4, Zenon
  <2> QED
    BY <1>3, <1>4, <2>1, <2>2
<1>11. HitsAreKept'
  <2> SUFFICES ASSUME Searching', NEW p \in Procs PROVE Kept(p)'
    BY Zenon DEF HitsAreKept
  <2> DEFINE Now(n) == \E j \in Slots : bp'.table[j].pid = p /\ bp'.table[j].seen >= n
  <2>1. Kept(p)
    BY <1>1, <1>2, <1>3, Zenon DEF Record, HitsAreKept, Searching, Asking, Working
  <2>2. ASSUME NEW n \in Nat, n >= bp.nPass - 1, bp.nPass >= 1, InTable(p, n), n <= bp.nPass PROVE Now(n)
    <3>1. PICK j \in Slots : bp.table[j].pid = p /\ bp.table[j].seen >= n
      BY <2>2, Zenon DEF InTable
    <3>2. Pruned[j] = bp.table[j] /\ p # 0
      BY <1>5, <1>8, <2>2, <3>1, BoundAssumption DEF Procs
    <3>3. CASE j \in s
      BY <1>3, <1>5, <1>6, <2>2, <3>1, <3>2, <3>3 DEF InTable
    <3>4. CASE j \notin s
      BY <1>3, <3>1, <3>2, <3>4, Zenon DEF InTable
    <3> QED
      BY <3>3, <3>4, Zenon
  <2>3. ASSUME p = thr.i, s # {} PROVE Now(bp.nPass)
    BY <1>3, <1>5, <1>6, <2>3 DEF InTable
  <2>4. bp.nPass \in Nat /\ (bp.nPass >= 1 => bp.nPass - 1 \in Nat)
    BY <1>5, BoundAssumption
  <2> HIDE DEF Now
  <2>5. p \in past'.this.stored /\ bp.nPass >= 1 => Now(bp.nPass)
    BY <1>4, <2>1, <2>2, <2>3, <2>4 DEF Kept
  <2>6. past.this.hits[p] >= 1 /\ bp.nPass >= 2 => Now(bp.nPass - 1)
    BY <2>1, <2>2, <2>4 DEF Kept
  <2> QED
    BY <1>3, <1>4, <2>1, <2>5, <2>6, Zenon DEF Kept, InTable, Now
<1> QED
  BY <1>9, <1>10, <1>11, Zenon DEF Record
\* A pass that ends counts for the processes that it has stored.
LEMMA PassKeepsRecord == TInv /\ Record /\ PassEnds => Record'
<1> SUFFICES ASSUME TInv, Record, PassEnds PROVE Record'
  OBVIOUS
<1> BpShape /\ ThrShape /\ GShape /\ CopyIsCurrent /\ CutShortByStop
  BY Zenon DEF TInv, SearchIInv, Shape
<1>1. UNCHANGED <<handle, cl>> /\ thr.pc = "pass"
  BY Zenon DEF PassEnds, ThreadAt
<1>2. thr'.pc = "top" /\ thr'.names = thr.names
  BY Zenon DEF ThrShape, PassEnds
<1>3. /\ bp'.v0 = bp.v0 /\ bp'.v1 = bp.v1 /\ bp'.nPass = bp.nPass + 1 /\ bp'.names = bp.names
      /\ bp'.table = bp.table
  BY Zenon DEF PassEnds, BpShape
<1> DEFINE hits == [p \in Procs |-> IF p \in past.this.stored THEN Min2(past.this.hits[p] + 1) ELSE 0]
<1>4. /\ past'.set = past.set /\ past'.this.stored = {} /\ past'.this.ever = past.this.ever /\ past'.this.first = past.this.first
      /\ past'.this.hits = IF thr.names = past.set /\ thr.i > NumProcs THEN hits ELSE past.this.hits
  BY Zenon DEF PassEnds, GShape
<1>5. (thr.names <= past.set)' /\ OnlyOfThisDrive'
  BY <1>2, <1>3, <1>4, Zenon DEF Record, OnlyOfThisDrive, Working
<1>6. NotYetCopied'
  BY <1>2, <1>3, <1>4, Zenon DEF Record, NotYetCopied
<1>7. HitsAreKept'
  <2> SUFFICES ASSUME Searching', NEW p \in Procs PROVE Kept(p)'
    BY Zenon DEF HitsAreKept
  <2>1. Kept(p) /\ thr.names = past.set /\ thr.i > NumProcs
    BY <1>1, <1>2, <1>3, Zenon DEF Record, HitsAreKept, Searching, Asking, Working, CopyIsCurrent,
       CutShortByStop
  <2>2. past'.this.hits[p] = IF p \in past.this.stored THEN Min2(past.this.hits[p] + 1) ELSE 0
    BY <1>4, <2>1, Zenon
  <2>3. past.this.hits[p] \in Nat /\ bp.nPass \in Nat
    BY Zenon DEF GShape, BpShape
  <2>4. /\ past'.this.hits[p] >= 1 => bp'.nPass >= 1 /\ p \in past.this.stored
        /\ past'.this.hits[p] >= 2 => bp'.nPass >= 2
    BY <1>3, <2>1, <2>2, <2>3 DEF Kept, Min2
  <2>5. past'.this.hits[p] >= 1 /\ bp'.nPass >= 2 => InTable(p, bp.nPass)
    BY <1>3, <2>1, <2>3, <2>4 DEF Kept
  <2>6. InTable(p, bp.nPass) => InTable(p, bp.nPass - 1)'
    BY <1>3, <2>3 DEF InTable
  <2> QED
    BY <1>4, <2>4, <2>5, <2>6, Zenon DEF Kept
<1> QED
  BY <1>5, <1>6, <1>7, Zenon DEF Record

\* Every step keeps Record.
LEMMA NextRecord == TInv /\ Record /\ [SearchNext]_search_vars => Record'
<1> SUFFICES ASSUME TInv, Record, [SearchNext]_search_vars PROVE Record'
  OBVIOUS
<1>1. CASE UNCHANGED search_vars
  <2>1. Quiet
    BY <1>1, Zenon DEF search_vars, Quiet, Asking, Working
  <2> QED
    BY <2>1, QuietKeepsRecord, Zenon
<1>2. CASE Thread
  BY <1>2, QuietThread, QuietKeepsRecord, InitKeepsRecord, CopyKeepsRecord, StoreKeepsRecord,
     PassKeepsRecord, Zenon DEF Thread
<1>3. CASE Caller
  BY <1>3, QuietCaller, QuietKeepsRecord, SettingKeepsRecord, Zenon
<1> QED
  BY <1>1, <1>2, <1>3, Zenon DEF SearchNext

\* What GetProcessSearch reports is right, for any number of processes and any
\* size of the table: the entries of an earlier drive are gone as soon as the
\* first pass has stored a process (nPass - 1 is then UINT32_MAX and all that
\* is there is dropped), and a process stored in each of the last two passes
\* has not been dropped since (process.c: "e.seen < nPass - 1").
THEOREM ReportsAreRight == SearchSpec => ReportIsRight
<1>1. SearchInit => TInv /\ Record
  <2> SUFFICES ASSUME SearchInit PROVE Record
    BY InitTInv, Zenon
  <2> QED
    BY DEF SearchInit, Zeroed, NewThread, NoNames, NothingFound, Record, OnlyOfThisDrive, NotYetCopied,
       HitsAreKept, Searching,
           Asking, Working
<1>2. TInv /\ Record /\ [SearchNext]_search_vars =>
        [GetReports => \A mask \in {{"w", "x"}, {"r", "w", "x"}}, ended \in SUBSET Procs :
           /\ past.this.first => Report(mask, ended) \subseteq past.this.ever
           /\ \A p \in Procs \ ended :
                 past.this.hits[p] >= 2 /\ Access[p] \cap mask # {} => p \in Report(mask, ended)]_search_vars
  <2> SUFFICES ASSUME TInv, Record, GetReports,
                      NEW mask \in {{"w", "x"}, {"r", "w", "x"}}, NEW ended \in SUBSET Procs
               PROVE  /\ past.this.first => Report(mask, ended) \subseteq past.this.ever
                      /\ \A p \in Procs \ ended :
                            past.this.hits[p] >= 2 /\ Access[p] \cap mask # {} => p \in Report(mask, ended)
    OBVIOUS
  <2>1. past.this.first => Report(mask, ended) \subseteq past.this.ever
    BY Zenon DEF Record, OnlyOfThisDrive, Report
  <2>2. ASSUME NEW p \in Procs \ ended, past.this.hits[p] >= 2, Access[p] \cap mask # {} PROVE p \in Report(mask, ended)
    <3>1. past.this.hits[p] \in Nat /\ bp.nPass \in Nat /\ p # 0
      <4>1. past.this.hits \in [Procs -> Nat] /\ bp.nPass \in Nat
        BY Zenon DEF TInv, SearchIInv, Shape, GShape, BpShape
      <4>2. p \in Procs /\ p # 0
        BY BoundAssumption DEF Procs
      <4> QED
        BY <4>1, <4>2, Zenon
    <3>2. Searching
      BY <3>1 DEF TInv, SearchIInv, HandleWhileAsking, GetReports, NotReady, CallerAt, Searching, Asking
    <3>3. Kept(p)
      BY <3>2, Zenon DEF Record, HitsAreKept
    <3>4. InTable(p, bp.nPass - 1)
      BY <2>2, <3>1, <3>3 DEF Kept
    <3>5. PICK j \in Slots : bp.table[j].pid = p
      BY <3>4, Zenon DEF InTable
    <3>6. p \in {bp.table[k].pid : k \in Slots} \ {0}
      BY <3>1, <3>5, Zenon
    <3> QED
      BY <2>2, <3>6, Zenon DEF Report
  <2> QED
    BY <2>1, <2>2, Zenon
<1> QED
  BY <1>1, <1>2, NextTInv, NextRecord, PTL DEF SearchSpec, ReportIsRight
=============================================================================
