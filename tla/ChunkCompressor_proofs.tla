----------------------- MODULE ChunkCompressor_proofs ------------------------
(***************************************************************************)
(* wimlib's chunk compressors, for any number of worker threads, of         *)
(* messages and of chunks in a message: what each operation of the owner    *)
(* and of the workers keeps, where the pending chunks are, and what it does *)
(* to them.                                                                 *)
(***************************************************************************)
EXTENDS ChunkCompressor, Integers, TLAPS

K == shape[1]

In(s, m) == \E i \in 1 .. Len(s) : s[i] = m

Once(s) == \A i, j \in 1 .. Len(s) : s[i] = s[j] => i = j

-----------------------------------------------------------------------------
(***************************************************************************)
(* The invariant of the compressor's state: its types,                     *)
(***************************************************************************)
MsgOK(r, k) == /\ DOMAIN r = {"ub", "cb", "cs", "n", "complete"}
               /\ DOMAIN r.ub = 1 .. k /\ DOMAIN r.cb = 1 .. k /\ DOMAIN r.cs = 1 .. k
               /\ r.n \in 0 .. k /\ r.complete \in BOOLEAN

MsgsOK(ms, k) == /\ DOMAIN ms \subseteq Nat \ {0} /\ 1 \in DOMAIN ms
                 /\ \A m \in DOMAIN ms : MsgOK(ms[m], k)

Places == {"get", "asleep", "compress", "put", "exited"}

Busy == {"compress", "put"}

Types ==
    /\ kind \in {"none", "serial", "parallel"} /\ K \in Nat \ {0} /\ MsgsOK(msgs, K)
    /\ available_msgs \in Seq(DOMAIN msgs) /\ submitted_msgs \in Seq(DOMAIN msgs)
    /\ to_compress \in Seq(DOMAIN msgs) /\ compressed \in Seq(DOMAIN msgs)
    /\ next_submit_msg \in {NoMsg} \cup DOMAIN msgs /\ next_ready_msg \in {NoMsg} \cup DOMAIN msgs
    /\ next_chunk_idx \in Nat
    /\ thr \in [Threads -> [pc : Places, msg : {NoMsg} \cup DOMAIN msgs]]
    /\ \A t \in Threads : thr[t].pc \in Busy <=> thr[t].msg # NoMsg

\* that there is nothing in the queues if there are no threads,
Plain ==
    /\ kind # "parallel" => /\ K = 1 /\ DOMAIN msgs = {1}
                            /\ available_msgs = <<>> /\ submitted_msgs = <<>>
                            /\ \A t \in Threads : thr[t].pc = "exited"
    /\ kind = "none" => next_submit_msg = NoMsg /\ next_ready_msg = NoMsg

\* where a message is as the owner sees it, each in one of three places,
Owned ==
    kind = "parallel" =>
       /\ Once(available_msgs) /\ Once(submitted_msgs)
       /\ \A m \in DOMAIN msgs :
             /\ In(available_msgs, m) \/ next_submit_msg = m \/ In(submitted_msgs, m)
             /\ ~(In(available_msgs, m) /\ next_submit_msg = m)
             /\ ~(In(available_msgs, m) /\ In(submitted_msgs, m))
             /\ ~(next_submit_msg = m /\ In(submitted_msgs, m))

\* and where one is that was submitted and not received yet;
Underway(m) == In(submitted_msgs, m) /\ ~msgs[m].complete

AtWorker(m) == \E t \in Threads : thr[t].msg = m

Stages ==
    kind = "parallel" =>
       /\ Once(to_compress) /\ Once(compressed)
       /\ \A m \in DOMAIN msgs :
             /\ Underway(m) <=> In(to_compress, m) \/ AtWorker(m) \/ In(compressed, m)
             /\ ~(In(to_compress, m) /\ AtWorker(m))
             /\ ~(In(to_compress, m) /\ In(compressed, m))
             /\ ~(AtWorker(m) /\ In(compressed, m))
       /\ \A t, u \in Threads : thr[t].msg = thr[u].msg /\ thr[t].msg # NoMsg => t = u

\* which messages are full, and what the results are that come next.
Full ==
    kind = "parallel" =>
       /\ \A k \in 1 .. Len(submitted_msgs) :
             LET n == msgs[submitted_msgs[k]].n IN
             n # 0 /\ (k < Len(submitted_msgs) \/ next_submit_msg # NoMsg => n = K)
       /\ next_submit_msg # NoMsg => msgs[next_submit_msg].n < K

Packed(r, k) == \A i \in 1 .. k : r.cs[i] # 0 => r.cb[i] = r.ub[i]

Compressing(m) == \E t \in Threads : thr[t].msg = m /\ thr[t].pc = "compress"

Results ==
    /\ kind = "parallel" =>
          /\ \A m \in DOMAIN msgs : In(submitted_msgs, m) /\ ~In(to_compress, m) /\ ~Compressing(m)
                                       => Packed(msgs[m], K)
          /\ next_ready_msg # NoMsg => /\ submitted_msgs # <<>> /\ next_ready_msg = Head(submitted_msgs)
                                       /\ msgs[next_ready_msg].complete
                                       /\ next_chunk_idx \in 1 .. msgs[next_ready_msg].n
    /\ kind = "serial" =>
          /\ next_chunk_idx = 1
          /\ next_ready_msg # NoMsg => next_submit_msg = NoMsg /\ msgs[1].n = 1 /\ Packed(msgs[1], 1)

CInv == Types /\ Plain /\ Owned /\ Stages /\ Full /\ Results

-----------------------------------------------------------------------------
(***************************************************************************)
(* Queues                                                                  *)
(***************************************************************************)
\* message_queue_put, list_add_tail: what Append does to a queue
LEMMA AppendFacts ==
    ASSUME NEW S, NEW s \in Seq(S), NEW x \in S
    PROVE  /\ Append(s, x) \in Seq(S) /\ Append(s, x) # <<>> /\ Len(Append(s, x)) = Len(s) + 1
           /\ \A i \in 1 .. Len(s) : Append(s, x)[i] = s[i]
           /\ Append(s, x)[Len(s) + 1] = x
           /\ \A m : In(Append(s, x), m) <=> In(s, m) \/ m = x
           /\ Once(s) /\ ~In(s, x) => Once(Append(s, x))
<1>1. /\ Append(s, x) \in Seq(S) /\ Len(Append(s, x)) = Len(s) + 1 /\ Len(s) \in Nat
      /\ \A i \in 1 .. Len(s) : Append(s, x)[i] = s[i]
      /\ Append(s, x)[Len(s) + 1] = x
    OBVIOUS
<1>2. Append(s, x) # <<>>
    BY <1>1
<1>3. ASSUME NEW m PROVE In(Append(s, x), m) <=> In(s, m) \/ m = x
    BY <1>1 DEF In
<1>4. Once(s) /\ ~In(s, x) => Once(Append(s, x))
    BY <1>1 DEF In, Once
<1> QED BY <1>1, <1>2, <1>3, <1>4, Zenon

\* message_queue_get, list_del: what Tail does to one
LEMMA TailFacts ==
    ASSUME NEW S, NEW s \in Seq(S), s # <<>>
    PROVE  /\ Head(s) \in S /\ Head(s) = s[1] /\ In(s, Head(s)) /\ Len(s) \in Nat \ {0}
           /\ Tail(s) \in Seq(S) /\ Len(Tail(s)) = Len(s) - 1
           /\ \A i \in 1 .. Len(s) - 1 : Tail(s)[i] = s[i + 1]
           /\ Once(s) => Once(Tail(s)) /\ \A m : In(Tail(s), m) <=> In(s, m) /\ m # Head(s)
<1>1. /\ Head(s) \in S /\ Head(s) = s[1] /\ Len(s) \in Nat \ {0}
      /\ Tail(s) \in Seq(S) /\ Len(Tail(s)) = Len(s) - 1
      /\ \A i \in 1 .. Len(s) - 1 : Tail(s)[i] = s[i + 1]
    OBVIOUS
<1>2. In(s, Head(s))
    BY <1>1 DEF In
<1>3. ASSUME Once(s) PROVE Once(Tail(s))
    BY <1>1, <1>3 DEF Once
<1>4. ASSUME Once(s), NEW m PROVE In(Tail(s), m) <=> In(s, m) /\ m # Head(s)
  <2>1. ASSUME In(Tail(s), m) PROVE In(s, m) /\ m # Head(s)
    <3>1. PICK i \in 1 .. Len(s) - 1 : s[i + 1] = m
        BY <1>1, <2>1, Zenon DEF In
    <3>2. i + 1 \in 1 .. Len(s) /\ 1 \in 1 .. Len(s) /\ i + 1 # 1
        BY <1>1
    <3> QED BY <1>1, <1>4, <3>1, <3>2, Zenon DEF In, Once
  <2>2. ASSUME In(s, m), m # Head(s) PROVE In(Tail(s), m)
    <3>1. PICK i \in 1 .. Len(s) : s[i] = m
        BY <2>2, Zenon DEF In
    <3>2. i - 1 \in 1 .. Len(s) - 1 /\ (i - 1) + 1 = i
        BY <1>1, <2>2, <3>1
    <3> QED BY <1>1, <3>1, <3>2, Zenon DEF In
  <2> QED BY <2>1, <2>2, Zenon
<1> QED BY <1>1, <1>2, <1>3, <1>4, Zenon

\* An empty list or queue has no message in it.
LEMMA EmptyFacts ==
    /\ \A S : <<>> \in Seq(S)
    /\ \A m : ~In(<<>>, m)
    /\ Once(<<>>)
BY DEF In, Once

\* list_empty: a queue is empty when it has no elements.
LEMMA EmptyIffLen0 ==
    ASSUME NEW S, NEW s \in Seq(S)
    PROVE  s = <<>> <=> Len(s) = 0
OBVIOUS

\* An element of a queue is in it, and is one of the messages.
LEMMA RangeIn ==
    ASSUME NEW S, NEW s \in Seq(S), NEW i \in 1 .. Len(s)
    PROVE  s[i] \in S /\ In(s, s[i])
BY DEF In

-----------------------------------------------------------------------------
(***************************************************************************)
(* The workers                                                             *)
(***************************************************************************)
ThrOK == /\ thr \in [Threads -> [pc : Places, msg : {NoMsg} \cup DOMAIN msgs]]
         /\ \A t \in Threads : thr[t].pc \in Busy <=> thr[t].msg # NoMsg

\* What happens to threads that have no message leaves the messages where they
\* are: message_queue_get's wait, and the wake-ups.
SameWork == /\ thr' \in [Threads -> [pc : Places, msg : {NoMsg} \cup DOMAIN msgs]]
            /\ \A t \in Threads : /\ thr'[t].msg = thr[t].msg
                                  /\ thr'[t].pc \in Busy <=> thr[t].pc \in Busy
                                  /\ thr'[t].pc = "compress" <=> thr[t].pc = "compress"

\* Waking a worker leaves every worker the message it has.
LEMMA SameWorkFacts ==
    ASSUME Types, SameWork, DOMAIN msgs' = DOMAIN msgs
    PROVE  /\ ThrOK'
           /\ \A m : AtWorker(m)' <=> AtWorker(m)
           /\ \A m : Compressing(m)' <=> Compressing(m)
<1>1. ThrOK'
    BY Zenon DEF Types, SameWork, ThrOK
<1>2. ASSUME NEW m PROVE (AtWorker(m)' <=> AtWorker(m)) /\ (Compressing(m)' <=> Compressing(m))
    BY Zenon DEF SameWork, AtWorker, Compressing
<1> QED BY <1>1, <1>2, Zenon

\* A worker that is woken by message_queue_put, or goes to sleep, disturbs
\* nothing.
LEMMA RouseKeeps ==
    ASSUME CInv, kind = "parallel", SameWork, UNCHANGED <<kind, shape, msgs, owned, to_compress, compressed>>
    PROVE  CInv'
<1>1. /\ ThrOK'
      /\ \A m : AtWorker(m)' <=> AtWorker(m)
      /\ \A m : Compressing(m)' <=> Compressing(m)
    BY SameWorkFacts, Zenon DEF CInv
<1> USE DEF owned
<1>2. Types'
    BY <1>1, Zenon DEF CInv, Types, ThrOK, K
<1>3. Plain' /\ Owned' /\ Full'
    BY Zenon DEF CInv, Plain, Owned, Full, K
<1>4. Stages'
    BY <1>1, Zenon DEF CInv, Stages, Underway, SameWork
<1>5. Results'
    BY <1>1, Zenon DEF CInv, Results, K
<1> QED BY <1>2, <1>3, <1>4, <1>5, Zenon DEF CInv

\* message_queue_get: the head of the queue is the worker's.
LEMMA GetsKeeps ==
    ASSUME CInv, NEW t \in Threads, WorkerGets(t)
    PROVE  CInv'
<1>0. Types /\ thr[t].pc = "get" /\ thr[t].msg = NoMsg
    BY Zenon DEF CInv, Types, WorkerGets, Busy
<1>1. kind = "parallel"
    BY <1>0, Zenon DEF CInv, Plain
<1>2. CASE \E p \in {"exited", "asleep"} : thr' = [thr EXCEPT ![t].pc = p] /\ UNCHANGED to_compress
  <2>1. SameWork
      BY <1>0, <1>2 DEF Types, SameWork, Places, Busy
  <2> QED BY <1>1, <1>2, <2>1, RouseKeeps, Zenon DEF WorkerGets
<1>3. CASE ~terminating /\ to_compress # <<>>
  <2> DEFINE m == Head(to_compress)
  <2>1. /\ thr' = [thr EXCEPT ![t] = [pc |-> "compress", msg |-> m]]
        /\ to_compress' = Tail(to_compress)
        /\ UNCHANGED <<kind, shape, msgs, owned, compressed>>
      BY <1>3, Zenon DEF WorkerGets
  <2>2. /\ m \in DOMAIN msgs /\ In(to_compress, m) /\ Tail(to_compress) \in Seq(DOMAIN msgs)
        /\ Once(Tail(to_compress)) /\ \A x : In(Tail(to_compress), x) <=> In(to_compress, x) /\ x # m
      BY <1>0, <1>1, <1>3, TailFacts, Zenon DEF Types, CInv, Stages
  <2>3. m \in Nat \ {0}
      BY <2>2, <1>0, Zenon DEF Types, MsgsOK
  <2> HIDE DEF m
  <2>4. /\ \A u \in Threads : thr'[u] = IF u = t THEN [pc |-> "compress", msg |-> m] ELSE thr[u]
        /\ ThrOK'
      BY <1>0, <2>1, <2>2, <2>3, Zenon DEF Types, ThrOK, Places, Busy, NoMsg
  <2>5. \A x \in DOMAIN msgs : /\ AtWorker(x)' <=> AtWorker(x) \/ x = m
                               /\ Compressing(x)' <=> Compressing(x) \/ x = m
    <3>1. \A u \in Threads : /\ thr'[u].msg = IF u = t THEN m ELSE thr[u].msg
                             /\ thr'[u].pc = IF u = t THEN "compress" ELSE thr[u].pc
        BY <2>4
    <3>2. \A x \in DOMAIN msgs : x # NoMsg
        BY <1>0, Zenon DEF Types, MsgsOK, NoMsg
    <3>3. ASSUME NEW x \in DOMAIN msgs PROVE AtWorker(x)' <=> AtWorker(x) \/ x = m
        BY <1>0, <3>1, <3>2, Zenon DEF AtWorker
    <3>4. ASSUME NEW x \in DOMAIN msgs PROVE Compressing(x)' <=> Compressing(x) \/ x = m
        BY <1>0, <3>1, <3>2, Zenon DEF Compressing
    <3> QED BY <3>3, <3>4, Zenon
  <2>6. Types'
      BY <1>0, <2>1, <2>2, <2>4, Zenon DEF Types, ThrOK, K, owned
  <2>7. Plain' /\ Owned' /\ Full'
      BY <1>1, <2>1, Zenon DEF CInv, Plain, Owned, Full, K, owned
  <2>8. Stages'
    <3>1. ~AtWorker(m)
        BY <1>1, <2>2, Zenon DEF CInv, Stages
    <3>2. \A u, v \in Threads : thr'[u].msg = thr'[v].msg /\ thr'[u].msg # NoMsg => u = v
        BY <1>1, <2>4, <3>1 DEF CInv, Stages, AtWorker
    <3> QED BY <1>1, <2>1, <2>2, <2>5, <3>2, Zenon DEF CInv, Stages, Underway, owned
  <2>9. Results'
      BY <1>1, <2>1, <2>2, <2>5, Zenon DEF CInv, Results, K, owned
  <2> QED BY <2>6, <2>7, <2>8, <2>9, Zenon DEF CInv
<1> QED BY <1>2, <1>3, Zenon DEF WorkerGets

\* compress_chunks: the results are the message's own data.
LEMMA CompressesKeeps ==
    ASSUME CInv, NEW t \in Threads, WorkerCompresses(t)
    PROVE  /\ CInv'
           /\ UNCHANGED <<kind, shape, owned>> /\ DOMAIN msgs' = DOMAIN msgs
           /\ \A m \in DOMAIN msgs : msgs'[m].n = msgs[m].n /\ msgs'[m].ub = msgs[m].ub
<1> DEFINE m == thr[t].msg
<1>0. Types /\ thr[t].pc = "compress" /\ m \in DOMAIN msgs
    BY Zenon DEF CInv, Types, WorkerCompresses, Busy
<1>1. kind = "parallel"
    BY <1>0, Zenon DEF CInv, Plain
<1>2. PICK cs \in [Slots -> {0, 1}] :
         msgs' = [msgs EXCEPT ![m].cs = cs, ![m].cb = [i \in Slots |-> IF cs[i] # 0 THEN msgs[m].ub[i] ELSE <<>>]]
    BY Zenon DEF WorkerCompresses
<1> DEFINE cb == [i \in Slots |-> IF cs[i] # 0 THEN msgs[m].ub[i] ELSE <<>>]
           r == [[msgs[m] EXCEPT !.cs = cs] EXCEPT !.cb = cb]
<1>3. /\ DOMAIN msgs' = DOMAIN msgs
      /\ \A x \in DOMAIN msgs : msgs'[x] = IF x = m THEN r ELSE msgs[x]
    BY <1>0, <1>2, Zenon
<1>4. MsgOK(msgs[m], K) /\ MsgOK(r, K)
    BY <1>0, Zenon DEF Types, MsgsOK, MsgOK, Slots, K
<1>5. r.n = msgs[m].n /\ r.ub = msgs[m].ub /\ r.complete = msgs[m].complete /\ r.cs = cs /\ r.cb = cb
    BY <1>4, Zenon DEF MsgOK
<1>6. Packed(r, K)
    BY <1>5 DEF Packed, Slots, K
<1> HIDE DEF r, cb
<1>7. /\ UNCHANGED <<kind, shape, owned, to_compress, compressed>>
      /\ thr' = [thr EXCEPT ![t].pc = "put"]
    BY Zenon DEF WorkerCompresses, queues
<1>8. /\ \A u \in Threads : /\ thr'[u].msg = thr[u].msg
                            /\ thr'[u].pc = IF u = t THEN "put" ELSE thr[u].pc
      /\ ThrOK'
  <2>1. thr \in [Threads -> [pc : Places, msg : {NoMsg} \cup DOMAIN msgs]]
      BY <1>0, Zenon DEF Types
  <2>2. \A u \in Threads : /\ thr'[u].msg = thr[u].msg
                           /\ thr'[u].pc = IF u = t THEN "put" ELSE thr[u].pc
      BY <1>7, <2>1, Zenon
  <2>3. thr' \in [Threads -> [pc : Places, msg : {NoMsg} \cup DOMAIN msgs']]
      BY <1>3, <1>7, <2>1, Zenon DEF Places
  <2>4. \A u \in Threads : thr'[u].pc \in Busy <=> thr'[u].msg # NoMsg
      BY <1>0, <2>2, Zenon DEF Types, Busy
  <2> QED BY <2>2, <2>3, <2>4, Zenon DEF ThrOK
<1>9. \A x : AtWorker(x)' <=> AtWorker(x)
    BY <1>8, Zenon DEF AtWorker
<1>10. \A x \in DOMAIN msgs : x # m /\ Compressing(x) => Compressing(x)'
    BY <1>8, Zenon DEF Compressing
<1>11. Types'
    BY <1>0, <1>3, <1>4, <1>7, <1>8, Zenon DEF Types, MsgsOK, ThrOK, K, owned
<1>12. \A x \in DOMAIN msgs : /\ msgs'[x].n = msgs[x].n /\ msgs'[x].ub = msgs[x].ub
                              /\ msgs'[x].complete = msgs[x].complete
    BY <1>3, <1>5, Zenon
<1>13. \A k \in 1 .. Len(submitted_msgs) : submitted_msgs[k] \in DOMAIN msgs
    BY <1>0 DEF Types
<1>14. Plain' /\ Owned' /\ Full'
    BY <1>0, <1>1, <1>3, <1>7, <1>12, <1>13, Zenon DEF CInv, Plain, Owned, Full, K, owned, Types
<1>15. Stages'
    BY <1>1, <1>3, <1>7, <1>8, <1>9, <1>12 DEF CInv, Stages, Underway, owned
<1>16. Results'
  <2>1. ASSUME NEW x \in DOMAIN msgs', In(submitted_msgs', x), ~In(to_compress', x), ~Compressing(x)'
        PROVE  Packed(msgs'[x], K')
    <3>1. CASE x = m
        BY <1>3, <1>6, <1>7, <3>1, Zenon DEF K
    <3>2. CASE x # m
        BY <1>1, <1>3, <1>7, <1>10, <2>1, <3>2, Zenon DEF CInv, Results, K, owned
    <3> QED BY <3>1, <3>2, Zenon
  <2> QED BY <1>0, <1>1, <1>7, <1>12, <2>1, Zenon DEF CInv, Results, K, owned, Types
<1> QED BY <1>3, <1>7, <1>11, <1>12, <1>14, <1>15, <1>16, Zenon DEF CInv

\* message_queue_put: the message goes from the worker to the other queue.
LEMMA PutsKeeps ==
    ASSUME CInv, NEW t \in Threads, WorkerPuts(t)
    PROVE  CInv'
<1> DEFINE m == thr[t].msg
<1>0. Types /\ thr[t].pc = "put" /\ m \in DOMAIN msgs /\ m # NoMsg
    BY Zenon DEF CInv, Types, WorkerPuts, Busy
<1>1. kind = "parallel"
    BY <1>0, Zenon DEF CInv, Plain
<1>2. /\ compressed' = Append(compressed, m)
      /\ thr' = [thr EXCEPT ![t] = [pc |-> "get", msg |-> NoMsg]]
      /\ UNCHANGED <<kind, shape, msgs, owned, to_compress>>
    BY Zenon DEF WorkerPuts
<1>3. AtWorker(m) /\ ~In(compressed, m) /\ Once(compressed)
    BY <1>0, <1>1, Zenon DEF AtWorker, CInv, Stages
<1>4. /\ compressed' \in Seq(DOMAIN msgs) /\ Once(compressed')
      /\ \A x : In(compressed', x) <=> In(compressed, x) \/ x = m
  <2> HIDE DEF m
  <2> QED BY <1>0, <1>2, <1>3, AppendFacts DEF Types
<1>5. /\ \A u \in Threads : thr'[u] = IF u = t THEN [pc |-> "get", msg |-> NoMsg] ELSE thr[u]
      /\ ThrOK'
    BY <1>0, <1>2, Zenon DEF Types, ThrOK, Places, Busy, NoMsg
<1>6. \A u \in Threads : u # t => thr[u].msg # m
    BY <1>0, <1>1, Zenon DEF CInv, Stages
<1>7. \A x \in DOMAIN msgs : /\ AtWorker(x)' <=> AtWorker(x) /\ x # m
                             /\ Compressing(x)' <=> Compressing(x)
  <2>1. \A x \in DOMAIN msgs : x # NoMsg
      BY <1>0, Zenon DEF Types, MsgsOK, NoMsg
  <2> QED BY <1>0, <1>5, <1>6, <2>1 DEF AtWorker, Compressing
<1> HIDE DEF m
<1>8. Types'
    BY <1>0, <1>2, <1>4, <1>5, Zenon DEF Types, ThrOK, K, owned
<1>9. Plain' /\ Owned' /\ Full'
    BY <1>1, <1>2, Zenon DEF CInv, Plain, Owned, Full, K, owned
<1>10. Stages'
  <2>1. \A u, v \in Threads : thr'[u].msg = thr'[v].msg /\ thr'[u].msg # NoMsg => u = v
      BY <1>1, <1>5 DEF CInv, Stages
  <2> QED BY <1>0, <1>1, <1>2, <1>3, <1>4, <1>7, <2>1, Zenon DEF CInv, Stages, Underway, owned
<1>11. Results'
    BY <1>1, <1>2, <1>7, Zenon DEF CInv, Results, K, owned
<1> QED BY <1>8, <1>9, <1>10, <1>11, Zenon DEF CInv

-----------------------------------------------------------------------------
(***************************************************************************)
(* The owner                                                               *)
(***************************************************************************)
\* init_message: one message or none, no threads
LEMMA NoCompressorKeeps ==
    ASSUME NEW k \in {"none", "serial"}, NoCompressor(k)
    PROVE  CInv'
<1>1. MsgOK(EmptyMsg(<<1, 1>>), 1)
    BY DEF MsgOK, EmptyMsg
<1> DEFINE e == EmptyMsg(<<1, 1>>)
<1>2. MsgOK(e, 1)
    BY <1>1, Zenon
<1> HIDE DEF e
<1>3. msgs' = <<e>> /\ kind' = k /\ shape' = <<1, 1>>
    BY Zenon DEF NoCompressor, e
<1>4. DOMAIN msgs' = {1} /\ msgs'[1] = e /\ K' = 1
    BY <1>3 DEF K
<1>5. MsgsOK(msgs', K')
    BY <1>2, <1>4 DEF MsgsOK
<1>6. thr' \in [Threads -> [pc : Places, msg : {NoMsg}]] /\ \A t \in Threads : thr'[t] = [pc |-> "exited", msg |-> NoMsg]
    BY Zenon DEF NoCompressor, Idle, Places
<1>7. Types'
    BY <1>3, <1>4, <1>5, <1>6, EmptyFacts DEF NoCompressor, Types, NoMsg, Busy
<1>8. Plain'
    BY <1>4, <1>6 DEF NoCompressor, Plain
<1>9. Owned' /\ Stages' /\ Full' /\ Results'
    BY <1>3, Zenon DEF NoCompressor, Owned, Stages, Full, Results, NoMsg
<1> QED BY <1>7, <1>8, <1>9, Zenon DEF CInv

\* A number of messages times chunks per message is at least one.
LEMMA ProductPositive == \A a, b \in Nat \ {0} : a * b \in Nat \ {0}
OBVIOUS

\* new_parallel_chunk_compressor: every message is available.
LEMMA NewParallelKeeps ==
    ASSUME NEW s \in Shapes, new_parallel_chunk_compressor(s)
    PROVE  CInv'
<1> DEFINE N == num_threads * s[2]
           e == EmptyMsg(s)
<1>1. s[1] \in Nat \ {0} /\ s[2] \in Nat \ {0}
    BY ShapeAssumption, Zenon
<1>2. N \in Nat \ {0}
    BY <1>1, ThreadAssumption, ProductPositive, Zenon
<1>3. MsgOK(e, s[1])
    BY <1>1 DEF MsgOK, EmptyMsg
<1>4. msgs' = [m \in 1 .. N |-> e] /\ available_msgs' = [m \in 1 .. N |-> m] /\ kind' = "parallel" /\ shape' = s
    BY Zenon DEF new_parallel_chunk_compressor
<1> HIDE DEF N, e
<1>5. MsgsOK(msgs', K') /\ DOMAIN msgs' = 1 .. N
    BY <1>1, <1>2, <1>3, <1>4 DEF MsgsOK, K
<1>6. available_msgs' \in Seq(1 .. N) /\ Len(available_msgs') = N /\ Once(available_msgs')
      /\ \A m \in 1 .. N : In(available_msgs', m)
    BY <1>2, <1>4 DEF In, Once
<1>7. /\ submitted_msgs' = <<>> /\ next_submit_msg' = NoMsg /\ next_ready_msg' = NoMsg /\ next_chunk_idx' = 1
      /\ to_compress' = <<>> /\ compressed' = <<>>
      /\ thr' = [t \in Threads |-> [pc |-> "get", msg |-> NoMsg]]
    BY Zenon DEF new_parallel_chunk_compressor
<1>8. Types'
  <2>1. thr' \in [Threads -> [pc : Places, msg : {NoMsg} \cup DOMAIN msgs']]
        /\ \A t \in Threads : thr'[t].pc = "get" /\ thr'[t].msg = NoMsg
      BY <1>7, Zenon DEF Places
  <2>2. K' \in Nat \ {0}
      BY <1>1, <1>4, Zenon DEF K
  <2> QED BY <1>4, <1>5, <1>6, <1>7, <2>1, <2>2, EmptyFacts, Zenon DEF Types, NoMsg, Busy
<1>9. Plain'
    BY <1>4, Zenon DEF Plain
<1>10. \A m \in 1 .. N : m # NoMsg
    BY <1>2 DEF NoMsg
<1>11. Owned'
    BY <1>5, <1>6, <1>7, <1>10, EmptyFacts, Zenon DEF Owned
<1>12. Stages'
    BY <1>5, <1>7, <1>10, EmptyFacts, Zenon DEF Stages, Underway, AtWorker
<1>13. Full' /\ Results'
    BY <1>4, <1>7, EmptyFacts DEF Full, Results
<1> QED BY <1>8, <1>9, <1>11, <1>12, <1>13, Zenon DEF CInv

\* message_queue_terminate
LEMMA TerminateKeeps ==
    ASSUME CInv, kind = "parallel", Terminate
    PROVE  CInv'
<1>1. SameWork
    BY Zenon DEF CInv, Types, Terminate, SameWork, Places, Busy
<1> QED BY <1>1, RouseKeeps, Zenon DEF Terminate

\* The pthread_cond_signal of message_queue_put takes no worker its message.
LEMMA WakeOneIsSameWork ==
    ASSUME Types, WakeOne(thr)
    PROVE  SameWork
<1>1. CASE thr' = thr
    BY <1>1, Zenon DEF Types, SameWork
<1>2. CASE \E t \in Threads : thr[t].pc = "asleep" /\ thr' = [thr EXCEPT ![t].pc = "get"]
    BY <1>2 DEF Types, SameWork, Places, Busy
<1> QED BY <1>1, <1>2, Zenon DEF WakeOne

\* A message may differ from what it was in the buffer that is being filled.
FillOf(ms) ==
    /\ MsgsOK(ms, K) /\ DOMAIN ms = DOMAIN msgs
    /\ \A m \in DOMAIN msgs : m # next_submit_msg => ms[m] = msgs[m]
    /\ ms[next_submit_msg].n = msgs[next_submit_msg].n
    /\ ms[next_submit_msg].complete = msgs[next_submit_msg].complete
    /\ \A i \in 1 .. K : i # Slot => ms[next_submit_msg].ub[i] = msgs[next_submit_msg].ub[i]

\* submit_compression_msg: the message goes from the owner to the first queue,
\* and its chunks with it.
LEMMA SubmitKeeps ==
    ASSUME CInv, kind = "parallel", next_submit_msg # NoMsg,
           NEW ms, MsgsOK(ms, K), DOMAIN ms = DOMAIN msgs,
           \A m \in DOMAIN msgs : m # next_submit_msg => ms[m] = msgs[m],
           ms[next_submit_msg].n # 0,
           submit_compression_msg(ms),
           UNCHANGED <<kind, shape, available_msgs, next_ready_msg, next_chunk_idx, compressed>>
    PROVE  /\ CInv' /\ DOMAIN msgs' = DOMAIN msgs
           /\ \A m \in DOMAIN msgs : m # next_submit_msg => msgs'[m] = msgs[m]
           /\ msgs'[next_submit_msg].n = ms[next_submit_msg].n
           /\ msgs'[next_submit_msg].ub = ms[next_submit_msg].ub
<1> DEFINE m == next_submit_msg
           r == [ms[m] EXCEPT !.complete = FALSE]
<1>0. Types /\ m \in DOMAIN msgs /\ m \in Nat \ {0}
    BY Zenon DEF CInv, Types, MsgsOK
<1>1. MsgOK(r, K) /\ r.n = ms[m].n /\ r.ub = ms[m].ub /\ r.complete = FALSE
    BY <1>0, Zenon DEF MsgsOK, MsgOK
<1>2. /\ msgs' = [ms EXCEPT ![m].complete = FALSE]
      /\ submitted_msgs' = Append(submitted_msgs, m)
      /\ to_compress' = Append(to_compress, m)
      /\ next_submit_msg' = NoMsg
      /\ WakeOne(thr)
    BY Zenon DEF submit_compression_msg
<1>3. DOMAIN msgs' = DOMAIN msgs /\ \A x \in DOMAIN msgs : msgs'[x] = IF x = m THEN r ELSE msgs[x]
    BY <1>0, <1>2, Zenon
<1> HIDE DEF r
<1>4. SameWork
    BY <1>0, <1>2, WakeOneIsSameWork, Zenon
<1>5. /\ ThrOK'
      /\ \A x : AtWorker(x)' <=> AtWorker(x)
      /\ \A x : Compressing(x)' <=> Compressing(x)
    BY <1>0, <1>3, <1>4, SameWorkFacts, Zenon
<1>6. ~In(available_msgs, m) /\ ~In(submitted_msgs, m) /\ Once(submitted_msgs)
    BY <1>0, Zenon DEF CInv, Owned
<1>7. ~In(to_compress, m) /\ ~AtWorker(m) /\ ~In(compressed, m) /\ Once(to_compress)
    BY <1>0, <1>6, Zenon DEF CInv, Stages, Underway
<1>8. /\ submitted_msgs' \in Seq(DOMAIN msgs) /\ Once(submitted_msgs') /\ submitted_msgs' # <<>>
      /\ Len(submitted_msgs') = Len(submitted_msgs) + 1 /\ submitted_msgs'[Len(submitted_msgs) + 1] = m
      /\ \A i \in 1 .. Len(submitted_msgs) : submitted_msgs'[i] = submitted_msgs[i]
      /\ \A x : In(submitted_msgs', x) <=> In(submitted_msgs, x) \/ x = m
  <2> HIDE DEF m
  <2>1. submitted_msgs \in Seq(DOMAIN msgs) /\ m \in DOMAIN msgs
      BY <1>0, Zenon DEF Types
  <2> DEFINE q == Append(submitted_msgs, m)
  <2>2. /\ q \in Seq(DOMAIN msgs) /\ q # <<>> /\ Len(q) = Len(submitted_msgs) + 1
        /\ \A i \in 1 .. Len(submitted_msgs) : q[i] = submitted_msgs[i]
        /\ q[Len(submitted_msgs) + 1] = m
        /\ \A x : In(q, x) <=> In(submitted_msgs, x) \/ x = m
        /\ Once(submitted_msgs) /\ ~In(submitted_msgs, m) => Once(q)
      BY <2>1, AppendFacts, Zenon
  <2> HIDE DEF q
  <2>3. submitted_msgs' = q
      BY <1>2, Zenon DEF q
  <2> QED BY <1>6, <2>2, <2>3, Zenon
<1>9. /\ to_compress' \in Seq(DOMAIN msgs) /\ Once(to_compress')
      /\ \A x : In(to_compress', x) <=> In(to_compress, x) \/ x = m
  <2> HIDE DEF m
  <2> QED BY <1>0, <1>2, <1>7, AppendFacts DEF Types
<1>10. Len(submitted_msgs) \in Nat /\ \A i \in 1 .. Len(submitted_msgs) : submitted_msgs[i] \in DOMAIN msgs /\ submitted_msgs[i] # m
    BY <1>0, <1>6 DEF Types, In
<1>11. Types'
    BY <1>0, <1>1, <1>2, <1>3, <1>5, <1>8, <1>9, Zenon DEF Types, MsgsOK, ThrOK, K
<1>12. Plain'
    BY Zenon DEF Plain
<1>13. Owned'
  <2>1. \A x \in DOMAIN msgs : x # NoMsg
      BY <1>0, Zenon DEF Types, MsgsOK, NoMsg
  <2> QED BY <1>2, <1>3, <1>6, <1>8, <2>1, Zenon DEF CInv, Owned
<1>14. Stages'
  <2>1. \A x \in DOMAIN msgs : Underway(x)' <=> Underway(x) \/ x = m
      BY <1>1, <1>3, <1>6, <1>8, Zenon DEF Underway
  <2>2. \A t, u \in Threads : thr'[t].msg = thr'[u].msg /\ thr'[t].msg # NoMsg => t = u
      BY <1>4, Zenon DEF SameWork, CInv, Stages
  <2> QED BY <1>3, <1>5, <1>7, <1>9, <2>1, <2>2, Zenon DEF CInv, Stages
<1>15. Full'
  <2>1. ASSUME NEW i \in 1 .. Len(submitted_msgs') 
        PROVE  /\ msgs'[submitted_msgs'[i]].n # 0
               /\ i < Len(submitted_msgs') => msgs'[submitted_msgs'[i]].n = K
    <3>1. CASE i = Len(submitted_msgs) + 1
        BY <1>0, <1>1, <1>3, <1>8, <1>10, <3>1
    <3>2. CASE i \in 1 .. Len(submitted_msgs)
        BY <1>3, <1>8, <1>10, <3>2 DEF CInv, Full
    <3> QED BY <1>8, <1>10, <3>1, <3>2
  <2> QED BY <1>2, <2>1, Zenon DEF Full, K
<1>16. Results'
  <2>1. ASSUME next_ready_msg # NoMsg
        PROVE  /\ next_ready_msg = Head(submitted_msgs') /\ next_ready_msg # m
               /\ next_ready_msg \in DOMAIN msgs
               /\ msgs[next_ready_msg].complete /\ next_chunk_idx \in 1 .. msgs[next_ready_msg].n
    <3>1. /\ submitted_msgs # <<>> /\ next_ready_msg = Head(submitted_msgs)
          /\ msgs[next_ready_msg].complete /\ next_chunk_idx \in 1 .. msgs[next_ready_msg].n
        BY <2>1, Zenon DEF CInv, Results
    <3>2. Head(submitted_msgs) = submitted_msgs[1] /\ 1 \in 1 .. Len(submitted_msgs)
        BY <1>0, <3>1, TailFacts DEF Types
    <3>3. Head(submitted_msgs') = submitted_msgs'[1]
        BY <1>8, TailFacts, Zenon
    <3> QED BY <1>8, <1>10, <3>1, <3>2, <3>3, Zenon
  <2>2. \A x \in DOMAIN msgs : In(submitted_msgs', x) /\ ~In(to_compress', x) /\ ~Compressing(x)'
                                  => Packed(msgs'[x], K)
      BY <1>3, <1>5, <1>8, <1>9, Zenon DEF CInv, Results
  <2> QED BY <1>3, <1>8, <2>1, <2>2, Zenon DEF Results, K
<1> QED BY <1>0, <1>1, <1>3, <1>11, <1>12, <1>13, <1>14, <1>15, <1>16, Zenon DEF CInv

\* Filling a buffer touches no message but the one being prepared.
LEMMA FillKeeps ==
    ASSUME CInv, kind # "none", next_submit_msg # NoMsg, FillOf(msgs'),
           UNCHANGED <<kind, shape, owned, to_compress, compressed, thr>>
    PROVE  CInv'
<1> USE DEF owned
<1>0. Types /\ next_submit_msg \in DOMAIN msgs
    BY Zenon DEF CInv, Types
<1>1. /\ MsgsOK(msgs', K) /\ DOMAIN msgs' = DOMAIN msgs
      /\ \A m \in DOMAIN msgs : m # next_submit_msg => msgs'[m] = msgs[m]
      /\ \A m \in DOMAIN msgs : msgs'[m].n = msgs[m].n /\ msgs'[m].complete = msgs[m].complete
    BY Zenon DEF FillOf
<1>2. Types'
    BY <1>0, <1>1, Zenon DEF Types, K
<1>3. Plain' /\ Owned'
    BY <1>1, Zenon DEF CInv, Plain, Owned, K
<1>4. \A m : AtWorker(m)' = AtWorker(m) /\ Compressing(m)' = Compressing(m)
    BY Zenon DEF AtWorker, Compressing
<1>5. Stages'
    BY <1>1, <1>4, Zenon DEF CInv, Stages, Underway
<1>6. \A k \in 1 .. Len(submitted_msgs) : submitted_msgs[k] \in DOMAIN msgs
    BY <1>0 DEF Types
<1>7. Full'
    BY <1>0, <1>1, <1>6, Zenon DEF CInv, Full, K
<1>8. Results'
  <2>1. CASE kind = "parallel"
    <3>1. ~In(submitted_msgs, next_submit_msg)
        BY <1>0, <2>1, Zenon DEF CInv, Owned
    <3>2. next_ready_msg # NoMsg => next_ready_msg \in DOMAIN msgs
        BY <1>0, Zenon DEF Types
    <3> QED BY <1>1, <1>4, <2>1, <3>1, <3>2, Zenon DEF CInv, Results, K
  <2>2. CASE kind = "serial"
      BY <2>2, Zenon DEF CInv, Results
  <2> QED BY <1>0, <2>1, <2>2, Zenon DEF Types
<1> QED BY <1>2, <1>3, <1>5, <1>7, <1>8, Zenon DEF CInv

\* parallel_chunk_compressor_get_chunk_buffer while every submitted message is
\* full: a message that is available becomes the one being prepared, empty.
LEMMA TakeAvailableKeeps ==
    ASSUME CInv, kind = "parallel", next_submit_msg = NoMsg, available_msgs # <<>>,
           submitted_msgs # <<>> => msgs[submitted_msgs[Len(submitted_msgs)]].n = K,
           get_chunk_buffer
    PROVE  /\ CInv' /\ DOMAIN msgs' = DOMAIN msgs
           /\ next_submit_msg' \in DOMAIN msgs /\ ~In(submitted_msgs, next_submit_msg')
           /\ next_submit_msg' # NoMsg /\ msgs'[next_submit_msg'].n = 0
           /\ \A m \in DOMAIN msgs : m # next_submit_msg' => msgs'[m] = msgs[m]
           /\ UNCHANGED <<kind, shape, submitted_msgs, next_ready_msg, next_chunk_idx>>
<1> DEFINE m == Head(available_msgs)
           r == [msgs[m] EXCEPT !.n = 0]
<1>0. Types /\ m \in DOMAIN msgs /\ m # NoMsg /\ K \in Nat \ {0}
    BY TailFacts, Zenon DEF CInv, Types, MsgsOK, NoMsg
<1>1. /\ next_submit_msg' = m /\ available_msgs' = Tail(available_msgs)
      /\ msgs' = [msgs EXCEPT ![m].n = 0]
      /\ UNCHANGED <<kind, shape, submitted_msgs, next_ready_msg, next_chunk_idx, queues, thr>>
    BY Zenon DEF get_chunk_buffer
<1>2. MsgOK(r, K) /\ r.n = 0 /\ r.ub = msgs[m].ub /\ r.complete = msgs[m].complete
  <2> HIDE DEF m
  <2>1. MsgOK(msgs[m], K)
      BY <1>0, Zenon DEF Types, MsgsOK
  <2> QED BY <1>0, <2>1 DEF MsgOK
<1>3. DOMAIN msgs' = DOMAIN msgs /\ \A x \in DOMAIN msgs : msgs'[x] = IF x = m THEN r ELSE msgs[x]
    BY <1>0, <1>1, Zenon
<1> HIDE DEF r
<1>4. /\ available_msgs' \in Seq(DOMAIN msgs) /\ In(available_msgs, m) /\ Once(available_msgs')
      /\ \A x : In(available_msgs', x) <=> In(available_msgs, x) /\ x # m
    BY <1>0, <1>1, TailFacts, Zenon DEF Types, CInv, Owned
<1> HIDE DEF m
<1>5. ~In(submitted_msgs, m)
    BY <1>0, <1>4, Zenon DEF CInv, Owned
<1>6. Types'
    BY <1>0, <1>1, <1>2, <1>3, <1>4, Zenon DEF Types, MsgsOK, K, queues
<1>7. Plain' /\ Owned'
  <2>1. Plain'
      BY <1>1, Zenon DEF Plain
  <2>2. \A x \in DOMAIN msgs : x # NoMsg
      BY <1>0, Zenon DEF Types, MsgsOK, NoMsg
  <2>3. Owned'
      BY <1>1, <1>3, <1>4, <1>5, <2>2, Zenon DEF CInv, Owned
  <2> QED BY <2>1, <2>3, Zenon
<1>8. \A x : /\ AtWorker(x)' = AtWorker(x) /\ Compressing(x)' = Compressing(x)
             /\ In(to_compress', x) = In(to_compress, x)
             /\ In(compressed', x) = In(compressed, x)
    BY <1>1, Zenon DEF AtWorker, Compressing, queues
<1>9. Stages'
  <2>1. \A x \in DOMAIN msgs : Underway(x)' <=> Underway(x)
      BY <1>1, <1>2, <1>3, Zenon DEF Underway
  <2> QED BY <1>1, <1>3, <1>8, <2>1, Zenon DEF CInv, Stages, queues
<1>10. \A k \in 1 .. Len(submitted_msgs) : submitted_msgs[k] \in DOMAIN msgs /\ submitted_msgs[k] # m
    BY <1>0, <1>5, RangeIn DEF Types
<1>11. Full'
  <2>1. ASSUME NEW k \in 1 .. Len(submitted_msgs) PROVE msgs[submitted_msgs[k]].n # 0 /\ msgs[submitted_msgs[k]].n = K
    <3>1. Len(submitted_msgs) \in Nat /\ submitted_msgs # <<>>
        BY <1>0 DEF Types
    <3>2. CASE k = Len(submitted_msgs)
        BY <1>0, <3>1, <3>2, Zenon
    <3>3. CASE k < Len(submitted_msgs)
        BY <1>0, <3>3, Zenon DEF CInv, Full
    <3> QED BY <3>1, <3>2, <3>3
  <2> QED BY <1>0, <1>1, <1>2, <1>3, <1>10, <2>1 DEF Full, K
<1>12. Results'
  <2>1. next_ready_msg # NoMsg => next_ready_msg \in DOMAIN msgs /\ next_ready_msg # m
    <3>1. next_ready_msg # NoMsg => submitted_msgs # <<>> /\ next_ready_msg = Head(submitted_msgs)
        BY Zenon DEF CInv, Results
    <3> QED BY <1>0, <1>5, <3>1, TailFacts DEF Types
  <2> QED BY <1>1, <1>3, <1>5, <1>8, <2>1, Zenon DEF CInv, Results, K
<1> QED BY <1>0, <1>1, <1>2, <1>3, <1>5, <1>6, <1>7, <1>9, <1>11, <1>12, Zenon DEF CInv

\* serial_chunk_compressor_signal_chunk_filled: the one buffer is compressed.
LEMMA SerialSignalKeeps ==
    ASSUME CInv, kind = "serial", next_submit_msg # NoMsg, NEW ms, FillOf(ms), signal_chunk_filled(ms),
           UNCHANGED <<kind, shape, available_msgs, next_chunk_idx, compressed>>
    PROVE  CInv' /\ next_ready_msg' = 1 /\ next_submit_msg' = NoMsg
<1>0. Types /\ DOMAIN msgs = {1} /\ K = 1 /\ next_submit_msg = 1 /\ MsgsOK(ms, 1) /\ DOMAIN ms = {1}
    BY DEF CInv, Types, Plain, FillOf
<1>1. PICK cs \in Csizes(ms[1].ub[1]) :
         msgs' = [ms EXCEPT ![1].cs[1] = cs, ![1].cb[1] = IF cs # 0 THEN ms[1].ub[1] ELSE <<>>, ![1].n = 1]
    BY Zenon DEF signal_chunk_filled
<1>2. /\ next_ready_msg' = 1 /\ next_submit_msg' = NoMsg
      /\ UNCHANGED <<submitted_msgs, to_compress, thr>>
    BY Zenon DEF signal_chunk_filled
<1> DEFINE cb == [ms[1].cb EXCEPT ![1] = IF cs # 0 THEN ms[1].ub[1] ELSE <<>>]
           zs == [ms[1].cs EXCEPT ![1] = cs]
           r == [[[ms[1] EXCEPT !.cs = zs] EXCEPT !.cb = cb] EXCEPT !.n = 1]
<1>3. MsgOK(ms[1], 1)
    BY <1>0, Zenon DEF MsgsOK
<1>4. DOMAIN msgs' = {1} /\ msgs'[1] = r
    BY <1>0, <1>1, <1>3, Zenon DEF MsgOK
<1>5. DOMAIN cb = 1 .. 1 /\ DOMAIN zs = 1 .. 1 /\ zs[1] = cs /\ (cs # 0 => cb[1] = ms[1].ub[1])
    BY <1>3 DEF MsgOK
<1> HIDE DEF cb, zs
<1>6. MsgOK(r, 1) /\ r.n = 1 /\ r.ub = ms[1].ub /\ r.cs = zs /\ r.cb = cb
    BY <1>3, <1>5 DEF MsgOK
<1>7. Packed(r, 1)
    BY <1>5, <1>6 DEF Packed
<1> HIDE DEF r
<1>8. Types'
    BY <1>0, <1>2, <1>4, <1>6, Zenon DEF Types, MsgsOK, NoMsg, K
<1>9. Plain' /\ Owned' /\ Stages' /\ Full'
    BY <1>0, <1>2, <1>4, Zenon DEF CInv, Plain, Owned, Stages, Full, K
<1>10. Results'
    BY <1>2, <1>4, <1>6, <1>7, Zenon DEF CInv, Results
<1> QED BY <1>2, <1>8, <1>9, <1>10, Zenon DEF CInv

\* parallel_chunk_compressor_signal_chunk_filled: one more chunk, in a message
\* that stays or, when it is full, is submitted.
Handed ==
    LET m == next_submit_msg IN
    /\ DOMAIN msgs' = DOMAIN msgs
    /\ \A x \in DOMAIN msgs : x # m => msgs'[x] = msgs[x]
    /\ msgs'[m].n = msgs[m].n + 1
    /\ \A i \in 1 .. K : i # msgs[m].n + 1 => msgs'[m].ub[i] = msgs[m].ub[i]
    /\ \/ submitted_msgs' = submitted_msgs /\ next_submit_msg' = m
       \/ submitted_msgs' = Append(submitted_msgs, m) /\ next_submit_msg' = NoMsg /\ msgs'[m].n = K

\* signal_chunk_filled in the parallel compressor: one chunk more in the
\* message, which is submitted when it is full.
LEMMA SignalKeeps ==
    ASSUME CInv, kind = "parallel", next_submit_msg # NoMsg, NEW ms, FillOf(ms), signal_chunk_filled(ms),
           UNCHANGED <<kind, shape, available_msgs, next_chunk_idx, compressed>>
    PROVE  CInv' /\ Handed /\ next_ready_msg' = next_ready_msg
<1> DEFINE m == next_submit_msg
           r == [ms[m] EXCEPT !.n = @ + 1]
           filled == [ms EXCEPT ![m].n = @ + 1]
<1>0. /\ Types /\ m \in DOMAIN msgs /\ K \in Nat \ {0} /\ msgs[m].n \in Nat /\ msgs[m].n < K
      /\ MsgsOK(ms, K) /\ DOMAIN ms = DOMAIN msgs /\ ms[m].n = msgs[m].n
    BY DEF CInv, Types, MsgsOK, MsgOK, Full, FillOf
<1>1. MsgOK(r, K) /\ r.n = msgs[m].n + 1 /\ r.ub = ms[m].ub /\ r.complete = ms[m].complete
    BY <1>0 DEF MsgsOK, MsgOK
<1>2. DOMAIN filled = DOMAIN msgs /\ \A x \in DOMAIN msgs : filled[x] = IF x = m THEN r ELSE msgs[x]
    BY <1>0, Zenon DEF FillOf
<1>3. MsgsOK(filled, K)
    BY <1>0, <1>1, <1>2, Zenon DEF MsgsOK, Types
<1>4. /\ UNCHANGED next_ready_msg
      /\ IF filled[m].n = shape[1] THEN submit_compression_msg(filled)
         ELSE msgs' = filled /\ UNCHANGED <<submitted_msgs, to_compress, next_submit_msg, thr>>
    BY Zenon DEF signal_chunk_filled
<1>5. \A i \in 1 .. K : i # msgs[m].n + 1 => r.ub[i] = msgs[m].ub[i]
    BY <1>1, Zenon DEF FillOf, Slot
<1> HIDE DEF r, filled
<1>6. CASE r.n = K
  <2>1. submit_compression_msg(filled)
      BY <1>0, <1>2, <1>4, <1>6, Zenon DEF K
  <2>2. filled[m].n = K /\ filled[m].n # 0 /\ \A x \in DOMAIN msgs : x # m => filled[x] = msgs[x]
      BY <1>0, <1>2, <1>6, Zenon
  <2>3. /\ CInv' /\ DOMAIN msgs' = DOMAIN msgs
        /\ \A x \in DOMAIN msgs : x # m => msgs'[x] = msgs[x]
        /\ msgs'[m].n = filled[m].n /\ msgs'[m].ub = filled[m].ub
      BY <1>2, <1>3, <1>4, <2>1, <2>2, SubmitKeeps, Zenon
  <2>4. submitted_msgs' = Append(submitted_msgs, m) /\ next_submit_msg' = NoMsg
      BY <2>1, Zenon DEF submit_compression_msg
  <2> QED BY <1>0, <1>1, <1>2, <1>4, <1>5, <1>6, <2>3, <2>4 DEF Handed
<1>7. CASE r.n # K
  <2>1. msgs' = filled /\ UNCHANGED <<submitted_msgs, to_compress, next_submit_msg, thr>>
      BY <1>0, <1>2, <1>4, <1>7, Zenon DEF K
  <2>2. Handed
      BY <1>0, <1>1, <1>2, <1>5, <2>1, Zenon DEF Handed
  <2>3. Types'
      BY <1>0, <1>2, <1>3, <1>4, <2>1, Zenon DEF Types, K
  <2>4. Plain' /\ Owned'
      BY <1>2, <2>1, Zenon DEF CInv, Plain, Owned
  <2>5. \A x : AtWorker(x)' = AtWorker(x) /\ Compressing(x)' = Compressing(x)
      BY <2>1, Zenon DEF AtWorker, Compressing
  <2>6. ~In(submitted_msgs, m)
      BY <1>0, Zenon DEF CInv, Owned
  <2>7. Stages'
      BY <1>2, <2>1, <2>5, <2>6, Zenon DEF CInv, Stages, Underway
  <2>8. \A k \in 1 .. Len(submitted_msgs) : submitted_msgs[k] \in DOMAIN msgs /\ submitted_msgs[k] # m
      BY <1>0, <2>6, RangeIn DEF Types
  <2>9. Full'
      BY <1>0, <1>1, <1>2, <1>7, <2>1, <2>8 DEF CInv, Full, K
  <2>10. Results'
    <3>1. next_ready_msg # NoMsg => next_ready_msg \in DOMAIN msgs /\ next_ready_msg # m
      <4>1. next_ready_msg # NoMsg => submitted_msgs # <<>> /\ next_ready_msg = Head(submitted_msgs)
          BY Zenon DEF CInv, Results
      <4> QED BY <1>0, <2>6, <4>1, TailFacts DEF Types
    <3> QED BY <1>2, <1>4, <2>1, <2>5, <2>6, <3>1, Zenon DEF CInv, Results, K
  <2> QED BY <1>4, <2>2, <2>3, <2>4, <2>7, <2>9, <2>10, Zenon DEF CInv
<1> QED BY <1>6, <1>7, Zenon

\* A message of the queue is complete, whichever it is.
LEMMA ReceiveKeeps ==
    ASSUME CInv, ReceiveMessage
    PROVE  /\ CInv' /\ UNCHANGED <<kind, shape, owned>> /\ DOMAIN msgs' = DOMAIN msgs
           /\ \A m \in DOMAIN msgs : msgs'[m].n = msgs[m].n /\ msgs'[m].ub = msgs[m].ub
<1> USE DEF owned
<1>0. /\ Types /\ kind = "parallel" /\ next_ready_msg = NoMsg
      /\ UNCHANGED <<kind, shape, owned, to_compress, thr>>
    BY Zenon DEF CInv, ReceiveMessage, Receiving
<1>1. \A x : AtWorker(x)' = AtWorker(x) /\ Compressing(x)' = Compressing(x)
    BY <1>0, Zenon DEF AtWorker, Compressing
<1>2. CASE compressed = <<>>
  <2>1. UNCHANGED <<msgs, compressed>>
      BY <1>2, Zenon DEF ReceiveMessage
  <2>2. Types' /\ Plain' /\ Owned' /\ Full'
      BY <1>0, <2>1, Zenon DEF CInv, Types, Plain, Owned, Full, K
  <2>3. Stages' /\ Results'
      BY <1>0, <1>1, <2>1, Zenon DEF CInv, Stages, Results, Underway, K
  <2> QED BY <1>0, <2>1, <2>2, <2>3, Zenon DEF CInv
<1>3. CASE compressed # <<>>
  <2> DEFINE m == Head(compressed)
             r == [msgs[m] EXCEPT !.complete = TRUE]
  <2>1. msgs' = [msgs EXCEPT ![m].complete = TRUE] /\ compressed' = Tail(compressed)
      BY <1>3, Zenon DEF ReceiveMessage
  <2>2. /\ m \in DOMAIN msgs /\ In(compressed, m) /\ compressed' \in Seq(DOMAIN msgs) /\ Once(compressed')
        /\ \A x : In(compressed', x) <=> In(compressed, x) /\ x # m
      BY <1>0, <1>3, <2>1, TailFacts, Zenon DEF Types, CInv, Stages
  <2>3. DOMAIN msgs' = DOMAIN msgs /\ \A x \in DOMAIN msgs : msgs'[x] = IF x = m THEN r ELSE msgs[x]
      BY <2>1, <2>2, Zenon
  <2> HIDE DEF m
  <2>4. /\ MsgOK(r, K) /\ r.n = msgs[m].n /\ r.ub = msgs[m].ub /\ r.cs = msgs[m].cs /\ r.cb = msgs[m].cb
        /\ r.complete = TRUE
    <3>1. MsgOK(msgs[m], K)
        BY <1>0, <2>2, Zenon DEF Types, MsgsOK
    <3> QED BY <3>1, Zenon DEF MsgOK
  <2> HIDE DEF r
  <2>5. Types'
      BY <1>0, <2>2, <2>3, <2>4, Zenon DEF Types, MsgsOK, K
  <2>6. \A x \in DOMAIN msgs : /\ msgs'[x].n = msgs[x].n /\ msgs'[x].ub = msgs[x].ub
                               /\ msgs'[x].cs = msgs[x].cs /\ msgs'[x].cb = msgs[x].cb
                               /\ msgs'[x].complete = (msgs[x].complete \/ x = m)
    <3>1. \A x \in DOMAIN msgs : msgs[x].complete \in BOOLEAN
        BY <1>0, Zenon DEF Types, MsgsOK, MsgOK
    <3> QED BY <2>3, <2>4, <3>1, Zenon
  <2>7. Plain' /\ Owned'
      BY <1>0, <2>3, Zenon DEF CInv, Plain, Owned
  <2>8. Stages'
    <3>1. \A x \in DOMAIN msgs : Underway(x)' <=> Underway(x) /\ x # m
        BY <1>0, <2>6, Zenon DEF Underway
    <3>2. ~In(to_compress, m) /\ ~AtWorker(m)
        BY <1>0, <2>2, Zenon DEF CInv, Stages
    <3> QED BY <1>0, <1>1, <2>2, <2>3, <3>1, <3>2, Zenon DEF CInv, Stages
  <2>9. \A k \in 1 .. Len(submitted_msgs) : submitted_msgs[k] \in DOMAIN msgs
      BY <1>0 DEF Types
  <2>10. Full'
      BY <1>0, <2>6, <2>9, Zenon DEF CInv, Full, K, Types
  <2>11. Results'
      BY <1>0, <1>1, <2>3, <2>6 DEF CInv, Results, Packed, K
  <2> QED BY <1>0, <2>3, <2>5, <2>6, <2>7, <2>8, <2>10, <2>11, Zenon DEF CInv
<1> QED BY <1>2, <1>3, Zenon

\* The message submitted first is complete: its first chunk is next.
LEMMA FirstReadyKeeps ==
    ASSUME CInv, FirstIsReady
    PROVE  CInv'
<1>0. /\ Types /\ kind = "parallel" /\ submitted_msgs # <<>>
      /\ next_ready_msg' = Head(submitted_msgs) /\ next_chunk_idx' = 1 /\ msgs[Head(submitted_msgs)].complete
      /\ UNCHANGED <<kind, shape, msgs, available_msgs, submitted_msgs, next_submit_msg, to_compress, compressed, thr>>
    BY Zenon DEF CInv, FirstIsReady, Receiving, queues
<1>1. Head(submitted_msgs) \in DOMAIN msgs /\ Head(submitted_msgs) = submitted_msgs[1] /\ 1 \in 1 .. Len(submitted_msgs)
    BY <1>0, TailFacts DEF Types
<1>2. msgs[Head(submitted_msgs)].n \in Nat \ {0}
  <2>1. msgs[Head(submitted_msgs)].n # 0
      BY <1>0, <1>1, Zenon DEF CInv, Full
  <2> QED BY <1>0, <1>1, <2>1 DEF Types, MsgsOK, MsgOK
<1>3. Types'
    BY <1>0, <1>1, Zenon DEF Types, K
<1>4. Plain' /\ Owned' /\ Full'
    BY <1>0, Zenon DEF CInv, Plain, Owned, Full, K
<1>5. \A x : AtWorker(x)' = AtWorker(x) /\ Compressing(x)' = Compressing(x)
    BY <1>0, Zenon DEF AtWorker, Compressing
<1>6. Stages'
    BY <1>0, <1>5, Zenon DEF CInv, Stages, Underway
<1>7. Results'
  <2>1. \A x \in DOMAIN msgs : In(submitted_msgs, x) /\ ~In(to_compress, x) /\ ~Compressing(x) => Packed(msgs[x], K)
      BY <1>0, Zenon DEF CInv, Results
  <2> QED BY <1>0, <1>2, <1>5, <2>1 DEF Results, K
<1> QED BY <1>3, <1>4, <1>6, <1>7, Zenon DEF CInv

\* get_compression_result returns a chunk: not the last one of its message, ...
LEMMA TakeKeeps ==
    ASSUME CInv, TakeResult, next_chunk_idx # msgs[next_ready_msg].n
    PROVE  CInv' /\ kind = "parallel"
<1>0. /\ Types /\ next_ready_msg # NoMsg /\ next_submit_msg = NoMsg
      /\ next_chunk_idx' = next_chunk_idx + 1
      /\ UNCHANGED <<kind, shape, msgs, available_msgs, submitted_msgs, next_submit_msg, next_ready_msg,
                     to_compress, compressed, thr>>
    BY Zenon DEF CInv, TakeResult, queues
<1>1. kind = "parallel"
  <2>1. kind # "none"
      BY <1>0, Zenon DEF CInv, Plain
  <2>2. ASSUME kind = "serial" PROVE FALSE
    <3>1. next_ready_msg = 1
        BY <1>0, <2>2, Zenon DEF Types, CInv, Plain
    <3> QED BY <1>0, <2>2, <3>1, Zenon DEF CInv, Results
  <2> QED BY <1>0, <2>1, <2>2, Zenon DEF Types
<1>2. next_ready_msg \in DOMAIN msgs /\ msgs[next_ready_msg].n \in Nat
    BY <1>0 DEF Types, MsgsOK, MsgOK
<1>3. Types'
    BY <1>0 DEF Types, K
<1>4. Plain' /\ Owned' /\ Full'
    BY <1>0, Zenon DEF CInv, Plain, Owned, Full, K
<1>5. \A x : AtWorker(x)' = AtWorker(x) /\ Compressing(x)' = Compressing(x)
    BY <1>0, Zenon DEF AtWorker, Compressing
<1>6. Stages'
    BY <1>0, <1>5, Zenon DEF CInv, Stages, Underway
<1>7. Results'
  <2>1. /\ \A x \in DOMAIN msgs : In(submitted_msgs, x) /\ ~In(to_compress, x) /\ ~Compressing(x) => Packed(msgs[x], K)
        /\ submitted_msgs # <<>> /\ next_ready_msg = Head(submitted_msgs)
        /\ msgs[next_ready_msg].complete /\ next_chunk_idx \in 1 .. msgs[next_ready_msg].n
      BY <1>0, <1>1, Zenon DEF CInv, Results
  <2>2. next_chunk_idx + 1 \in 1 .. msgs[next_ready_msg].n
      BY <1>2, <2>1
  <2> QED BY <1>0, <1>1, <1>5, <2>1, <2>2, Zenon DEF Results, K
<1> QED BY <1>1, <1>3, <1>4, <1>6, <1>7, Zenon DEF CInv

\* ... the last one, after which the message is available again, ...
LEMMA TakeLastKeeps ==
    ASSUME CInv, TakeResult, kind = "parallel", next_chunk_idx = msgs[next_ready_msg].n
    PROVE  CInv' /\ submitted_msgs # <<>> /\ next_ready_msg = Head(submitted_msgs)
<1> DEFINE m == next_ready_msg
<1>0. /\ Types /\ m # NoMsg /\ next_submit_msg = NoMsg /\ next_ready_msg' = NoMsg /\ m \in DOMAIN msgs
      /\ submitted_msgs' = Tail(submitted_msgs) /\ available_msgs' = Append(available_msgs, m)
      /\ next_chunk_idx' = next_chunk_idx + 1
      /\ UNCHANGED <<kind, shape, msgs, next_submit_msg, to_compress, compressed, thr>>
    BY Zenon DEF CInv, Types, TakeResult, queues
<1>1. submitted_msgs # <<>> /\ m = Head(submitted_msgs) /\ msgs[m].complete
    BY <1>0, Zenon DEF CInv, Results
<1> HIDE DEF m
<1>2. /\ In(submitted_msgs, m) /\ submitted_msgs' \in Seq(DOMAIN msgs) /\ Once(submitted_msgs')
      /\ \A x : In(submitted_msgs', x) <=> In(submitted_msgs, x) /\ x # m
      /\ Len(submitted_msgs') = Len(submitted_msgs) - 1 /\ Len(submitted_msgs) \in Nat
      /\ \A i \in 1 .. Len(submitted_msgs) - 1 : submitted_msgs'[i] = submitted_msgs[i + 1]
    BY <1>0, <1>1, TailFacts, Zenon DEF Types, CInv, Owned
<1>3. ~In(available_msgs, m) /\ Once(available_msgs)
    BY <1>0, <1>2, Zenon DEF CInv, Owned
<1>4. /\ available_msgs' \in Seq(DOMAIN msgs) /\ Once(available_msgs')
      /\ \A x : In(available_msgs', x) <=> In(available_msgs, x) \/ x = m
    BY <1>0, <1>3, AppendFacts, Zenon DEF Types
<1>5. Types'
  <2>1. next_chunk_idx' \in Nat /\ next_ready_msg' \in {NoMsg} \cup DOMAIN msgs
    <3>1. next_chunk_idx \in Nat
        BY <1>0, Zenon DEF Types
    <3>2. next_chunk_idx' = next_chunk_idx + 1 /\ next_ready_msg' = NoMsg
        BY <1>0, Zenon
    <3> QED BY <3>1, <3>2
  <2>2. UNCHANGED <<kind, shape, msgs, next_submit_msg, to_compress, compressed, thr>>
      BY <1>0, Zenon
  <2>3. submitted_msgs' \in Seq(DOMAIN msgs) /\ available_msgs' \in Seq(DOMAIN msgs)
      BY <1>2, <1>4, Zenon
  <2> QED BY <1>0, <2>1, <2>2, <2>3, Zenon DEF Types, K
<1>6. Plain'
    BY <1>0, Zenon DEF Plain
<1>7. Owned'
  <2>1. \A x \in DOMAIN msgs : x # NoMsg
      BY <1>0, Zenon DEF Types, MsgsOK, NoMsg
  <2> QED BY <1>0, <1>2, <1>3, <1>4, <2>1, Zenon DEF CInv, Owned
<1>8. \A x : AtWorker(x)' = AtWorker(x) /\ Compressing(x)' = Compressing(x)
    BY <1>0, Zenon DEF AtWorker, Compressing
<1>9. Stages'
  <2>1. \A x \in DOMAIN msgs : Underway(x)' <=> Underway(x)
      BY <1>0, <1>1, <1>2, Zenon DEF Underway
  <2> QED BY <1>0, <1>8, <2>1, Zenon DEF CInv, Stages
<1>10. Full'
  <2>1. ASSUME NEW i \in 1 .. Len(submitted_msgs')
        PROVE  /\ msgs[submitted_msgs'[i]].n # 0
               /\ i < Len(submitted_msgs') => msgs[submitted_msgs'[i]].n = K
    <3>1. i + 1 \in 1 .. Len(submitted_msgs) /\ submitted_msgs'[i] = submitted_msgs[i + 1]
          /\ (i < Len(submitted_msgs') => i + 1 < Len(submitted_msgs))
        BY <1>2
    <3> QED BY <1>0, <3>1, Zenon DEF CInv, Full
  <2> QED BY <1>0, <2>1, Zenon DEF Full, K
<1>11. Results'
  <2>1. \A x \in DOMAIN msgs : In(submitted_msgs, x) /\ ~In(to_compress, x) /\ ~Compressing(x) => Packed(msgs[x], K)
      BY <1>0, Zenon DEF CInv, Results
  <2> QED BY <1>0, <1>2, <1>8, <2>1, Zenon DEF Results, K
<1> QED BY <1>1, <1>5, <1>6, <1>7, <1>9, <1>10, <1>11, Zenon DEF CInv, m

\* ... or the serial compressor's only one.
LEMMA TakeSerialKeeps ==
    ASSUME CInv, TakeResult, kind = "serial"
    PROVE  CInv' /\ next_ready_msg' = NoMsg /\ next_ready_msg = 1 /\ next_chunk_idx = 1 /\ Packed(msgs[1], 1)
<1>1. Types /\ next_ready_msg = 1
    BY Zenon DEF CInv, Types, Plain, TakeResult
<1>2. next_chunk_idx = 1 /\ msgs[1].n = 1 /\ Packed(msgs[1], 1) /\ next_ready_msg # NoMsg
    BY <1>1 DEF CInv, Results, NoMsg
<1>3. /\ next_ready_msg' = NoMsg
      /\ UNCHANGED <<kind, shape, msgs, available_msgs, submitted_msgs, next_submit_msg, next_chunk_idx,
                     to_compress, compressed, thr>>
    BY <1>1, <1>2, Zenon DEF TakeResult, queues
<1>4. Types'
    BY <1>1, <1>3, Zenon DEF Types, K
<1>5. Plain' /\ Owned' /\ Stages' /\ Full'
    BY <1>3, Zenon DEF CInv, Plain, Owned, Stages, Full, K
<1>6. Results'
    BY <1>2, <1>3, Zenon DEF Results
<1> QED BY <1>1, <1>2, <1>3, <1>4, <1>5, <1>6, Zenon DEF CInv

-----------------------------------------------------------------------------
(***************************************************************************)
(* Where the pending chunks are                                            *)
(***************************************************************************)
LEMMA Division ==
    ASSUME NEW b \in Nat \ {0}, NEW k \in Nat
    PROVE  k \div b \in Nat /\ k % b \in 0 .. b - 1 /\ k = b * (k \div b) + (k % b)
<1>1. b \in Int /\ b > 0 /\ k \in Int
    OBVIOUS
<1>2. \A c, j \in Int : c > 0 => j = c * (j \div c) + (j % c)
    OBVIOUS
<1>3. k \div b \in Int /\ k % b \in 0 .. b - 1
    OBVIOUS
<1>4. k = b * (k \div b) + (k % b)
    BY <1>1, <1>2, Zenon
<1>5. k \div b >= 0
    BY <1>3, <1>4
<1> QED BY <1>3, <1>4, <1>5

\* Quotient and remainder are unique.
LEMMA DivisionUnique ==
    ASSUME NEW b \in Nat \ {0}, NEW q \in Nat, NEW r \in 0 .. b - 1, NEW p \in Nat, NEW s \in 0 .. b - 1,
           b * q + r = b * p + s
    PROVE  q = p /\ r = s
<1>1. ASSUME NEW x \in Nat, NEW y \in Nat, x < y PROVE b * y >= b * x + b
  <2>1. b * y >= b * (x + 1)
      BY <1>1
  <2>2. b * (x + 1) = b * x + b
      OBVIOUS
  <2> QED BY <2>1, <2>2, Zenon
<1>2. ~(q < p) /\ ~(p < q)
    BY <1>1
<1> QED BY <1>2

\* The chunks of the first message: the quotient is 0.
LEMMA DivisionBelow ==
    ASSUME NEW b \in Nat \ {0}, NEW k \in 0 .. b - 1
    PROVE  k \div b = 0 /\ k % b = k
<1>1. k \in Nat /\ k = b * 0 + k
    OBVIOUS
<1> QED BY <1>1, Division, DivisionUnique

\* One full message further on, the index within the message is the same.
LEMMA DivisionNext ==
    ASSUME NEW b \in Nat \ {0}, NEW k \in Nat
    PROVE  (k + b) \div b = k \div b + 1 /\ (k + b) % b = k % b
<1> DEFINE q == k \div b
           r == k % b
           p == (k + b) \div b
           s == (k + b) % b
<1>1. q \in Nat /\ r \in 0 .. b - 1 /\ k = b * q + r
    BY Division, Zenon
<1>2. p \in Nat /\ s \in 0 .. b - 1 /\ k + b = b * p + s
  <2>1. k + b \in Nat
      OBVIOUS
  <2> QED BY <2>1, Division, Zenon
<1> HIDE DEF q, r, p, s
<1>3. k + b = b * (q + 1) + r
    BY <1>1
<1>4. p = q + 1 /\ s = r
    BY <1>1, <1>2, <1>3, DivisionUnique
<1> QED BY <1>4, Zenon DEF p, q, r, s

\* A chunk that was handed over is in one of the messages, and in the last one
\* among those filled.
LEMMA DivisionBound ==
    ASSUME NEW b \in Nat \ {0}, NEW k \in Nat, NEW l \in Nat \ {0}, NEW n \in 0 .. b, k < (l - 1) * b + n
    PROVE  k \div b \in 0 .. l - 1 /\ (k \div b = l - 1 => k % b < n)
<1> DEFINE q == k \div b
           r == k % b
<1>1. q \in Nat /\ r \in 0 .. b - 1 /\ k = b * q + r
    BY Division, Zenon
<1> HIDE DEF q, r
<1>2. (l - 1) * b = b * (l - 1) /\ b * l = b * (l - 1) + b
    OBVIOUS
<1>3. ASSUME q >= l PROVE FALSE
  <2>1. b * q >= b * l
      BY <1>1, <1>3
  <2> QED BY <1>1, <1>2, <2>1
<1>4. ASSUME q = l - 1 PROVE r < n
  <2>1. b * q = (l - 1) * b
      BY <1>2, <1>4, Zenon
  <2> QED BY <1>1, <2>1
<1> QED BY <1>1, <1>3, <1>4 DEF q, r

\* A product of positive numbers is at least as large as its factor.
LEMMA ProductAtLeast == \A a, b \in Nat \ {0} : a * b >= b
<1> SUFFICES ASSUME NEW a \in Nat \ {0}, NEW b \in Nat \ {0} PROVE a * b >= b
    OBVIOUS
<1>1. a * b = (a - 1) * b + b /\ a - 1 \in Nat
    OBVIOUS
<1>2. (a - 1) * b >= 0
    BY <1>1
<1> QED BY <1>1, <1>2

\* All chunks in messages that are submitted or being filled
LastMsg == inOrder[Len(inOrder)]

Total == IF inOrder = <<>> THEN 0 ELSE (Len(inOrder) - 1) * K + msgs[LastMsg].n

\* The messages submitted or being filled: all but the last are full.
LEMMA InOrderFacts ==
    ASSUME CInv, kind = "parallel"
    PROVE  /\ inOrder \in Seq(DOMAIN msgs) /\ Len(inOrder) \in Nat /\ K \in Nat \ {0}
           /\ inOrder # <<>> => /\ Len(inOrder) \in Nat \ {0} /\ LastMsg \in DOMAIN msgs
                                /\ msgs[LastMsg].n \in 0 .. K
           /\ \A k \in 1 .. Len(inOrder) - 1 : msgs[inOrder[k]].n = K
           /\ \A k \in 1 .. Len(inOrder) : inOrder[k] \in DOMAIN msgs
<1>0. Types
    BY Zenon DEF CInv
<1>1. inOrder \in Seq(DOMAIN msgs) /\ K \in Nat \ {0} /\ Len(inOrder) \in Nat
  <2>1. CASE next_submit_msg = NoMsg
      BY <1>0, <2>1 DEF Types, inOrder
  <2>2. CASE next_submit_msg # NoMsg
    <3>1. submitted_msgs \in Seq(DOMAIN msgs) /\ next_submit_msg \in DOMAIN msgs /\ K \in Nat \ {0}
        BY <1>0, <2>2, Zenon DEF Types
    <3>2. inOrder = Append(submitted_msgs, next_submit_msg)
        BY <2>2, Zenon DEF inOrder
    <3>3. inOrder \in Seq(DOMAIN msgs)
        BY <3>1, <3>2, AppendFacts, Zenon
    <3> QED BY <3>1, <3>3
  <2> QED BY <2>1, <2>2, Zenon
<1>2. \A k \in 1 .. Len(inOrder) : inOrder[k] \in DOMAIN msgs
    BY <1>1
<1>3. ASSUME inOrder # <<>> PROVE Len(inOrder) \in Nat \ {0} /\ LastMsg \in DOMAIN msgs /\ msgs[LastMsg].n \in 0 .. K
  <2>1. Len(inOrder) \in Nat \ {0}
      BY <1>1, <1>3
  <2>2. LastMsg \in DOMAIN msgs
      BY <1>2, <2>1 DEF LastMsg
  <2> QED BY <1>0, <2>1, <2>2, Zenon DEF Types, MsgsOK, MsgOK
<1>4. ASSUME NEW k \in 1 .. Len(inOrder) - 1 PROVE msgs[inOrder[k]].n = K
  <2>1. CASE next_submit_msg = NoMsg
    <3>1. inOrder = submitted_msgs
        BY <2>1, Zenon DEF inOrder
    <3> QED BY <1>1, <3>1 DEF CInv, Full
  <2>2. CASE next_submit_msg # NoMsg
    <3>1. Len(inOrder) = Len(submitted_msgs) + 1 /\ inOrder[k] = submitted_msgs[k] /\ k \in 1 .. Len(submitted_msgs)
        BY <1>0, <2>2 DEF Types, inOrder
    <3> QED BY <2>2, <3>1, Zenon DEF CInv, Full
  <2> QED BY <2>1, <2>2, Zenon
<1> QED BY <1>1, <1>2, <1>3, <1>4, Zenon

\* The chunks that came back are fewer than those in these messages, so the
\* number pending is one.
LEMMA TotalFacts ==
    ASSUME CInv, kind = "parallel"
    PROVE  /\ Total \in Nat /\ taken \in Nat /\ taken <= Total /\ pendingCount \in Nat
           /\ pendingCount = Total - taken
           /\ next_ready_msg # NoMsg => /\ taken < Total /\ taken + 1 = next_chunk_idx /\ taken < K
                                        /\ inOrder # <<>> /\ inOrder[1] = next_ready_msg
<1>0. /\ inOrder # <<>> => Len(inOrder) \in Nat \ {0} /\ msgs[LastMsg].n \in 0 .. K
      /\ K \in Nat \ {0}
    BY InOrderFacts, Zenon
<1>1. inOrder # <<>> => (Len(inOrder) - 1) * K \in Nat
    BY <1>0
<1>2. Total \in Nat
    BY <1>0, <1>1 DEF Total
<1>3. CASE next_ready_msg = NoMsg
  <2>1. taken = 0 /\ taken \in Nat
      BY <1>3, Zenon DEF taken
  <2>2. pendingCount = Total - taken
      BY <1>0, <1>1, <2>1 DEF pendingCount, Total, LastMsg, K
  <2> QED BY <1>2, <1>3, <2>1, <2>2
<1>4. CASE next_ready_msg # NoMsg
  <2>1. /\ submitted_msgs # <<>> /\ next_ready_msg = Head(submitted_msgs) /\ next_ready_msg \in DOMAIN msgs
        /\ next_chunk_idx \in 1 .. msgs[next_ready_msg].n /\ msgs[next_ready_msg].n \in 0 .. K
      BY <1>4, Zenon DEF CInv, Results, Types, MsgsOK, MsgOK
  <2>2. inOrder # <<>> /\ inOrder[1] = next_ready_msg
    <3>1. submitted_msgs \in Seq(DOMAIN msgs) /\ next_submit_msg \in {NoMsg} \cup DOMAIN msgs
        BY Zenon DEF CInv, Types
    <3>2. Len(submitted_msgs) \in Nat \ {0} /\ submitted_msgs[1] = next_ready_msg
        BY <2>1, <3>1
    <3>3. CASE next_submit_msg = NoMsg
        BY <2>1, <3>2, <3>3, Zenon DEF inOrder
    <3>4. CASE next_submit_msg # NoMsg
      <4>1. inOrder = Append(submitted_msgs, next_submit_msg) /\ next_submit_msg \in DOMAIN msgs
          BY <3>1, <3>4, Zenon DEF inOrder
      <4> QED BY <3>1, <3>2, <4>1
    <3> QED BY <3>3, <3>4, Zenon
  <2>3. taken \in Nat /\ taken + 1 = next_chunk_idx /\ taken < msgs[next_ready_msg].n /\ taken < K
      BY <1>0, <1>4, <2>1 DEF taken
  <2>4. taken < Total
    <3>1. CASE Len(inOrder) = 1
      <4>1. LastMsg = next_ready_msg
          BY <2>2, <3>1, Zenon DEF LastMsg
      <4>2. Total = msgs[next_ready_msg].n
          BY <1>0, <2>2, <3>1, <4>1 DEF Total
      <4> QED BY <2>3, <4>2, Zenon
    <3>2. CASE Len(inOrder) # 1
      <4>1. (Len(inOrder) - 1) * K >= K
        <5>1. Len(inOrder) - 1 \in Nat \ {0}
            BY <1>0, <2>2, <3>2
        <5> QED BY <1>0, <5>1, ProductAtLeast, Zenon
      <4> QED BY <1>0, <1>1, <2>2, <2>3, <4>1 DEF Total
    <3> QED BY <3>1, <3>2, Zenon
  <2>5. pendingCount = Total - taken
      BY <1>0, <1>1, <2>2, <2>3 DEF pendingCount, Total, LastMsg, K
  <2> QED BY <1>2, <2>2, <2>3, <2>4, <2>5
<1> QED BY <1>3, <1>4, Zenon

\* A chunk that is handed over is in a buffer of a message that has it.
LEMMA Placed ==
    ASSUME CInv, kind = "parallel", NEW k \in Nat, k < Total
    PROVE  LET q == (k \div K) + 1 IN
           /\ q \in 1 .. Len(inOrder) /\ inOrder[q] \in DOMAIN msgs
           /\ (k % K) + 1 \in 1 .. msgs[inOrder[q]].n /\ (k % K) + 1 \in 1 .. K
<1> DEFINE d == k \div K
           r == k % K
<1>1. inOrder # <<>>
    BY DEF Total
<1>2. /\ Len(inOrder) \in Nat \ {0} /\ msgs[LastMsg].n \in 0 .. K /\ K \in Nat \ {0}
      /\ \A j \in 1 .. Len(inOrder) - 1 : msgs[inOrder[j]].n = K
      /\ \A j \in 1 .. Len(inOrder) : inOrder[j] \in DOMAIN msgs
    BY <1>1, InOrderFacts, Zenon
<1>3. k < (Len(inOrder) - 1) * K + msgs[LastMsg].n
    BY <1>1, Zenon DEF Total
<1>4. d \in 0 .. Len(inOrder) - 1 /\ (d = Len(inOrder) - 1 => r < msgs[LastMsg].n)
  <2> DEFINE L == Len(inOrder)
             n == msgs[LastMsg].n
  <2>1. L \in Nat \ {0} /\ n \in 0 .. K /\ K \in Nat \ {0} /\ k < (L - 1) * K + n
      BY <1>2, <1>3, Zenon
  <2> HIDE DEF L, n
  <2>2. d \in 0 .. L - 1 /\ (d = L - 1 => r < n)
      BY <2>1, DivisionBound, Zenon
  <2> QED BY <2>2, Zenon DEF L, n
<1>5. r \in 0 .. K - 1
    BY <1>2, Division, Zenon
<1> HIDE DEF d, r
<1>6. CASE d = Len(inOrder) - 1
  <2>1. inOrder[d + 1] = LastMsg
      BY <1>2, <1>6 DEF LastMsg
  <2> QED BY <1>2, <1>4, <1>5, <1>6, <2>1 DEF d, r
<1>7. CASE d # Len(inOrder) - 1
  <2>1. d + 1 \in 1 .. Len(inOrder) - 1
      BY <1>2, <1>4, <1>7
  <2>2. msgs[inOrder[d + 1]].n = K
      BY <1>2, <2>1, Zenon
  <2>3. d + 1 \in 1 .. Len(inOrder) /\ inOrder[d + 1] \in DOMAIN msgs
      BY <1>2, <2>1
  <2>4. r + 1 \in 1 .. K
      BY <1>2, <1>5
  <2> QED BY <2>2, <2>3, <2>4, Zenon DEF d, r
<1> QED BY <1>6, <1>7, Zenon

-----------------------------------------------------------------------------
(***************************************************************************)
(* What each operation does to them                                        *)
(***************************************************************************)
LEMMA SequenceOf ==
    ASSUME NEW n \in Nat, NEW f, f = [i \in 1 .. n |-> f[i]]
    PROVE  /\ Len(f) = n
           /\ n # 0 => f # <<>> /\ Head(f) = f[1] /\ Tail(f) = [i \in 1 .. n - 1 |-> f[i + 1]]
           /\ \A j \in 0 .. n : SubSeq(f, 1, j) = [i \in 1 .. j |-> f[i]]
<1> DEFINE S == {f[i] : i \in 1 .. n}
<1>1. f \in Seq(S) /\ Len(f) = n
    OBVIOUS
<1>2. ASSUME n # 0 PROVE f # <<>> /\ Head(f) = f[1] /\ Tail(f) = [i \in 1 .. n - 1 |-> f[i + 1]]
    BY <1>1, <1>2
<1>3. ASSUME NEW j \in 0 .. n PROVE SubSeq(f, 1, j) = [i \in 1 .. j |-> f[i]]
    BY <1>1
<1> QED BY <1>1, <1>2, <1>3, Zenon

Counted == /\ Total \in Nat /\ taken \in Nat /\ taken <= Total /\ pendingCount \in Nat
           /\ pendingCount = Total - taken
           /\ pendingChunks = [i \in 1 .. pendingCount |-> Chunk(taken + i - 1)]
           /\ pendingChunks = [i \in 1 .. pendingCount |-> pendingChunks[i]]
           /\ Len(pendingChunks) = pendingCount

\* The pending chunks of the parallel compressor, by their number.
LEMMA PendingParallel ==
    ASSUME CInv, kind = "parallel"
    PROVE  Counted
<1>1. pendingCount \in Nat
    BY TotalFacts, Zenon
<1>2. pendingChunks = [i \in 1 .. pendingCount |-> Chunk(taken + i - 1)]
    BY Zenon DEF pendingChunks
<1> DEFINE f == pendingChunks
<1>3. f = [i \in 1 .. pendingCount |-> f[i]]
    BY <1>2, Zenon
<1> HIDE DEF f
<1>4. Len(f) = pendingCount
    BY <1>1, <1>3, SequenceOf, Zenon
<1> QED BY <1>1, <1>2, <1>3, <1>4, TotalFacts, Zenon DEF f, Counted

PInv == CInv /\ kind = "parallel"

\* That, as the steps below use it before a step
LEMMA CountedNow == PInv => Counted
BY PendingParallel, Zenon DEF PInv

\* and after it.
LEMMA CountedNext == PInv' => Counted'
BY CountedNow, PTL

\* The same chunks are in the same places, up to how many each message has.
SameChunks == /\ DOMAIN msgs' = DOMAIN msgs
              /\ \A m \in DOMAIN msgs : \A i \in 1 .. msgs[m].n : msgs'[m].ub[i] = msgs[m].ub[i]

\* A chunk is where it was if its message is in its place and keeps its chunks.
LEMMA ChunkStays ==
    ASSUME CInv, kind = "parallel", shape' = shape, SameChunks,
           NEW k \in Nat, k < Total, inOrder'[(k \div K) + 1] = inOrder[(k \div K) + 1]
    PROVE  Chunk(k)' = Chunk(k)
<1> DEFINE q == (k \div K) + 1
           i == (k % K) + 1
<1>1. inOrder[q] \in DOMAIN msgs /\ i \in 1 .. msgs[inOrder[q]].n
    BY Placed, Zenon
<1>2. Chunk(k) = msgs[inOrder[q]].ub[i] /\ Chunk(k)' = msgs'[inOrder[q]].ub[i]
    BY Zenon DEF Chunk, K
<1> HIDE DEF q, i
<1> QED BY <1>1, <1>2, Zenon DEF SameChunks

\* A step that leaves order, number and data of the chunks alone is a stutter
\* of the queue.
LEMMA PendingStays ==
    ASSUME CInv, CInv', kind = "parallel", UNCHANGED <<kind, shape>>, SameChunks, taken' = taken,
           Total' = Total, \A k \in 1 .. Len(inOrder) : inOrder'[k] = inOrder[k]
    PROVE  pendingChunks' = pendingChunks
<1>1. /\ pendingCount = Total - taken /\ taken \in Nat /\ Total \in Nat /\ pendingCount \in Nat
      /\ pendingCount' = Total' - taken'
    BY CountedNow, CountedNext, Zenon DEF PInv, Counted
<1>2. pendingCount' = pendingCount
    BY <1>1, Zenon
<1>3. ASSUME NEW i \in 1 .. pendingCount PROVE Chunk(taken + i - 1)' = Chunk(taken + i - 1)
  <2> DEFINE k == taken + i - 1
  <2>1. k \in Nat /\ k < Total
      BY <1>1
  <2>2. (k \div K) + 1 \in 1 .. Len(inOrder)
    <3> HIDE DEF k
    <3> QED BY <2>1, Placed, Zenon
  <2>3. Chunk(k)' = Chunk(k)
    <3>1. \A j \in Nat : j < Total /\ inOrder'[(j \div K) + 1] = inOrder[(j \div K) + 1]
             => msgs'[inOrder'[(j \div shape'[1]) + 1]].ub[(j % shape'[1]) + 1] = Chunk(j)
        BY ChunkStays, Zenon DEF Chunk
    <3> QED BY <2>1, <2>2, <3>1, Zenon DEF Chunk
  <2> QED BY <2>3, Zenon
<1> QED BY <1>2, <1>3, Zenon DEF pendingChunks

\* signal_chunk_filled hands one chunk over.
LEMMA HandsOver ==
    ASSUME CInv, CInv', kind = "parallel", UNCHANGED <<kind, shape>>, SameChunks, taken' = taken,
           Total' = Total + 1, \A k \in 1 .. Len(inOrder) : inOrder'[k] = inOrder[k]
    PROVE  /\ Len(pendingChunks') = Len(pendingChunks) + 1
           /\ SubSeq(pendingChunks', 1, Len(pendingChunks)) = pendingChunks
<1>1. Counted /\ Counted'
    BY CountedNow, CountedNext, Zenon DEF PInv
<1>2. pendingCount' = pendingCount + 1 /\ Len(pendingChunks') = Len(pendingChunks) + 1
    BY <1>1 DEF Counted
<1>3. ASSUME NEW i \in 1 .. pendingCount PROVE pendingChunks'[i] = pendingChunks[i]
  <2> DEFINE k == taken + i - 1
  <2>1. k \in Nat /\ k < Total
      BY <1>1 DEF Counted
  <2>2. (k \div K) + 1 \in 1 .. Len(inOrder)
    <3> HIDE DEF k
    <3> QED BY <2>1, Placed, Zenon
  <2>3. \A j \in Nat : j < Total /\ inOrder'[(j \div K) + 1] = inOrder[(j \div K) + 1]
             => msgs'[inOrder'[(j \div shape'[1]) + 1]].ub[(j % shape'[1]) + 1] = Chunk(j)
      BY ChunkStays, Zenon DEF Chunk
  <2>4. Chunk(taken + i - 1)' = Chunk(taken + i - 1)
      BY <2>1, <2>2, <2>3, Zenon DEF Chunk
  <2>5. pendingChunks[i] = Chunk(taken + i - 1)
      BY <1>1, Zenon DEF Counted
  <2>6. i \in 1 .. pendingCount' /\ pendingChunks'[i] = Chunk(taken + i - 1)'
      BY <1>1, <1>2 DEF Counted
  <2> QED BY <2>4, <2>5, <2>6, Zenon
<1> DEFINE f == pendingChunks'
           g == pendingChunks
           n == pendingCount
<1>4. /\ f = [i \in 1 .. n + 1 |-> f[i]] /\ g = [i \in 1 .. n |-> g[i]] /\ n \in Nat
      /\ \A i \in 1 .. n : f[i] = g[i]
    BY <1>1, <1>2, <1>3, Zenon DEF Counted
<1> HIDE DEF f, g, n
<1>5. SubSeq(f, 1, n) = [i \in 1 .. n |-> f[i]]
  <2>1. n + 1 \in Nat /\ n \in 0 .. n + 1
      BY <1>4
  <2> QED BY <1>4, <2>1, SequenceOf
<1>6. SubSeq(f, 1, n) = g
    BY <1>4, <1>5, Zenon
<1> QED BY <1>1, <1>2, <1>6, Zenon DEF Counted, f, g, n

\* get_compression_result gives back the first one.
LEMMA GivesBack ==
    ASSUME CInv, CInv', kind = "parallel", kind' = kind, next_ready_msg # NoMsg,
           Total' - taken' = (Total - taken) - 1,
           \A i \in Nat : taken + i + 1 < Total => Chunk(taken + i)' = Chunk(taken + i + 1)
    PROVE  /\ pendingChunks # <<>> /\ pendingChunks' = Tail(pendingChunks)
           /\ Head(pendingChunks) = msgs[next_ready_msg].ub[next_chunk_idx]
<1>1. Counted /\ Counted'
    BY CountedNow, CountedNext, Zenon DEF PInv
<1>2. taken < Total /\ taken + 1 = next_chunk_idx /\ taken < K /\ inOrder # <<>> /\ inOrder[1] = next_ready_msg
    BY TotalFacts, Zenon
<1>3. pendingCount' = pendingCount - 1 /\ pendingCount # 0
  <2>1. /\ Total \in Nat /\ taken \in Nat /\ pendingCount = Total - taken
        /\ pendingCount' = Total' - taken'
      BY <1>1, Zenon DEF Counted
  <2> QED BY <1>2, <2>1
<1>4. ASSUME NEW i \in 1 .. pendingCount - 1 PROVE pendingChunks'[i] = pendingChunks[i + 1]
  <2>1. i - 1 \in Nat /\ taken + (i - 1) + 1 < Total
      BY <1>1 DEF Counted
  <2>2. Chunk(taken + (i - 1))' = Chunk(taken + (i - 1) + 1)
      BY <2>1, Zenon
  <2>3. pendingChunks'[i] = Chunk(taken + i - 1)'
      BY <1>1, <1>3, Zenon DEF Counted
  <2>4. i + 1 \in 1 .. pendingCount /\ pendingChunks[i + 1] = Chunk(taken + (i + 1) - 1)
      BY <1>1 DEF Counted
  <2>5. taken + (i - 1) + 1 = taken + (i + 1) - 1
      BY <1>1 DEF Counted
  <2> QED BY <2>2, <2>3, <2>4, <2>5, Zenon
<1>5. pendingChunks[1] = msgs[next_ready_msg].ub[next_chunk_idx]
  <2>1. pendingChunks[1] = Chunk(taken + 1 - 1) /\ taken + 1 - 1 = taken
      BY <1>1, <1>3 DEF Counted
  <2>2. K \in Nat \ {0} /\ taken \in 0 .. K - 1
      BY <1>1, <1>2, InOrderFacts DEF Counted
  <2>3. taken \div K = 0 /\ taken % K = taken
    <3> DEFINE b == K
               k == taken
    <3>1. b \in Nat \ {0} /\ k \in 0 .. b - 1
        BY <2>2, Zenon
    <3> HIDE DEF b, k
    <3>2. k \div b = 0 /\ k % b = k
        BY <3>1, DivisionBelow, Zenon
    <3> QED BY <3>2, Zenon DEF b, k
  <2>4. Chunk(taken) = msgs[inOrder[0 + 1]].ub[taken + 1]
      BY <2>3, Zenon DEF Chunk, K
  <2> QED BY <1>2, <2>1, <2>4
<1> DEFINE f == pendingChunks
           g == pendingChunks'
           n == pendingCount
<1>6. /\ f = [i \in 1 .. n |-> f[i]] /\ g = [i \in 1 .. n - 1 |-> g[i]] /\ n \in Nat /\ n # 0
      /\ \A i \in 1 .. n - 1 : g[i] = f[i + 1]
    BY <1>1, <1>3, <1>4, Zenon DEF Counted
<1> HIDE DEF f, g, n
<1>7. f # <<>> /\ Head(f) = f[1] /\ Tail(f) = [i \in 1 .. n - 1 |-> f[i + 1]]
    BY <1>6, SequenceOf, Zenon
<1>8. g = Tail(f)
    BY <1>6, <1>7, Zenon
<1> QED BY <1>5, <1>7, <1>8, Zenon DEF f, g

\* The workers, and receiving, leave the chunks where they are.
LEMMA QuietKeepsPending ==
    ASSUME CInv, CInv', UNCHANGED <<kind, shape, owned>>, SameChunks,
           \A m \in DOMAIN msgs : msgs'[m].n = msgs[m].n
    PROVE  pendingChunks' = pendingChunks
<1> USE DEF owned
<1>1. CASE kind = "parallel"
  <2>1. inOrder' = inOrder /\ taken' = taken
      BY Zenon DEF inOrder, taken
  <2>2. inOrder # <<>> => LastMsg \in DOMAIN msgs
      BY <1>1, InOrderFacts, Zenon
  <2>3. Total' = Total
      BY <2>1, <2>2, Zenon DEF Total, LastMsg, K
  <2> QED BY <1>1, <2>1, <2>3, PendingStays, Zenon
<1>2. CASE kind = "serial"
  <2>1. next_ready_msg # NoMsg => msgs'[1].ub[1] = msgs[1].ub[1]
    <3>1. next_ready_msg # NoMsg => msgs[1].n = 1
        BY <1>2, Zenon DEF CInv, Results
    <3>2. 1 \in DOMAIN msgs
        BY Zenon DEF CInv, Types, MsgsOK
    <3> QED BY <3>1, <3>2 DEF SameChunks
  <2> QED BY <1>2, <2>1, Zenon DEF pendingChunks
<1>3. CASE kind \notin {"parallel", "serial"}
    BY <1>3, Zenon DEF pendingChunks
<1> QED BY <1>1, <1>2, <1>3, Zenon

\* A message that is submitted early keeps its place in the order.
LEMMA SubmitRestIsQuiet ==
    ASSUME CInv, SubmitRest, msgs[next_submit_msg].n # 0
    PROVE  CInv' /\ pendingChunks' = pendingChunks
           /\ kind = "parallel" /\ UNCHANGED <<kind, shape, available_msgs, next_ready_msg, next_chunk_idx>>
           /\ next_submit_msg # NoMsg /\ next_submit_msg' = NoMsg /\ submitted_msgs' # <<>>
<1>0. /\ kind = "parallel" /\ next_submit_msg # NoMsg /\ submit_compression_msg(msgs)
      /\ UNCHANGED <<kind, shape, available_msgs, next_ready_msg, next_chunk_idx, compressed>>
    BY Zenon DEF SubmitRest
<1>1. MsgsOK(msgs, K) /\ next_submit_msg \in DOMAIN msgs /\ submitted_msgs \in Seq(DOMAIN msgs)
    BY <1>0, Zenon DEF CInv, Types
<1>2. /\ CInv' /\ DOMAIN msgs' = DOMAIN msgs
      /\ \A m \in DOMAIN msgs : m # next_submit_msg => msgs'[m] = msgs[m]
      /\ msgs'[next_submit_msg].n = msgs[next_submit_msg].n
      /\ msgs'[next_submit_msg].ub = msgs[next_submit_msg].ub
    BY <1>0, <1>1, SubmitKeeps, Zenon
<1>3. submitted_msgs' = Append(submitted_msgs, next_submit_msg) /\ next_submit_msg' = NoMsg
    BY <1>0, Zenon DEF submit_compression_msg
<1>4. inOrder' = inOrder /\ taken' = taken /\ SameChunks
  <2>1. inOrder' = inOrder /\ taken' = taken
      BY <1>0, <1>3, Zenon DEF inOrder, taken
  <2>2. SameChunks
      BY <1>2, Zenon DEF SameChunks
  <2> QED BY <2>1, <2>2, Zenon
<1>5. Total' = Total
  <2>1. inOrder # <<>> => LastMsg \in DOMAIN msgs
      BY <1>0, InOrderFacts, Zenon
  <2> QED BY <1>0, <1>2, <1>4, <2>1, Zenon DEF Total, LastMsg, K
<1>6. submitted_msgs' # <<>>
    BY <1>1, <1>3, AppendFacts
<1> QED BY <1>0, <1>2, <1>3, <1>4, <1>5, <1>6, PendingStays, Zenon

\* get_compression_result finds the first message complete: nothing comes back
\* yet.
LEMMA FirstReadyIsQuiet ==
    ASSUME CInv, FirstIsReady
    PROVE  pendingChunks' = pendingChunks
<1>0. /\ kind = "parallel" /\ next_ready_msg = NoMsg /\ next_chunk_idx' = 1
      /\ UNCHANGED <<kind, shape, msgs, submitted_msgs, next_submit_msg>>
    BY Zenon DEF FirstIsReady, Receiving
<1>1. CInv'
    BY FirstReadyKeeps, Zenon
<1>2. inOrder' = inOrder /\ taken' = taken /\ SameChunks
    BY <1>0 DEF inOrder, taken, SameChunks
<1>3. Total' = Total
    BY <1>0, <1>2, Zenon DEF Total, LastMsg, K
<1> QED BY <1>0, <1>1, <1>2, <1>3, PendingStays, Zenon

\* A message that has no chunk yet adds none.
LEMMA TakeAvailableIsQuiet ==
    ASSUME CInv, kind = "parallel", next_submit_msg = NoMsg, available_msgs # <<>>,
           submitted_msgs # <<>> => msgs[submitted_msgs[Len(submitted_msgs)]].n = K,
           get_chunk_buffer
    PROVE  pendingChunks' = pendingChunks
<1> DEFINE m == next_submit_msg'
<1>0. /\ CInv' /\ DOMAIN msgs' = DOMAIN msgs /\ m \in DOMAIN msgs /\ ~In(submitted_msgs, m)
      /\ m # NoMsg /\ msgs'[m].n = 0
      /\ \A x \in DOMAIN msgs : x # m => msgs'[x] = msgs[x]
      /\ UNCHANGED <<kind, shape, submitted_msgs, next_ready_msg, next_chunk_idx>>
    BY TakeAvailableKeeps, Zenon
<1>1. inOrder = submitted_msgs /\ inOrder' = Append(submitted_msgs, m) /\ taken' = taken
    BY <1>0, Zenon DEF inOrder, taken
<1>2. submitted_msgs \in Seq(DOMAIN msgs) /\ K \in Nat \ {0} /\ K' = K /\ Len(submitted_msgs) \in Nat
    BY <1>0 DEF CInv, Types, K
<1> HIDE DEF m
<1>3. /\ inOrder' # <<>> /\ Len(inOrder') = Len(submitted_msgs) + 1 /\ inOrder'[Len(submitted_msgs) + 1] = m
      /\ \A k \in 1 .. Len(inOrder) : inOrder'[k] = inOrder[k]
    BY <1>0, <1>1, <1>2, AppendFacts
<1>4. Total' = Len(submitted_msgs) * K
  <2>1. LastMsg' = m
      BY <1>3, Zenon DEF LastMsg
  <2>2. Total' = (Len(inOrder') - 1) * K' + msgs'[LastMsg'].n
      BY <1>3, Zenon DEF Total
  <2>3. Len(inOrder') - 1 = Len(submitted_msgs)
      BY <1>2, <1>3
  <2>4. Total' = Len(submitted_msgs) * K + 0
      BY <1>0, <1>2, <2>1, <2>2, <2>3, Zenon
  <2> QED BY <1>2, <2>4
<1>5. Total = Len(submitted_msgs) * K
  <2>1. CASE submitted_msgs = <<>>
      BY <1>1, <1>2, <2>1 DEF Total
  <2>2. CASE submitted_msgs # <<>>
    <3>1. Total = (Len(submitted_msgs) - 1) * K + K
        BY <1>1, <2>2, Zenon DEF Total, LastMsg
    <3> QED BY <1>2, <3>1
  <2> QED BY <2>1, <2>2, Zenon
<1>6. SameChunks
  <2>1. ASSUME NEW x \in DOMAIN msgs, NEW i \in 1 .. msgs[x].n PROVE msgs'[x].ub[i] = msgs[x].ub[i]
    <3>1. CASE x = m
      <4>1. available_msgs \in Seq(DOMAIN msgs) /\ m = Head(available_msgs) /\ msgs' = [msgs EXCEPT ![m].n = 0]
          BY Zenon DEF get_chunk_buffer, CInv, Types, m
      <4>2. MsgOK(msgs[m], K)
          BY <1>0, Zenon DEF CInv, Types, MsgsOK
      <4>3. msgs'[m] = [msgs[m] EXCEPT !.n = 0]
          BY <1>0, <4>1, Zenon
      <4>4. msgs'[m].ub = msgs[m].ub
          BY <4>2, <4>3, Zenon DEF MsgOK
      <4> QED BY <3>1, <4>4, Zenon
    <3>2. CASE x # m
        BY <1>0, <3>2, Zenon
    <3> QED BY <3>1, <3>2, Zenon
  <2> QED BY <1>0, <2>1, Zenon DEF SameChunks
<1> QED BY <1>0, <1>1, <1>3, <1>4, <1>5, <1>6, PendingStays, Zenon

\* signal_chunk_filled puts one chunk behind those that are pending.
LEMMA HandedHandsOver ==
    ASSUME CInv, CInv', kind = "parallel", next_submit_msg # NoMsg, Handed,
           UNCHANGED <<kind, shape, next_ready_msg, next_chunk_idx>>
    PROVE  /\ Len(pendingChunks') = Len(pendingChunks) + 1
           /\ SubSeq(pendingChunks', 1, Len(pendingChunks)) = pendingChunks
<1> DEFINE m == next_submit_msg
<1>0. /\ DOMAIN msgs' = DOMAIN msgs /\ m \in DOMAIN msgs
      /\ \A x \in DOMAIN msgs : x # m => msgs'[x] = msgs[x]
      /\ msgs'[m].n = msgs[m].n + 1
      /\ \A i \in 1 .. K : i # msgs[m].n + 1 => msgs'[m].ub[i] = msgs[m].ub[i]
      /\ msgs[m].n \in 0 .. K /\ K \in Nat \ {0} /\ submitted_msgs \in Seq(DOMAIN msgs)
    BY Zenon DEF Handed, CInv, Types, MsgsOK, MsgOK
<1>1. inOrder = Append(submitted_msgs, m) /\ inOrder' = inOrder /\ taken' = taken
  <2>1. inOrder = Append(submitted_msgs, m) /\ taken' = taken
      BY Zenon DEF inOrder, taken
  <2>2. inOrder' = Append(submitted_msgs, m)
      BY Zenon DEF inOrder, Handed
  <2> QED BY <2>1, <2>2, Zenon
<1> HIDE DEF m
<1>2. inOrder # <<>> /\ LastMsg = m
    BY <1>0, <1>1, AppendFacts DEF LastMsg
<1>3. LastMsg' = m
    BY <1>1, <1>2, Zenon DEF LastMsg
<1>4. Total' = Total + 1
  <2>1. Total = (Len(inOrder) - 1) * K + msgs[m].n
      BY <1>2, Zenon DEF Total
  <2>2. Total' = (Len(inOrder) - 1) * K + (msgs[m].n + 1)
      BY <1>0, <1>1, <1>2, <1>3, Zenon DEF Total, K
  <2>3. (Len(inOrder) - 1) * K \in Int
      BY <1>0, InOrderFacts
  <2> QED BY <1>0, <2>1, <2>2, <2>3
<1>5. SameChunks
  <2>1. ASSUME NEW x \in DOMAIN msgs, NEW i \in 1 .. msgs[x].n PROVE msgs'[x].ub[i] = msgs[x].ub[i]
    <3>1. CASE x = m
        BY <1>0, <3>1
    <3>2. CASE x # m
        BY <1>0, <3>2, Zenon
    <3> QED BY <3>1, <3>2, Zenon
  <2> QED BY <1>0, <2>1, Zenon DEF SameChunks
<1> QED BY <1>1, <1>4, <1>5, HandsOver, Zenon

\* What comes back is the chunk that was handed over first.
Returned == /\ pendingChunks # <<>> /\ pendingChunks' = Tail(pendingChunks)
            /\ Head(pendingChunks) = Result.data

\* What get_compression_result returns is the data of the chunk, compressed or
\* as it was.
LEMMA ResultIsChunk ==
    ASSUME NEW k \in Nat, next_chunk_idx \in 1 .. k, Packed(msgs[next_ready_msg], k)
    PROVE  Result.data = msgs[next_ready_msg].ub[next_chunk_idx]
BY Zenon DEF Result, Packed

\* The message results are taken from is one a worker has been through.
LEMMA ReadyIsPacked ==
    ASSUME CInv, kind = "parallel", next_ready_msg # NoMsg
    PROVE  Packed(msgs[next_ready_msg], K) /\ next_chunk_idx \in 1 .. K
<1>1. /\ submitted_msgs # <<>> /\ next_ready_msg = Head(submitted_msgs) /\ msgs[next_ready_msg].complete
      /\ next_chunk_idx \in 1 .. msgs[next_ready_msg].n
    BY Zenon DEF CInv, Results
<1>2. next_ready_msg \in DOMAIN msgs /\ msgs[next_ready_msg].n \in 0 .. K /\ K \in Nat
    BY Zenon DEF CInv, Types, MsgsOK, MsgOK
<1>3. ~Underway(next_ready_msg)
    BY <1>1, Zenon DEF Underway
<1>4. ~In(to_compress, next_ready_msg) /\ ~AtWorker(next_ready_msg)
    BY <1>2, <1>3, Zenon DEF CInv, Stages
<1>5. ~Compressing(next_ready_msg)
    BY <1>4, Zenon DEF AtWorker, Compressing
<1>6. In(submitted_msgs, next_ready_msg)
    BY <1>1, TailFacts, Zenon DEF CInv, Types
<1> QED BY <1>1, <1>2, <1>4, <1>5, <1>6 DEF CInv, Results

\* get_compression_result returns the first of the pending chunks, and more are
\* left in its message.
LEMMA TakeReturns ==
    ASSUME CInv, TakeResult, next_chunk_idx # msgs[next_ready_msg].n
    PROVE  Returned
<1>0. CInv' /\ kind = "parallel"
    BY TakeKeeps, Zenon
<1>1. /\ next_ready_msg # NoMsg /\ next_submit_msg = NoMsg /\ next_chunk_idx' = next_chunk_idx + 1
      /\ UNCHANGED <<kind, shape, msgs, submitted_msgs, next_submit_msg, next_ready_msg>>
    BY Zenon DEF TakeResult
<1>2. next_chunk_idx \in Nat
    BY Zenon DEF CInv, Types
<1>3. inOrder' = inOrder /\ taken' = taken + 1 /\ Total' = Total /\ Total \in Nat /\ taken \in Nat
  <2>1. inOrder' = inOrder
      BY <1>1, Zenon DEF inOrder
  <2>2. taken' = taken + 1
      BY <1>1, <1>2 DEF taken
  <2>3. Total' = Total
      BY <1>1, <2>1, Zenon DEF Total, LastMsg, K
  <2> QED BY <1>0, <2>1, <2>2, <2>3, TotalFacts, Zenon
<1>4. ASSUME NEW i \in Nat PROVE Chunk(taken + i)' = Chunk(taken + i + 1)
  <2>1. Chunk(taken + i)' = msgs[inOrder[((taken' + i) \div shape[1]) + 1]].ub[((taken' + i) % shape[1]) + 1]
      BY <1>1, <1>3, Zenon DEF Chunk
  <2>2. taken' + i = taken + i + 1
      BY <1>3
  <2> QED BY <2>1, <2>2, Zenon DEF Chunk
<1>5. Total' - taken' = (Total - taken) - 1
    BY <1>3
<1>6. /\ pendingChunks # <<>> /\ pendingChunks' = Tail(pendingChunks)
      /\ Head(pendingChunks) = msgs[next_ready_msg].ub[next_chunk_idx]
    BY <1>0, <1>1, <1>4, <1>5, GivesBack, Zenon
<1>7. K \in Nat
    BY Zenon DEF CInv, Types
<1> QED BY <1>0, <1>1, <1>6, <1>7, ReadyIsPacked, ResultIsChunk, Zenon DEF Returned

\* The same for the last chunk of a message, which becomes available.
LEMMA TakeLastReturns ==
    ASSUME CInv, TakeResult, kind = "parallel", next_chunk_idx = msgs[next_ready_msg].n
    PROVE  Returned
<1>0. CInv' /\ submitted_msgs # <<>> /\ next_ready_msg = Head(submitted_msgs)
    BY TakeLastKeeps, Zenon
<1>1. /\ next_ready_msg # NoMsg /\ next_submit_msg = NoMsg /\ next_ready_msg' = NoMsg
      /\ submitted_msgs' = Tail(submitted_msgs)
      /\ UNCHANGED <<kind, shape, msgs, next_submit_msg>>
    BY Zenon DEF TakeResult
<1>2. inOrder = submitted_msgs /\ inOrder' = Tail(submitted_msgs) /\ taken' = 0
    BY <1>1, Zenon DEF inOrder, taken
<1> DEFINE L == Len(submitted_msgs)
           q == submitted_msgs
<1>3. /\ q \in Seq(DOMAIN msgs) /\ L \in Nat \ {0} /\ K \in Nat \ {0} /\ K' = K
      /\ Tail(q) \in Seq(DOMAIN msgs) /\ Len(Tail(q)) = L - 1 /\ \A i \in 1 .. L - 1 : Tail(q)[i] = q[i + 1]
      /\ q[1] = next_ready_msg
    BY <1>0, <1>1, TailFacts DEF CInv, Types, K
<1>4. /\ Total \in Nat /\ taken \in Nat /\ taken < Total /\ taken + 1 = next_chunk_idx /\ taken < K
    BY <1>1, TotalFacts, Zenon
<1>5. CASE L = 1
  <2>1. inOrder' = <<>> /\ Total' = 0
    <3>0. Len(Tail(q)) = 0
        BY <1>3, <1>5
    <3>1. Tail(q) = <<>>
        BY <1>3, <3>0, EmptyIffLen0, Zenon
    <3> QED BY <1>2, <3>1, Zenon DEF Total
  <2>2. Total = next_chunk_idx
    <3>1. LastMsg = next_ready_msg
        BY <1>2, <1>3, <1>5, Zenon DEF LastMsg
    <3>2. Total = (L - 1) * K + next_chunk_idx
        BY <1>0, <1>2, <3>1, Zenon DEF Total
    <3>3. next_chunk_idx \in Nat
        BY Zenon DEF CInv, Types
    <3> QED BY <1>3, <1>5, <3>2, <3>3
  <2>3. Total' - taken' = (Total - taken) - 1
      BY <1>2, <1>4, <2>1, <2>2
  <2>4. \A i \in Nat : taken + i + 1 < Total => Chunk(taken + i)' = Chunk(taken + i + 1)
      BY <1>4, <2>2
  <2>5. /\ pendingChunks # <<>> /\ pendingChunks' = Tail(pendingChunks)
        /\ Head(pendingChunks) = msgs[next_ready_msg].ub[next_chunk_idx]
      BY <1>0, <1>1, <2>3, <2>4, GivesBack, Zenon
  <2> QED BY <1>1, <1>3, <2>5, ReadyIsPacked, ResultIsChunk, Zenon DEF Returned
<1>6. CASE L # 1
  <2>1. L - 1 \in Nat \ {0} /\ inOrder' # <<>>
    <3>1. L - 1 \in Nat \ {0} /\ Len(Tail(q)) # 0
        BY <1>3, <1>6
    <3>2. Tail(q) # <<>>
        BY <1>3, <3>1, EmptyIffLen0, Zenon
    <3> QED BY <1>2, <3>1, <3>2, Zenon
  <2>2. next_chunk_idx = K
    <3>1. 1 \in 1 .. Len(inOrder) - 1
        BY <1>2, <2>1
    <3> QED BY <1>2, <1>3, <3>1, InOrderFacts, Zenon
  <2>3. LastMsg' = LastMsg /\ Len(inOrder') = L - 1
    <3>1. Tail(q)[L - 1] = q[L]
        BY <1>3, <2>1
    <3> QED BY <1>2, <1>3, <3>1, Zenon DEF LastMsg
  <2>4. Total = ((L - 1) * K) + msgs[LastMsg].n /\ Total' = (((L - 1) - 1) * K) + msgs[LastMsg].n
      BY <1>0, <1>1, <1>2, <1>3, <2>1, <2>3, Zenon DEF Total
  <2>5. Total' = Total - K
    <3>1. msgs[LastMsg].n \in Nat
        BY <1>0, <1>2, InOrderFacts
    <3>2. (L - 1) * K = ((L - 1) - 1) * K + K
        BY <1>3
    <3>3. ((L - 1) - 1) * K \in Nat
        BY <1>3, <2>1
    <3> QED BY <1>3, <2>4, <3>1, <3>2, <3>3
  <2>6. Total' - taken' = (Total - taken) - 1
      BY <1>2, <1>3, <1>4, <2>2, <2>5
  <2>7. ASSUME NEW i \in Nat, taken + i + 1 < Total PROVE Chunk(taken + i)' = Chunk(taken + i + 1)
    <3>1. taken + i + 1 = i + K /\ taken' + i = i
        BY <1>2, <1>4, <2>2
    <3>2. (i + K) \div K = i \div K + 1 /\ (i + K) % K = i % K /\ i \div K \in Nat
        BY <1>3, DivisionNext, Division, Zenon
    <3>3. (i \div K) + 1 \in 1 .. L - 1
      <4>1. i + K \in Nat /\ i + K < Total
          BY <1>3, <2>7, <3>1
      <4>2. ((i + K) \div K) + 1 \in 1 .. Len(inOrder)
          BY <4>1, Placed, Zenon
      <4> QED BY <1>2, <1>3, <3>2, <4>2
    <3>4. Tail(q)[(i \div K) + 1] = q[((i \div K) + 1) + 1]
        BY <1>3, <3>3, Zenon
    <3>5. Chunk(taken + i + 1) = msgs[q[((i \div K) + 1) + 1]].ub[(i % K) + 1]
        BY <1>2, <3>1, <3>2, Zenon DEF Chunk, K
    <3>6. Chunk(taken + i)' = msgs[Tail(q)[(i \div K) + 1]].ub[(i % K) + 1]
        BY <1>1, <1>2, <3>1, Zenon DEF Chunk, K
    <3> QED BY <3>4, <3>5, <3>6, Zenon
  <2>8. /\ pendingChunks # <<>> /\ pendingChunks' = Tail(pendingChunks)
        /\ Head(pendingChunks) = msgs[next_ready_msg].ub[next_chunk_idx]
      BY <1>0, <1>1, <2>6, <2>7, GivesBack, Zenon
  <2> QED BY <1>1, <1>3, <2>8, ReadyIsPacked, ResultIsChunk, Zenon DEF Returned
<1> QED BY <1>5, <1>6, Zenon

-----------------------------------------------------------------------------
(***************************************************************************)
(* The operations as their caller sees them                                *)
(***************************************************************************)
LEMMA SameCompressor ==
    ASSUME CInv, UNCHANGED ccvars
    PROVE  CInv' /\ pendingChunks' = pendingChunks /\ K' = K /\ (NoResult' <=> NoResult)
<1>0. /\ UNCHANGED <<kind, shape, msgs, available_msgs, submitted_msgs, next_submit_msg, next_ready_msg>>
      /\ UNCHANGED <<next_chunk_idx, to_compress, compressed, thr>>
    BY Zenon DEF ccvars, owned, queues
<1>1. K' = K /\ (NoResult' <=> NoResult)
    BY <1>0, Zenon DEF K, NoResult
<1>2. Types' /\ Plain'
    BY <1>0, <1>1, Zenon DEF CInv, Types, Plain
<1>3. Owned' /\ Full'
    BY <1>0, <1>1, Zenon DEF CInv, Owned, Full
<1>4. \A m : (Underway(m)' <=> Underway(m)) /\ (AtWorker(m)' <=> AtWorker(m)) /\ (Compressing(m)' <=> Compressing(m))
    BY <1>0, Zenon DEF Underway, AtWorker, Compressing
<1>5. Stages' /\ Results'
    BY <1>0, <1>1, <1>4, Zenon DEF CInv, Stages, Results
<1>6. CInv'
    BY <1>2, <1>3, <1>5, Zenon DEF CInv
<1>7. SameChunks /\ UNCHANGED owned
    BY <1>0, Zenon DEF SameChunks, owned
<1>8. pendingChunks' = pendingChunks
    BY <1>0, <1>6, <1>7, QuietKeepsPending, Zenon
<1> QED BY <1>1, <1>6, <1>8, Zenon

\* prepare_chunk_buffer: no buffer, so every message was submitted
LEMMA NoBufferMeansResult ==
    ASSUME CInv, kind # "none", NoBuffer
    PROVE  next_submit_msg = NoMsg /\ ~NoResult
<1>1. CASE kind = "serial"
    BY <1>1, Zenon DEF CInv, Results, NoBuffer, NoResult
<1>2. CASE kind = "parallel"
  <2>1. 1 \in DOMAIN msgs /\ submitted_msgs \in Seq(DOMAIN msgs)
      BY Zenon DEF CInv, Types, MsgsOK
  <2>2. next_submit_msg = NoMsg /\ available_msgs = <<>> /\ NoMsg = 0
      BY <1>2, Zenon DEF NoBuffer, NoMsg
  <2>3. ~In(available_msgs, 1) /\ next_submit_msg # 1
      BY <2>2, EmptyFacts
  <2>4. In(submitted_msgs, 1)
      BY <1>2, <2>1, <2>3, Zenon DEF CInv, Owned
  <2>5. submitted_msgs # <<>>
      BY <2>4, EmptyFacts, Zenon
  <2> QED BY <1>2, <2>2, <2>5, Zenon DEF NoResult
<1> QED BY <1>1, <1>2, Zenon DEF CInv, Types

\* The serial compressor gives out its one buffer.
LEMMA SerialGetKeeps ==
    ASSUME CInv, kind = "serial", get_chunk_buffer
    PROVE  CInv' /\ pendingChunks' = pendingChunks /\ next_submit_msg' = 1 /\ UNCHANGED <<kind, next_ready_msg>>
<1>1. /\ next_ready_msg = NoMsg /\ next_submit_msg' = 1
      /\ UNCHANGED <<kind, shape, msgs, available_msgs, submitted_msgs, next_ready_msg, next_chunk_idx>>
      /\ UNCHANGED <<to_compress, compressed, thr>>
    BY Zenon DEF get_chunk_buffer, NoBuffer, queues
<1>2. K' = K
    BY <1>1, Zenon DEF K
<1>3. Types'
    BY <1>1, <1>2, Zenon DEF CInv, Types, MsgsOK
<1>4. Plain'
    BY <1>1, <1>2, Zenon DEF CInv, Plain
<1>5. Owned' /\ Full' /\ Stages'
    BY <1>1, Zenon DEF Owned, Full, Stages
<1>6. Results'
    BY <1>1, Zenon DEF CInv, Results
<1>7. pendingChunks' = pendingChunks
    BY <1>1, Zenon DEF pendingChunks
<1> QED BY <1>1, <1>3, <1>4, <1>5, <1>6, <1>7, Zenon DEF CInv

\* A piece of a blob is copied to the buffer: no other buffer changes.
LEMMA CopyIsFill ==
    ASSUME CInv, kind # "none", next_submit_msg # NoMsg, NEW f,
           NEW ms, ms = [msgs EXCEPT ![next_submit_msg].ub[Slot] = f]
    PROVE  FillOf(ms)
<1> DEFINE s == next_submit_msg
<1>1. s \in DOMAIN msgs /\ MsgsOK(msgs, K) /\ K \in Nat \ {0}
    BY Zenon DEF CInv, Types
<1>2. MsgOK(msgs[s], K)
    BY <1>1, Zenon DEF MsgsOK
<1>3. ms = [msgs EXCEPT ![s] = [msgs[s] EXCEPT !.ub = [msgs[s].ub EXCEPT ![Slot] = f]]]
    OBVIOUS
<1> DEFINE r == [msgs[s] EXCEPT !.ub = [msgs[s].ub EXCEPT ![Slot] = f]]
<1>4. /\ DOMAIN r = DOMAIN msgs[s] /\ r.cb = msgs[s].cb /\ r.cs = msgs[s].cs /\ r.n = msgs[s].n
      /\ r.complete = msgs[s].complete /\ r.ub = [msgs[s].ub EXCEPT ![Slot] = f]
    BY <1>2, Zenon DEF MsgOK
<1>5. /\ DOMAIN r.ub = 1 .. K /\ \A i \in 1 .. K : i # Slot => r.ub[i] = msgs[s].ub[i]
    BY <1>2, <1>4, Zenon DEF MsgOK
<1>6. MsgOK(r, K)
    BY <1>2, <1>4, <1>5, Zenon DEF MsgOK
<1> HIDE DEF r
<1>7. DOMAIN ms = DOMAIN msgs /\ ms[s] = r /\ \A m \in DOMAIN msgs : m # s => ms[m] = msgs[m]
    BY <1>1, <1>3, Zenon DEF r
<1>8. MsgsOK(ms, K)
    BY <1>1, <1>6, <1>7, Zenon DEF MsgsOK
<1> QED BY <1>4, <1>5, <1>7, <1>8, Zenon DEF FillOf

\* Messages that nobody touches keep their chunks.
LEMMA SameIsFill == ASSUME CInv PROVE FillOf(msgs)
BY Zenon DEF CInv, Types, FillOf

\* The rest of the piece stays for the next chunk.
LEMMA FillIsQuiet ==
    ASSUME CInv, kind # "none", next_submit_msg # NoMsg, FillOf(msgs'),
           UNCHANGED <<kind, shape, owned, to_compress, compressed, thr>>
    PROVE  /\ CInv' /\ pendingChunks' = pendingChunks /\ DOMAIN msgs' = DOMAIN msgs
           /\ \A m \in DOMAIN msgs : msgs'[m].n = msgs[m].n
<1>1. CInv'
    BY FillKeeps, Zenon
<1>2. UNCHANGED <<available_msgs, submitted_msgs, next_submit_msg, next_ready_msg, next_chunk_idx>>
    BY Zenon DEF owned
<1>3. DOMAIN msgs' = DOMAIN msgs /\ \A m \in DOMAIN msgs : msgs'[m].n = msgs[m].n
    BY Zenon DEF FillOf
<1>4. CASE kind = "serial"
  <2>1. next_ready_msg = NoMsg
      BY <1>4, Zenon DEF CInv, Results
  <2> QED BY <1>1, <1>2, <1>3, <1>4, <2>1, Zenon DEF pendingChunks
<1>5. CASE kind = "parallel"
  <2>1. /\ next_submit_msg \in DOMAIN msgs /\ Slot = msgs[next_submit_msg].n + 1
        /\ msgs[next_submit_msg].n \in 0 .. K /\ K \in Nat
      BY <1>5, Zenon DEF CInv, Types, MsgsOK, MsgOK, Slot
  <2>2. \A m \in DOMAIN msgs : msgs[m].n \in 0 .. K
      BY Zenon DEF CInv, Types, MsgsOK, MsgOK
  <2>3. SameChunks
    <3>1. ASSUME NEW m \in DOMAIN msgs, NEW i \in 1 .. msgs[m].n
          PROVE  msgs'[m].ub[i] = msgs[m].ub[i]
      <4>1. CASE m = next_submit_msg
        <5>1. i \in 1 .. K /\ i # Slot
            BY <2>1, <4>1
        <5> QED BY <4>1, <5>1, Zenon DEF FillOf
      <4>2. CASE m # next_submit_msg
          BY <4>2, Zenon DEF FillOf
      <4> QED BY <4>1, <4>2, Zenon
    <3> QED BY <1>3, <3>1, Zenon DEF SameChunks
  <2> QED BY <1>1, <1>3, <2>3, QuietKeepsPending, Zenon
<1> QED BY <1>4, <1>5, Zenon DEF CInv, Types

\* signal_chunk_filled hands one chunk over, whichever the compressor is.
HandStep == /\ Len(pendingChunks') = Len(pendingChunks) + 1
            /\ SubSeq(pendingChunks', 1, Len(pendingChunks)) = pendingChunks

\* signal_chunk_filled of either compressor hands one chunk over; what stays
\* with the owner is part-filled, what is submitted is full.
LEMMA SignalHands ==
    ASSUME CInv, kind # "none", next_submit_msg # NoMsg, NEW ms, FillOf(ms), signal_chunk_filled(ms),
           UNCHANGED <<kind, shape, available_msgs, next_chunk_idx, compressed>>
    PROVE  /\ CInv' /\ HandStep
           /\ kind = "parallel" /\ next_submit_msg' # NoMsg => msgs'[next_submit_msg'].n # 0
           /\ kind = "parallel" /\ submitted_msgs' # <<>>
                 /\ (submitted_msgs # <<>> => msgs[submitted_msgs[Len(submitted_msgs)]].n = K)
              => msgs'[submitted_msgs'[Len(submitted_msgs')]].n = K'
<1>1. CASE kind = "serial"
  <2>1. CInv' /\ next_ready_msg' = 1 /\ next_submit_msg' = NoMsg
      BY <1>1, SerialSignalKeeps, Zenon
  <2>2. next_ready_msg = NoMsg
      BY <1>1, Zenon DEF CInv, Results
  <2>3. pendingChunks = <<>> /\ pendingChunks' = <<msgs'[1].ub[1]>>
      BY <1>1, <2>1, <2>2 DEF pendingChunks, NoMsg
  <2>4. HandStep
      BY <2>3 DEF HandStep
  <2> QED BY <1>1, <2>1, <2>4, Zenon
<1>2. CASE kind = "parallel"
  <2>1. CInv' /\ Handed /\ next_ready_msg' = next_ready_msg
      BY <1>2, SignalKeeps, Zenon
  <2>2. HandStep
      BY <1>2, <2>1, HandedHandsOver, Zenon DEF HandStep
  <2>3. next_submit_msg \in DOMAIN msgs /\ msgs[next_submit_msg].n \in Nat
      BY DEF CInv, Types, MsgsOK, MsgOK
  <2>4. next_submit_msg' # NoMsg => msgs'[next_submit_msg'].n # 0
      BY <2>1, <2>3 DEF Handed
  <2>5. ASSUME submitted_msgs' # <<>>, submitted_msgs # <<>> => msgs[submitted_msgs[Len(submitted_msgs)]].n = K
        PROVE  msgs'[submitted_msgs'[Len(submitted_msgs')]].n = K'
    <3>0. submitted_msgs \in Seq(DOMAIN msgs) /\ K' = K
        BY Zenon DEF CInv, Types, K
    <3>1. CASE submitted_msgs' = submitted_msgs
      <4>1. Len(submitted_msgs) \in 1 .. Len(submitted_msgs)
          BY <2>5, <3>0, <3>1
      <4>2. LET l == submitted_msgs[Len(submitted_msgs)] IN l \in DOMAIN msgs /\ In(submitted_msgs, l)
          BY <3>0, <4>1, RangeIn, Zenon
      <4>3. submitted_msgs[Len(submitted_msgs)] # next_submit_msg
          BY <1>2, <2>3, <4>2, Zenon DEF CInv, Owned
      <4> QED BY <2>1, <2>5, <3>0, <3>1, <4>2, <4>3, Zenon DEF Handed
    <3>2. CASE submitted_msgs' = Append(submitted_msgs, next_submit_msg) /\ msgs'[next_submit_msg].n = K
      <4>1. submitted_msgs'[Len(submitted_msgs')] = next_submit_msg
          BY <2>3, <3>0, <3>2, AppendFacts
      <4> QED BY <3>0, <3>2, <4>1, Zenon
    <3> QED BY <2>1, <3>1, <3>2, Zenon DEF Handed
  <2> QED BY <1>2, <2>1, <2>2, <2>4, <2>5, Zenon
<1> QED BY <1>1, <1>2, Zenon DEF CInv, Types

\* A result is never taken for none.
LEMMA ResultIsRecord == Result # <<>>
<1>1. "data" \in DOMAIN Result
    BY Zenon DEF Result
<1>2. "data" \notin DOMAIN <<>>
    OBVIOUS
<1> QED BY <1>1, <1>2, Zenon

\* TakeResult gives the chunk back that was handed over first.
LEMMA TakeGivesBack ==
    ASSUME CInv, TakeResult
    PROVE  CInv' /\ Returned /\ kind # "none"
<1>0. kind # "none"
    BY Zenon DEF TakeResult, CInv, Plain
<1>1. CASE kind = "serial"
  <2>1. CInv' /\ next_ready_msg' = NoMsg /\ next_ready_msg = 1 /\ next_chunk_idx = 1 /\ Packed(msgs[1], 1)
      BY <1>1, TakeSerialKeeps, Zenon
  <2>2. kind' = kind /\ msgs' = msgs /\ NoMsg = 0
      BY Zenon DEF TakeResult, NoMsg
  <2>3. Result.data = msgs[1].ub[1]
      BY <2>1, ResultIsChunk
  <2>4. pendingChunks = <<msgs[1].ub[1]>> /\ pendingChunks' = <<>>
      BY <1>1, <2>1, <2>2 DEF pendingChunks
  <2> QED BY <1>0, <2>1, <2>3, <2>4 DEF Returned
<1>2. CASE kind = "parallel" /\ next_chunk_idx = msgs[next_ready_msg].n
    BY <1>0, <1>2, TakeLastKeeps, TakeLastReturns, Zenon
<1>3. CASE kind = "parallel" /\ next_chunk_idx # msgs[next_ready_msg].n
    BY <1>0, <1>3, TakeKeeps, TakeReturns, Zenon
<1> QED BY <1>0, <1>1, <1>2, <1>3, Zenon DEF CInv, Types

-----------------------------------------------------------------------------
(***************************************************************************)
(* One owner                                                               *)
(***************************************************************************)
LEMMA PlaceInQueue ==
    ASSUME NEW s, Once(s), NEW m, NEW tag
    PROVE  LET S == {<<tag, k>> : k \in {k \in 1 .. Len(s) : s[k] = m}} IN
           (~In(s, m) => S = {}) /\ (In(s, m) => \E x : S = {x})
<1> DEFINE I == {k \in 1 .. Len(s) : s[k] = m}
           S == {<<tag, k>> : k \in I}
<1>1. ASSUME ~In(s, m) PROVE S = {}
  <2>1. I = {}
      BY <1>1, Zenon DEF In
  <2> QED BY <2>1, Zenon
<1>2. ASSUME In(s, m) PROVE \E x : S = {x}
  <2>1. PICK i \in 1 .. Len(s) : s[i] = m
      BY <1>2, Zenon DEF In
  <2>2. I = {i}
      BY <2>1, Zenon DEF Once
  <2> HIDE DEF I
  <2>3. S = {<<tag, i>>}
      BY <2>2, Zenon
  <2> QED BY <2>3, Zenon
<1> QED BY <1>1, <1>2, Zenon

\* compress_parallel.c: a message is in one list, one queue or one thread.
LEMMA OneOwnerHolds ==
    ASSUME CInv
    PROVE  OneOwner
<1> SUFFICES ASSUME kind = "parallel", NEW m \in DOMAIN msgs
             PROVE  \E x \in Owners(m) : Owners(m) = {x}
    BY Zenon DEF OneOwner
<1> DEFINE A == {<<"available", k>> : k \in {k \in 1 .. Len(available_msgs) : available_msgs[k] = m}}
           F == {<<"filled", 1>> : x \in {next_submit_msg} \cap {m}}
           Q == {<<"queued", k>> : k \in {k \in 1 .. Len(to_compress) : to_compress[k] = m}}
           W == {<<"worker", t>> : t \in {t \in Threads : thr[t].msg = m}}
           C == {<<"compressed", k>> : k \in {k \in 1 .. Len(compressed) : compressed[k] = m}}
           R == {<<"received", k>> : k \in {k \in 1 .. Len(submitted_msgs) :
                                                submitted_msgs[k] = m /\ msgs[m].complete}}
<1>0. m # NoMsg /\ msgs[m].complete \in BOOLEAN
    BY Zenon DEF CInv, Types, MsgsOK, MsgOK, NoMsg
<1>1. Owners(m) = A \cup F \cup Q \cup W \cup C \cup R
    BY Zenon DEF Owners
<1>2. Once(available_msgs) /\ Once(submitted_msgs) /\ Once(to_compress) /\ Once(compressed)
    BY Zenon DEF CInv, Owned, Stages
<1>3. (~In(available_msgs, m) => A = {}) /\ (In(available_msgs, m) => \E x : A = {x})
    BY <1>2, PlaceInQueue, Zenon
<1>4. (~In(to_compress, m) => Q = {}) /\ (In(to_compress, m) => \E x : Q = {x})
    BY <1>2, PlaceInQueue, Zenon
<1>5. (~In(compressed, m) => C = {}) /\ (In(compressed, m) => \E x : C = {x})
    BY <1>2, PlaceInQueue, Zenon
<1>6. (next_submit_msg # m => F = {}) /\ (next_submit_msg = m => \E x : F = {x})
  <2>1. CASE next_submit_msg # m
      BY <2>1, Zenon
  <2>2. CASE next_submit_msg = m
    <3>1. F = {<<"filled", 1>>}
        BY <2>2, Zenon
    <3> QED BY <2>2, <3>1, Zenon
  <2> QED BY <2>1, <2>2, Zenon
<1>7. (~AtWorker(m) => W = {}) /\ (AtWorker(m) => \E x : W = {x})
  <2>1. CASE ~AtWorker(m)
    <3>1. {t \in Threads : thr[t].msg = m} = {}
        BY <2>1, Zenon DEF AtWorker
    <3> QED BY <2>1, <3>1, Zenon
  <2>2. CASE AtWorker(m)
    <3>1. PICK t \in Threads : thr[t].msg = m
        BY <2>2, Zenon DEF AtWorker
    <3>2. \A u \in Threads : thr[u].msg = m => u = t
        BY <1>0, <3>1, Zenon DEF CInv, Stages
    <3>3. {u \in Threads : thr[u].msg = m} = {t}
        BY <3>1, <3>2, Zenon
    <3>4. W = {<<"worker", t>>}
        BY <3>3, Zenon
    <3> QED BY <2>2, <3>4, Zenon
  <2> QED BY <2>1, <2>2, Zenon
<1>8. /\ ~(In(submitted_msgs, m) /\ msgs[m].complete) => R = {}
      /\ In(submitted_msgs, m) /\ msgs[m].complete => \E x : R = {x}
  <2>1. CASE ~msgs[m].complete
    <3>1. {k \in 1 .. Len(submitted_msgs) : submitted_msgs[k] = m /\ msgs[m].complete} = {}
        BY <2>1, Zenon
    <3> QED BY <2>1, <3>1, Zenon
  <2>2. CASE msgs[m].complete
    <3>1. R = {<<"received", k>> : k \in {k \in 1 .. Len(submitted_msgs) : submitted_msgs[k] = m}}
        BY <2>2, Zenon
    <3> DEFINE S == {<<"received", k>> : k \in {k \in 1 .. Len(submitted_msgs) : submitted_msgs[k] = m}}
    <3>2. (~In(submitted_msgs, m) => S = {}) /\ (In(submitted_msgs, m) => \E x : S = {x})
        BY <1>2, PlaceInQueue, Zenon
    <3>3. R = S
        BY <3>1, Zenon
    <3> HIDE DEF R, S
    <3> QED BY <2>2, <3>2, <3>3, Zenon
  <2> QED BY <2>1, <2>2, Zenon
<1>9. /\ In(available_msgs, m) \/ next_submit_msg = m \/ In(submitted_msgs, m)
      /\ ~(In(available_msgs, m) /\ next_submit_msg = m)
      /\ ~(In(available_msgs, m) /\ In(submitted_msgs, m))
      /\ ~(next_submit_msg = m /\ In(submitted_msgs, m))
    BY Zenon DEF CInv, Owned
<1>10. /\ In(submitted_msgs, m) /\ ~msgs[m].complete <=> In(to_compress, m) \/ AtWorker(m) \/ In(compressed, m)
       /\ ~(In(to_compress, m) /\ AtWorker(m))
       /\ ~(In(to_compress, m) /\ In(compressed, m))
       /\ ~(AtWorker(m) /\ In(compressed, m))
    BY Zenon DEF CInv, Stages, Underway
<1> HIDE DEF A, F, Q, W, C, R
<1>11. \E x : A \cup F \cup Q \cup W \cup C \cup R = {x}
  <2>1. CASE In(available_msgs, m)
    <3>1. PICK x : A = {x}
        BY <1>3, <2>1, Zenon
    <3>2. F = {} /\ Q = {} /\ W = {} /\ C = {} /\ R = {}
        BY <1>4, <1>5, <1>6, <1>7, <1>8, <1>9, <1>10, <2>1, Zenon
    <3> QED BY <3>1, <3>2, Zenon
  <2>2. CASE next_submit_msg = m
    <3>1. PICK x : F = {x}
        BY <1>6, <2>2, Zenon
    <3>2. A = {} /\ Q = {} /\ W = {} /\ C = {} /\ R = {}
        BY <1>3, <1>4, <1>5, <1>7, <1>8, <1>9, <1>10, <2>2, Zenon
    <3> QED BY <3>1, <3>2, Zenon
  <2>3. CASE In(submitted_msgs, m) /\ msgs[m].complete
    <3>1. PICK x : R = {x}
        BY <1>8, <2>3, Zenon
    <3>2. A = {} /\ F = {} /\ Q = {} /\ W = {} /\ C = {}
        BY <1>3, <1>4, <1>5, <1>6, <1>7, <1>9, <1>10, <2>3, Zenon
    <3> QED BY <3>1, <3>2, Zenon
  <2>4. CASE In(submitted_msgs, m) /\ ~msgs[m].complete
    <3>1. A = {} /\ F = {} /\ R = {}
        BY <1>3, <1>6, <1>8, <1>9, <2>4, Zenon
    <3>2. CASE In(to_compress, m)
        BY <1>4, <1>5, <1>7, <1>10, <3>1, <3>2, Zenon
    <3>3. CASE AtWorker(m)
        BY <1>4, <1>5, <1>7, <1>10, <3>1, <3>3, Zenon
    <3>4. CASE In(compressed, m)
        BY <1>4, <1>5, <1>7, <1>10, <3>1, <3>4, Zenon
    <3> QED BY <1>10, <2>4, <3>2, <3>3, <3>4, Zenon
  <2> QED BY <1>9, <2>1, <2>2, <2>3, <2>4, Zenon
<1> QED BY <1>1, <1>11, Zenon
=============================================================================
