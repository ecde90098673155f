---------------------------- MODULE ProcessSearch ----------------------------
(***************************************************************************)
(* process.c: a thread keeps looking for processes that have the selected   *)
(* drive open; the dialog (or the format thread while the dialog waits for  *)
(* it) starts and stops it, gives it the drive's names and asks for what it *)
(* has found.  They share blocking_process, guarded by a mutex that each    *)
(* search thread creates anew.                                              *)
(***************************************************************************)
EXTENDS Integers, FiniteSets

CONSTANTS NumProcs,                 \* processes are 1 .. NumProcs, in the order of the list of handles
          Access,                   \* how each process opens a drive
          MAX_BLOCKING_PROCESSES,
          PassRange,                \* of uint32_t nPass
          MaxStarts, MaxSets, MaxPasses, MaxFaults   \* bounds of the model

Procs == 1 .. NumProcs

ASSUME BoundAssumption == /\ {NumProcs, MAX_BLOCKING_PROCESSES, MaxStarts, MaxSets, MaxPasses} \subseteq Nat \ {0}
                          /\ MaxFaults \in Nat /\ PassRange \in Nat /\ PassRange > MaxPasses + 1
ASSUME AccessAssumption == Access \in [Procs -> SUBSET {"r", "w", "x"}]

VARIABLES handle,   \* hSearchProcessThread: the number of the thread, or 0
          bp,       \* blocking_process
          lock,     \* who has the mutex of each thread
          thr,      \* the search thread
          cl,       \* the caller
          faults,   \* system calls that have failed
          past      \* of the drive set last: the number of its names, and what the passes over it found
search_vars == <<handle, bp, lock, thr, cl, faults, past>>

Slots == 1 .. MAX_BLOCKING_PROCESSES
NoNames == 0                         \* nHandles = 0; else the number of the SetProcessSearch
NoEntry == [pid |-> 0, seen |-> 0]
Zeroed == [bActive |-> FALSE, v0 |-> 0, v1 |-> 0, names |-> NoNames, hLock |-> 0, hStart |-> "null",
           nPass |-> 0, table |-> [j \in Slots |-> NoEntry]]
NewThread(pc, n) == [pc |-> pc, n |-> n, names |-> NoNames, i |-> 1]
NoCall == [pc |-> "idle", l |-> 0]
NothingFound == [passes |-> 0, hits |-> [p \in Procs |-> 0], stored |-> {}, ever |-> {}, first |-> FALSE]

SearchInit ==
    /\ handle = 0 /\ bp = Zeroed /\ lock = [n \in 1 .. MaxStarts |-> "none"]
    /\ thr = NewThread("none", 0) /\ cl = NoCall /\ faults = 0
    /\ past = [set |-> 0, killed |-> FALSE, this |-> NothingFound]

Starts == Cardinality({n \in 1 .. MaxStarts : lock[n] # "none"})
Fault == faults < MaxFaults /\ faults' = faults + 1
mine == thr.n                        \* the thread's own hLock
ThreadAt(pc) == thr.pc = pc
ThreadGoto(pc) == thr' = [thr EXCEPT !.pc = pc]

-----------------------------------------------------------------------------
(***************************************************************************)
(* SearchProcessThread                                                     *)
(***************************************************************************)
\* blocking_process is zeroed and the mutex made, which the others see last.
ThreadInit ==
    /\ ThreadAt("init")
    /\ bp' = [Zeroed EXCEPT !.hStart = "reset"] /\ lock' = [lock EXCEPT ![mine] = "free"]
    /\ \/ ThreadGoto("publish") /\ UNCHANGED faults
       \/ ThreadGoto("out") /\ Fault
    /\ UNCHANGED <<handle, cl, past>>

ThreadPublish ==
    /\ ThreadAt("publish") /\ bp' = [bp EXCEPT !.hLock = mine]
    /\ \/ ThreadGoto("wait") /\ UNCHANGED faults
       \/ ThreadGoto("out") /\ Fault
    /\ UNCHANGED <<handle, lock, cl, past>>

\* bActive is looked at once, then the start event is waited for.
ThreadWait ==
    /\ \/ ThreadAt("wait") /\ bp.bActive /\ ThreadGoto("top")
       \/ ThreadAt("wait") /\ ~bp.bActive /\ ThreadGoto("waiting")
       \/ ThreadAt("waiting") /\ bp.hStart = "set" /\ ThreadGoto("top")
    /\ UNCHANGED <<handle, bp, lock, cl, faults, past>>

\* The lock is waited for, up to a timeout.  Where the passes reach the bound of
\* the model the thread stays in the Sleep before.
ThreadLocks ==
    /\ ThreadAt("top")
    /\ \/ ~bp.bActive /\ ThreadGoto("out") /\ UNCHANGED lock
       \/ /\ bp.bActive /\ lock[mine] = "free" /\ (bp.nPass < MaxPasses \/ bp.v0 # bp.v1)
          /\ ThreadGoto("names") /\ lock' = [lock EXCEPT ![mine] = "thread"]
       \/ bp.bActive /\ lock[mine] = "caller" /\ ThreadGoto("out") /\ UNCHANGED lock
    /\ UNCHANGED <<handle, bp, cl, faults, past>>

\* Mutant: the passes over the names before still count.
ThreadNames_keepcount ==
    /\ ThreadAt("names") /\ lock' = [lock EXCEPT ![mine] = "free"]
    /\ bp.names # NoNames /\ UNCHANGED faults
    /\ bp' = [bp EXCEPT !.v1 = bp.v0] /\ thr' = [thr EXCEPT !.pc = "enum", !.names = bp.names]
    /\ UNCHANGED <<handle, cl, past>>

\* With the lock: new names are copied and the passes counted from 0 again.
ThreadNames ==
    /\ ThreadAt("names") /\ lock' = [lock EXCEPT ![mine] = "free"]
    /\ \/ bp.names = NoNames /\ ThreadGoto("top") /\ UNCHANGED <<bp, faults>>
       \/ /\ bp.names # NoNames /\ bp.v0 # bp.v1
          /\ bp' = [bp EXCEPT !.v1 = bp.v0, !.nPass = 0]
          /\ thr' = [thr EXCEPT !.pc = "enum", !.names = bp.names] /\ UNCHANGED faults
       \/ bp.names # NoNames /\ bp.v0 = bp.v1 /\ ThreadGoto("enum") /\ UNCHANGED <<bp, faults>>
       \/ bp.names # NoNames /\ bp.v0 # bp.v1 /\ ThreadGoto("out") /\ Fault /\ UNCHANGED bp
    /\ UNCHANGED <<handle, cl, past>>

\* PhEnumHandlesEx, and the buffer
ThreadEnumerates ==
    /\ ThreadAt("enum")
    /\ \/ ThreadGoto("scan") /\ UNCHANGED faults
       \/ \E pc \in {"top", "out"} : ThreadGoto(pc) /\ Fault
    /\ UNCHANGED <<handle, bp, lock, cl, past>>

\* The handles of process i: others open and close the drive at any time, so
\* that one of the names is found among them or not (nor is it if the process
\* may not be opened, or is not because its first handle is of no interest).
\* NtQueryObject may never return.
ThreadScans ==
    /\ ThreadAt("scan")
    /\ \/ bp.bActive /\ thr.i <= NumProcs /\ thr' = [thr EXCEPT !.i = @ + 1] /\ UNCHANGED faults
       \/ bp.bActive /\ thr.i <= NumProcs /\ ThreadGoto("store") /\ UNCHANGED faults
       \/ bp.bActive /\ thr.i <= NumProcs /\ ThreadGoto("hung") /\ Fault
       \/ ~bp.bActive /\ ThreadGoto("out") /\ UNCHANGED faults
       \/ (thr.i > NumProcs \/ ~bp.bActive) /\ ThreadGoto("pass") /\ UNCHANGED faults
    /\ UNCHANGED <<handle, bp, lock, cl, past>>

\* The next process begins: what was found of this one is stored, with the
\* lock, unless that cannot be had, or the search has been stopped.
StoreLocks ==
    /\ ThreadAt("store")
    /\ \/ lock[mine] = "free" /\ lock' = [lock EXCEPT ![mine] = "thread"] /\ ThreadGoto("storing")
       \/ lock[mine] = "caller" /\ UNCHANGED lock /\ thr' = [thr EXCEPT !.pc = "scan", !.i = thr.i + 1]
       \/ ~bp.bActive /\ UNCHANGED lock /\ ThreadGoto("pass")
    /\ UNCHANGED <<handle, bp, cl, faults, past>>

\* Mutant: every entry that the current pass has not seen is dropped.
Stale_notseen(e) == e.pid # 0 /\ e.seen < bp.nPass

\* Entries not seen for a pass or two are dropped.  uint32_t: before the first
\* pass ends nPass - 1 is the largest number there is.
SearchStale(e) == e.pid # 0 /\ e.seen < (bp.nPass - 1) % PassRange
Pruned == [j \in Slots |-> IF SearchStale(bp.table[j]) THEN NoEntry ELSE bp.table[j]]
First(S) == CHOOSE j \in S : \A k \in S : j <= k

\* Mutant: an entry of the same process is not looked for.
SlotFor_noreuse(table, p) ==
    IF \E j \in Slots : table[j].pid = 0 THEN {First({j \in Slots : table[j].pid = 0})} ELSE {}

\* The entry of the process, or else the first that is free, if there is one
SlotFor(table, p) ==
    IF \E j \in Slots : table[j].pid = p THEN {First({j \in Slots : table[j].pid = p})}
    ELSE IF \E j \in Slots : table[j].pid = 0 THEN {First({j \in Slots : table[j].pid = 0})}
    ELSE {}

StoreProcess ==
    /\ ThreadAt("storing") /\ lock' = [lock EXCEPT ![mine] = "free"]
    /\ thr' = [thr EXCEPT !.pc = "scan", !.i = thr.i + 1]
    /\ LET s == SlotFor(Pruned, thr.i) IN
       /\ bp' = [bp EXCEPT !.table = [j \in Slots |->
                    IF j \in s THEN [pid |-> thr.i, seen |-> bp.nPass] ELSE Pruned[j]]]
       /\ past' = [past EXCEPT !.this.stored = IF s # {} THEN @ \cup {thr.i} ELSE @,
                               !.this.ever = IF thr.names = past.set THEN @ \cup {thr.i} ELSE @,
                               !.this.first = @ \/ (thr.names = past.set /\ bp.nPass = 0)]
    /\ UNCHANGED <<handle, cl, faults>>

Min2(n) == IF n > 2 THEN 2 ELSE n

\* The pass is over, or cut short: counted without the lock.
PassEnds ==
    /\ ThreadAt("pass") /\ thr' = [thr EXCEPT !.pc = "top", !.i = 1]
    /\ bp' = [bp EXCEPT !.nPass = @ + 1]
    /\ past' = IF thr.names = past.set /\ thr.i > NumProcs
               THEN [past EXCEPT !.this.passes = past.this.passes + 1, !.this.stored = {},
                                 !.this.hits = [p \in Procs |-> IF p \in past.this.stored THEN Min2(past.this.hits[p] + 1) ELSE 0]]
               ELSE [past EXCEPT !.this.stored = {}]
    /\ UNCHANGED <<handle, lock, cl, faults>>

ThreadExits == thr' = NewThread("exited", mine)

\* The end: with the lock, if it can be had, nothing is left in blocking_process
\* that could be used; then the mutex is closed.
ThreadLeaves ==
    /\ ThreadAt("out")
    /\ \/ lock[mine] = "free" /\ lock' = [lock EXCEPT ![mine] = "thread"] /\ ThreadGoto("cleanup")
       \/ lock[mine] = "caller" /\ lock' = [lock EXCEPT ![mine] = "closed"] /\ ThreadExits
    /\ UNCHANGED <<handle, bp, cl, faults, past>>

ThreadCleansUp ==
    /\ ThreadAt("cleanup") /\ ThreadExits
    /\ bp' = [bp EXCEPT !.hLock = 0, !.bActive = FALSE, !.names = NoNames, !.hStart = "null"]
    /\ lock' = [lock EXCEPT ![mine] = "closed"]
    /\ UNCHANGED <<handle, cl, faults, past>>

Thread == \/ ThreadInit \/ ThreadPublish \/ ThreadWait \/ ThreadLocks \/ ThreadNames \/ ThreadEnumerates
          \/ ThreadScans \/ StoreLocks \/ StoreProcess \/ PassEnds \/ ThreadLeaves \/ ThreadCleansUp

-----------------------------------------------------------------------------
(***************************************************************************)
(* The caller                                                              *)
(***************************************************************************)
CallerAt(pc) == cl.pc = pc
CallerGoto(pc) == cl' = [cl EXCEPT !.pc = pc]
Return == cl' = NoCall

\* A drive is selected: StartProcessSearch and SetProcessSearch, and if one of
\* them fails StopProcessSearch.
StartProcessSearch ==
    /\ CallerAt("idle") /\ past.set < MaxSets
    /\ \/ /\ handle # 0 /\ CallerGoto("set")
          /\ UNCHANGED <<handle, lock, thr, faults>>
       \/ /\ handle = 0 /\ Starts < MaxStarts /\ CallerGoto("poll")
          /\ handle' = Starts + 1 /\ lock' = [lock EXCEPT ![Starts + 1] = "new"]
          /\ thr' = NewThread("init", Starts + 1) /\ UNCHANGED faults
       \/ handle = 0 /\ Fault /\ UNCHANGED <<handle, lock, thr, cl>>
    /\ UNCHANGED <<bp, past>>

\* TerminateThread: a mutex it had is abandoned, blocking_process stays as it is.
Terminate ==
    /\ thr' = IF ThreadAt("exited") THEN thr ELSE NewThread("killed", mine)
    /\ lock' = IF lock[mine] = "thread" THEN [lock EXCEPT ![mine] = "abandoned"] ELSE lock
    /\ past' = [past EXCEPT !.killed = TRUE] /\ handle' = 0

PollLock ==
    /\ CallerAt("poll")
    /\ \/ bp.hLock # 0 /\ CallerGoto("set") /\ UNCHANGED <<handle, lock, thr, past>>
       \/ bp.hLock = 0 /\ Terminate /\ Return
    /\ UNCHANGED <<bp, faults>>

\* The names are looked up, and the lock as it is now is waited for.
SetProcessSearch ==
    /\ CallerAt("set")
    /\ \/ bp.hLock # 0 /\ cl' = [pc |-> "set_wait", l |-> bp.hLock] /\ UNCHANGED faults
       \/ bp.hLock = 0 /\ CallerGoto("stop") /\ UNCHANGED faults
       \/ CallerGoto("stop") /\ Fault
    /\ UNCHANGED <<handle, bp, lock, thr, past>>

\* WaitForSingleObject: the lock, an error, or a timeout while another has it
CallerLocks(pc, got, failed) ==
    /\ CallerAt(pc)
    /\ \/ lock[cl.l] \in {"free", "caller"} /\ lock' = [lock EXCEPT ![cl.l] = "caller"] /\ CallerGoto(got)
       \/ lock[cl.l] \in {"thread", "closed"} /\ failed /\ UNCHANGED lock
    /\ UNCHANGED <<handle, bp, thr, faults, past>>

\* The mutex of a terminated thread comes with WAIT_ABANDONED, once.
SetLocks ==
    \/ CallerLocks("set_wait", "set_locked", CallerGoto("stop"))
    \/ /\ CallerAt("set_wait") /\ lock[cl.l] = "abandoned" /\ CallerGoto("stop")
       /\ lock' = [lock EXCEPT ![cl.l] = "caller"] /\ UNCHANGED <<handle, bp, thr, faults, past>>

\* Mutant: the start event is not signalled.
SetNames_nosignal ==
    /\ CallerAt("set_locked") /\ CallerGoto("set_release")
    /\ bp' = [bp EXCEPT !.names = past.set + 1, !.v0 = bp.v0 + 1, !.bActive = TRUE]
    /\ past' = [past EXCEPT !.set = past.set + 1, !.this = NothingFound]
    /\ UNCHANGED <<handle, lock, thr, faults>>

\* QueryDosDevice may know no name of the drive.
SetNames ==
    /\ CallerAt("set_locked") /\ CallerGoto("set_release")
    /\ \E names \in {past.set + 1, NoNames} :
          /\ (names # NoNames /\ UNCHANGED faults) \/ (names = NoNames /\ Fault)
          /\ bp' = [bp EXCEPT !.names = names, !.v0 = bp.v0 + 1, !.bActive = TRUE,
                              !.hStart = IF bp.hStart = "null" THEN "null" ELSE "set"]
    /\ past' = [past EXCEPT !.set = past.set + 1, !.this = NothingFound]
    /\ UNCHANGED <<handle, lock, thr>>

Released(l) == lock' = IF bp.hLock = l /\ lock[l] = "caller" THEN [lock EXCEPT ![l] = "free"] ELSE lock

SetReleases ==
    /\ CallerAt("set_release") /\ Released(cl.l)
    /\ IF bp.hLock = cl.l THEN Return ELSE CallerGoto("stop")
    /\ UNCHANGED <<handle, bp, thr, faults, past>>

\* StopProcessSearch, as no device is left, the dialog closes or a start failed
StopProcessSearch ==
    /\ CallerAt("idle") /\ handle # 0 /\ CallerGoto("stop")
    /\ UNCHANGED <<handle, bp, lock, thr, faults, past>>

Deactivate ==
    /\ CallerAt("stop") /\ CallerGoto("stopping") /\ bp' = [bp EXCEPT !.bActive = FALSE]
    /\ UNCHANGED <<handle, lock, thr, faults, past>>

\* The thread has exited, or it is terminated after a timeout.
Stopped ==
    /\ CallerAt("stopping") /\ Return
    /\ \/ ThreadAt("exited") /\ handle' = 0 /\ UNCHANGED <<lock, thr, past>>
       \/ ~ThreadAt("exited") /\ Terminate
    /\ UNCHANGED <<bp, faults>>

\* GetProcessSearch
GetProcessSearch ==
    /\ CallerAt("idle") /\ handle # 0 /\ bp.hLock # 0
    /\ cl' = [pc |-> "get", l |-> bp.hLock]
    /\ UNCHANGED <<handle, bp, lock, thr, faults, past>>

GetLocks == CallerLocks("get", "get_locked", Return)

\* One pass with the current names must have ended; else it is asked again,
\* until the timeout.
NotReady == bp.v0 # bp.v1 \/ bp.nPass < 1

GetWaits ==
    /\ CallerAt("get_locked") /\ NotReady /\ Released(cl.l)
    /\ Return \/ (bp.hLock # 0 /\ cl' = [pc |-> "get", l |-> bp.hLock])
    /\ UNCHANGED <<handle, bp, thr, faults, past>>

\* What is reported of the processes that use the drive in one of the ways of
\* mask, without those that have ended if they are to be ignored
Report(mask, ended) == {p \in {bp.table[j].pid : j \in Slots} \ {0} : Access[p] \cap mask # {} /\ p \notin ended}

GetReports ==
    /\ CallerAt("get_locked") /\ ~NotReady /\ Released(cl.l) /\ Return
    /\ UNCHANGED <<handle, bp, thr, faults, past>>

Caller == \/ StartProcessSearch
          \/ PollLock \/ SetProcessSearch \/ SetLocks \/ SetNames \/ SetReleases
          \/ StopProcessSearch \/ Deactivate \/ Stopped
          \/ GetProcessSearch \/ GetLocks \/ GetWaits \/ GetReports

SearchNext == Thread \/ Caller

\* The scheduler runs both threads; no one has to select a drive or to ask.
SearchFairness == WF_search_vars(Thread) /\ WF_search_vars(SetReleases \/ GetWaits \/ GetReports)
SearchSpec == SearchInit /\ [][SearchNext]_search_vars /\ SearchFairness

-----------------------------------------------------------------------------
ThreadPcs == {"none", "init", "publish", "wait", "waiting", "top", "names", "enum", "scan", "store", "storing", "pass",
              "hung", "out", "cleanup", "exited", "killed"}
CallerPcs == {"idle", "poll", "set", "set_wait", "set_locked", "set_release", "stop", "stopping",
              "get", "get_locked"}

\* The variables keep their types, the passes stay inside their bound, a thread
\* that holds the mutex is at one of the places that take it (process.c:441,
\* 535, 712), and the table names no process twice.
SearchTypeOK ==
    /\ handle \in 0 .. MaxStarts
    /\ bp \in [bActive : BOOLEAN, v0 : 0 .. MaxSets, v1 : 0 .. MaxSets, names : 0 .. MaxSets, hLock : 0 .. MaxStarts,
               hStart : {"null", "reset", "set"}, nPass : 0 .. MaxPasses,
               table : [Slots -> [pid : 0 .. NumProcs, seen : 0 .. MaxPasses]]]
    /\ lock \in [1 .. MaxStarts -> {"none", "new", "free", "thread", "caller", "abandoned", "closed"}]
    /\ thr \in [pc : ThreadPcs, n : 0 .. MaxStarts, names : 0 .. MaxSets, i : 1 .. NumProcs + 1]
    /\ cl \in [pc : CallerPcs, l : 0 .. MaxStarts]
    /\ \A n \in 1 .. MaxStarts : lock[n] = "thread" => thr.n = n /\ thr.pc \in {"names", "storing", "cleanup"}
    /\ \A j, k \in Slots : bp.table[j].pid = bp.table[k].pid /\ j # k => bp.table[j].pid = 0

\* "Make sure we have at least one pass with the current handles in order to
\* report them" (process.c:893): whatever the calls and threads did before, a
\* list is reported only if a whole pass with the names of the drive that was
\* set last has ended since it was set.
FreshReport == [][GetReports => past.this.passes >= 1]_search_vars

\* What GetProcessSearch reports: if the first pass over the drive stored any
\* process then no process of an earlier drive is left in the list, and every
\* process that was found and stored in each of the last two passes is in it
\* (one is not enough: see Stale), unless it has ended.
ReportIsRight ==
    [][GetReports => \A mask \in {{"w", "x"}, {"r", "w", "x"}}, ended \in SUBSET Procs :
         /\ past.this.first => Report(mask, ended) \subseteq past.this.ever
         /\ \A p \in Procs \ ended :
               past.this.hits[p] >= 2 /\ Access[p] \cap mask # {} => p \in Report(mask, ended)]_search_vars

\* When a drive has been set the search comes to a report on it: a pass over
\* it ends, unless the drive is set again, the search is stopped or dies of a
\* failure, or a thread was terminated before (its mutex is still in
\* blocking_process, and the next thread's memset may undo the setting).
Pending == past.set > 0 /\ bp.names = past.set /\ CallerAt("idle") /\ handle # 0 /\ ~past.killed
SearchIsDone ==
    \A n \in 1 .. MaxSets :
        (Pending /\ past.set = n) ~>
            (past.this.passes >= 1 \/ past.set > n \/ handle = 0 \/ cl.pc \in {"stop", "stopping"}
               \/ thr.pc \in {"out", "cleanup", "exited", "hung"})
=============================================================================
