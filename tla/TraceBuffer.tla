----------------------------- MODULE TraceBuffer -----------------------------
(***************************************************************************)
(* The trace recorder of utils/trace.c.  A worker process times every      *)
(* storage access and stores one record per access in a ring of TRACE_NENT *)
(* slots; a captive thread (trace_sync) copies the ring to the trace file. *)
(* The two threads share a request word, a flush marker and a condition    *)
(* variable under trace_flush_mutex; the ring itself is shared unlocked.   *)
(*                                                                         *)
(* A record is abstracted to its serial number: the k-th record the worker *)
(* makes is k-1.  Each critical section is one step, because every access  *)
(* to ti_req and ti_nextflush is made under the mutex and no section       *)
(* blocks inside except in pthread_cond_wait, which releases it.           *)
(***************************************************************************)
EXTENDS Integers, Sequences

CONSTANTS
  NENT,       \* TRACE_NENT, the ring's slots: 2^16, so also the modulus of uint16_t
  BLOCK,      \* TRACE_BLOCK, the records of one 8192-byte write: 204
  Accesses,   \* at most this many accesses are timed (write count + read count)
  FlushCalls  \* at most this many calls of trace_flush (motif_1 makes none)

ASSUME TraceAssumption ==
  /\ NENT \in Nat /\ NENT > 1
  /\ BLOCK \in Nat /\ BLOCK > 0
  /\ Accesses \in Nat
  /\ FlushCalls \in Nat

VARIABLES
  main,       \* where the worker thread is
  sync,       \* where the flush thread is
  req,        \* ti_req
  nextent,    \* ti_nextent
  lastflush,  \* ti_lastflush
  nextflush,  \* ti_nextflush
  ring,       \* ti_tracebuf
  file,       \* the records fwrite has accepted, in order
  job,        \* the flush thread's req, taken from ti_req
  tbp,        \* the flush thread's tbp: the slot it copies next
  nflush,     \* the records left to copy in the current fwrite
  wrapped,    \* the records of the second fwrite, after a wrap
  traced,     \* history: the records the worker has made
  requested,  \* history: the records made when a flush was last requested
  flushes,    \* history: the calls of trace_flush
  overrun     \* history: the worker has been NENT records ahead of the file

workerVars == <<main, nextent, ring, traced, overrun>>
requestVars == <<req, nextflush, requested, flushes>>
jobVars == <<job, tbp, nflush, wrapped, lastflush>>
vars == <<main, sync, req, nextent, lastflush, nextflush, ring, file, job, tbp,
          nflush, wrapped, traced, requested, flushes, overrun>>

Slots == 0 .. NENT - 1
Requests == {"NONE", "FLUSH", "EXIT"}

\* A slot never written (zeroed storage), and one caught half written.
Blank == -1
Torn == -2
Records == {Blank, Torn} \cup Nat

-----------------------------------------------------------------------------
(* Arithmetic on the uint16_t indices. *)

U16(x) == x % NENT

ModAdd(x, y) == (x + y) % NENT

\* Mutant: the index is not brought back into the ring.
ModIncNoWrap(x) == x + 1

ModInc(x) == ModAdd(x, 1)

\* The slot `te' of the record being made: the one before ti_nextent.
Te == U16(nextent - 1)

\* Mutant: the flush thread is not signalled.
NotSignalled == sync

\* pthread_cond_signal: the waiting flush thread goes back to the loop's head.
Signalled == IF sync = "wait" THEN "check" ELSE sync

-----------------------------------------------------------------------------
(* Before trace_init: static storage, all zero. *)

Init ==
  /\ main = "init"
  /\ sync = "none"
  /\ req = "NONE"
  /\ nextent = 0 /\ lastflush = 0 /\ nextflush = 0
  /\ ring = [s \in Slots |-> Blank]
  /\ file = <<>>
  /\ job = "NONE" /\ tbp = 0 /\ nflush = 0 /\ wrapped = 0
  /\ traced = 0 /\ requested = 0 /\ flushes = 0
  /\ overrun = FALSE

-----------------------------------------------------------------------------
(* The worker thread. *)

\* trace_init opens the file, sets the indices and spawns the flush thread.
\* pthread_create reports an error as a positive number, the code looks for a
\* negative one: a thread that was not created leaves the same state but for it.
TraceInit ==
  /\ main = "init"
  /\ main' = "run"
  /\ sync' \in {"check", "none"}
  /\ lastflush' = U16(NENT - 1) /\ nextflush' = U16(NENT - 1)
  /\ nextent' = 0
  /\ req' = "NONE"
  /\ UNCHANGED <<ring, file, job, tbp, nflush, wrapped, traced, requested,
                 flushes, overrun>>

\* fopen fails: trace_init returns before anything is set, and run_motif
\* goes on to trace all the same.
TraceInitNoFile ==
  /\ main = "init"
  /\ main' = "run"
  /\ UNCHANGED <<sync, req, nextflush, nextent, ring, file, jobVars, traced,
                 requested, flushes, overrun>>

\* trace, first half: the slot is taken, and from here to TraceFill it holds
\* a mixture of two records.
TraceClaim ==
  /\ main = "run"
  /\ traced < Accesses
  /\ main' = "fill"
  /\ ring' = [ring EXCEPT ![nextent] = Torn]
  /\ nextent' = ModInc(nextent)
  /\ traced' = traced + 1
  /\ overrun' = (overrun \/ traced + 1 - Len(file) >= NENT)
  /\ UNCHANGED <<sync, file, requestVars, jobVars>>

\* trace, second half: the record is complete; a flush is due when the next
\* index starts a block.
TraceFill ==
  /\ main = "fill"
  /\ ring' = [ring EXCEPT ![Te] = traced - 1]
  /\ main' = IF nextent % BLOCK = 0 THEN "request" ELSE "run"
  /\ UNCHANGED <<sync, nextent, traced, overrun, file, requestVars, jobVars>>

\* Mutant: the flush marker is one slot past the record just made.
TraceRequestPastEnd ==
  /\ main = "request"
  /\ main' = "run"
  /\ req' = "FLUSH"
  /\ nextflush' = nextent
  /\ requested' = traced
  /\ sync' = Signalled
  /\ UNCHANGED <<nextent, ring, traced, overrun, flushes, file, jobVars>>

\* trace, the critical section: request a flush up to the record just made.
TraceRequest ==
  /\ main = "request"
  /\ main' = "run"
  /\ req' = "FLUSH"
  /\ nextflush' = Te
  /\ requested' = traced
  /\ sync' = Signalled
  /\ UNCHANGED <<nextent, ring, traced, overrun, flushes, file, jobVars>>

\* trace_flush: a request that leaves the flush marker where it was.
TraceFlush ==
  /\ main = "run"
  /\ flushes < FlushCalls
  /\ flushes' = flushes + 1
  /\ req' = "FLUSH"
  /\ sync' = Signalled
  /\ UNCHANGED <<workerVars, nextflush, requested, file, jobVars>>

\* Mutant: the exit request leaves the flush marker at the last block.
TraceFiniKeepsMark ==
  /\ main = "run"
  /\ main' = "join"
  /\ req' = "EXIT"
  /\ requested' = traced
  /\ sync' = Signalled
  /\ UNCHANGED <<nextent, ring, traced, overrun, flushes, nextflush, file, jobVars>>

\* trace_fini, the critical section: the last request.
TraceFini ==
  /\ main = "run"
  /\ main' = "join"
  /\ req' = "EXIT"
  /\ nextflush' = U16(nextent - 1)
  /\ requested' = traced
  /\ sync' = Signalled
  /\ UNCHANGED <<nextent, ring, traced, overrun, flushes, file, jobVars>>

\* trace_fini, pthread_join: returns once the flush thread has ended.
TraceJoin ==
  /\ main = "join"
  /\ sync \in {"exited", "failed"}
  /\ main' = "done"
  /\ UNCHANGED <<sync, nextent, ring, traced, overrun, requestVars, file, jobVars>>

\* The handle was never set: pthread_join's behaviour is undefined.
TraceJoinUnset ==
  /\ main = "join"
  /\ sync = "none"
  /\ main' \in {"done", "crashed"}
  /\ UNCHANGED <<sync, nextent, ring, traced, overrun, requestVars, file, jobVars>>

-----------------------------------------------------------------------------
(* The flush thread. *)

\* No request: wait on the condition variable.
SyncSleep ==
  /\ sync = "check"
  /\ req = "NONE"
  /\ sync' = "wait"
  /\ UNCHANGED <<workerVars, requestVars, file, jobVars>>

\* pthread_cond_wait may return without a signal.
SyncSpuriousWake ==
  /\ sync = "wait"
  /\ sync' = "check"
  /\ UNCHANGED <<workerVars, requestVars, file, jobVars>>

\* Take the request and work out the range: thisflush .. nextflush, or, when
\* that wraps, thisflush .. NENT-1 and then 0 .. nextflush.
SyncTake ==
  LET thisflush == ModInc(lastflush)
      wraps == thisflush > nextflush
  IN /\ sync = "check"
     /\ req # "NONE"
     /\ sync' = "copy"
     /\ job' = req
     /\ req' = "NONE"
     /\ tbp' = thisflush
     /\ nflush' = U16(IF wraps THEN NENT - thisflush ELSE nextflush - thisflush + 1)
     /\ wrapped' = IF wraps THEN U16(nextflush + 1) ELSE 0
     /\ lastflush' = ModAdd(lastflush, nflush')
     /\ UNCHANGED <<workerVars, nextflush, requested, flushes, file>>

\* fwrite reads one more record of the ring.
SyncCopy ==
  /\ sync = "copy"
  /\ nflush > 0
  /\ file' = Append(file, ring[tbp])
  /\ tbp' = tbp + 1
  /\ nflush' = nflush - 1
  /\ UNCHANGED <<sync, workerVars, requestVars, job, wrapped, lastflush>>

\* Mutant: the second fwrite of a range is not counted as flushed.
SyncWrapUncounted ==
  /\ sync = "copy"
  /\ nflush = 0
  /\ wrapped > 0
  /\ tbp' = 0
  /\ nflush' = wrapped
  /\ wrapped' = 0
  /\ UNCHANGED <<sync, workerVars, requestVars, file, job, lastflush>>

\* The second fwrite of a range that wraps.
SyncWrap ==
  /\ sync = "copy"
  /\ nflush = 0
  /\ wrapped > 0
  /\ tbp' = 0
  /\ nflush' = wrapped
  /\ wrapped' = 0
  /\ lastflush' = ModAdd(lastflush, wrapped)
  /\ UNCHANGED <<sync, workerVars, requestVars, file, job>>

\* The range is written: back to the loop's head, or close the file and end.
SyncFinish ==
  /\ sync = "copy"
  /\ nflush = 0
  /\ wrapped = 0
  /\ sync' = IF job = "EXIT" THEN "exited" ELSE "check"
  /\ UNCHANGED <<workerVars, requestVars, file, jobVars>>

\* fwrite accepts fewer records than asked: the thread ends, the file stays open.
SyncFail ==
  /\ sync = "copy"
  /\ nflush > 0
  /\ sync' = "failed"
  /\ UNCHANGED <<workerVars, requestVars, file, jobVars>>

-----------------------------------------------------------------------------
WorkerStep == TraceFill \/ TraceRequest \/ TraceJoin \/ TraceJoinUnset

SyncStep == SyncSleep \/ SyncTake \/ SyncCopy \/ SyncWrap \/ SyncFinish

Next ==
  \/ TraceInit \/ TraceInitNoFile
  \/ TraceClaim \/ TraceFlush \/ TraceFini
  \/ WorkerStep
  \/ SyncStep \/ SyncSpuriousWake \/ SyncFail

Spec == Init /\ [][Next]_vars

\* Both threads are scheduled.  Nothing makes the worker time an access or
\* finish, no wait is woken without a signal, and no fwrite has to fail.
FairSpec == Spec /\ WF_vars(WorkerStep) /\ WF_vars(SyncStep)

-----------------------------------------------------------------------------
(* Properties. *)

\* Every variable keeps its type; the indices stay within the ring.
TypeOK ==
  /\ main \in {"init", "run", "fill", "request", "join", "done", "crashed"}
  /\ sync \in {"none", "check", "wait", "copy", "exited", "failed"}
  /\ req \in Requests /\ job \in Requests
  /\ nextent \in Slots /\ lastflush \in Slots /\ nextflush \in Slots
  /\ ring \in [Slots -> Records]
  /\ file \in Seq(Records)
  /\ tbp \in 0 .. NENT /\ nflush \in Slots /\ wrapped \in Slots
  /\ traced \in Nat /\ requested \in Nat /\ flushes \in Nat
  /\ overrun \in BOOLEAN

\* The ring has kept up and no caller used trace_flush: what the indices mean.
Kept == ~overrun /\ flushes = 0

\* Whatever the flush thread's delay, as long as the worker stays less than
\* NENT records ahead of the file, the file holds the worker's records in the
\* order they were made, none torn, skipped or repeated (trace, trace_sync).
RecordsInOrder ==
  Kept => \A i \in 1 .. Len(file) : i <= traced => file[i] = i - 1

\* Until trace_fini is called the flush thread never writes a record that was
\* not made: no request is acted upon twice, none when nothing is outstanding.
OnlyOutstanding ==
  Kept /\ main \in {"run", "fill", "request"} =>
    Len(file) + nflush + wrapped <= traced

\* When the flush thread closes the file, every record is in it: the exit
\* request covers what earlier, coalesced requests did not (trace_fini).
ExitComplete ==
  Kept /\ sync = "exited" => Len(file) >= traced

\* fwrite never reads the slot the worker is filling, though neither holds the
\* mutex while it does (trace, trace_sync).
NoDataRace ==
  Kept /\ main = "fill" /\ sync = "copy" /\ nflush > 0 => tbp # Te

\* A call of trace_fini returns: no request is lost between the flush thread's
\* test of ti_req and its wait.
FiniReturns == main = "join" ~> main \in {"done", "crashed"}

\* A block whose flush was requested reaches the file, unless the write fails,
\* even if later requests overtake it.
BlocksReachFile ==
  \A k \in 1 .. Accesses :
    (requested = k /\ sync # "none") ~>
      (Len(file) >= k \/ sync = "failed" \/ ~Kept)

-----------------------------------------------------------------------------
(* What comments and documentation say, and the code does not do. *)

\* "Every object accessed is recorded": a file that was closed without an
\* error holds every record.
EveryAccessRecorded ==
  sync = "exited" => \A k \in 0 .. traced - 1 : \E i \in 1 .. Len(file) : file[i] = k
=============================================================================
