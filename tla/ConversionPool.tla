--------------------------- MODULE ConversionPool ---------------------------
(***************************************************************************)
(* refigure/mcp/server.py: how the tool calls of the MCP server run the    *)
(* synchronous converters.  A call is one conversion (convert_docx and     *)
(* convert_xlsx, _convert_with_bridge) or a batch of them (convert_batch,  *)
(* one _run_batch_item per item); a conversion is a job <<call, item>>.    *)
(* A job waits for a token of the limiter, runs its converter in a worker  *)
(* thread, and settles with the thread's result or with the hard timeout,  *)
(* whichever the event loop sees first.  A timeout abandons the thread: it *)
(* gives the token back and the thread runs on, holding whatever it holds. *)
(*                                                                         *)
(* Event loop steps and thread steps interleave freely.  Timers carry no   *)
(* clock: the timeout of an unsettled job may fire at any time.  The       *)
(* limiter is anyio's: first come, first served, and a released token is   *)
(* handed to the first waiter at once.                                     *)
(***************************************************************************)
EXTENDS SeqFilters, SequencesExt

CONSTANTS
  Singles,        \* calls of convert_docx and convert_xlsx
  Batches,        \* calls of convert_batch
  MaxBatch,       \* the largest batch that is sent: at most max_batch_size
  MaxConcurrent   \* the largest max_concurrent that a server is given

ASSUME PoolAssumption ==
  /\ Singles \cap Batches = {}
  /\ MaxBatch \in Nat \ {0}
  /\ MaxConcurrent \in Nat \ {0}

Calls == Singles \cup Batches
Jobs == (Singles \X {1}) \cup (Batches \X (1..MaxBatch))
Free == <<>>   \* nobody holds the lock

VARIABLES
  tokens,   \* max_concurrent: the tokens of the limiter, for good
  call,     \* per call: idle, open, or how it was answered
  task,     \* per job: what its coroutine is doing, or how it settled
  thread,   \* per job: what its worker thread is doing, or its result
  queue,    \* the jobs that wait for a token, in order
  lock,     \* _OPENPYXL_LOAD_LOCK: the job whose thread holds it
  stored    \* the jobs whose result went to ServerState.insert()

vars == <<call, task, thread, queue, lock, stored>>   \* all that changes

Settled == {"inline", "link", "error", "timeout", "cancelled"}
Ended == {"ok", "failed"}

JobsOf(c) == {j \in Jobs : j[1] = c /\ task[j] # "unused"}
Holding == {j \in Jobs : task[j] = "running"}

Init ==
  /\ tokens \in 1..MaxConcurrent
  /\ call = [c \in Calls |-> "idle"]
  /\ task = [j \in Jobs |-> "unused"]
  /\ thread = [j \in Jobs |-> "none"]
  /\ queue = <<>>
  /\ lock = Free
  /\ stored = {}

-----------------------------------------------------------------------------
(* The event loop *)

\* Admission: the call's shape or its caller's rate is refused before any of
\* its items runs (RateLimit models the counters), or all of it is let in.
Reject(c) ==
  /\ call[c] = "idle"
  /\ call' = [call EXCEPT ![c] = "rejected"]
  /\ UNCHANGED <<task, thread, queue, lock, stored>>

Accept(c, n) ==
  /\ call[c] = "idle"
  /\ c \in Singles => n = 1
  /\ call' = [call EXCEPT ![c] = "open"]
  /\ task' = [j \in Jobs |-> IF j[1] = c /\ j[2] <= n THEN "pending" ELSE task[j]]
  /\ UNCHANGED <<thread, queue, lock, stored>>

\* The input does not decode, or its format is not installed.
Undecodable(j) ==
  /\ task[j] = "pending"
  /\ task' = [task EXCEPT ![j] = "error"]
  /\ UNCHANGED <<call, thread, queue, lock, stored>>

\* Mutant: one job more than there are tokens.
EnterOneMore(j) ==
  /\ task[j] = "pending"
  /\ IF queue = <<>> /\ Cardinality(Holding) <= tokens
     THEN /\ task' = [task EXCEPT ![j] = "running"]
          /\ thread' = [thread EXCEPT ![j] = "ready"]
          /\ UNCHANGED queue
     ELSE /\ task' = [task EXCEPT ![j] = "queued"]
          /\ queue' = Append(queue, j)
          /\ UNCHANGED thread
  /\ UNCHANGED <<call, lock, stored>>

\* to_thread.run_sync(limiter=...): a token and a thread, or the end of the queue.
Enter(j) ==
  /\ task[j] = "pending"
  /\ IF queue = <<>> /\ Cardinality(Holding) < tokens
     THEN /\ task' = [task EXCEPT ![j] = "running"]
          /\ thread' = [thread EXCEPT ![j] = "ready"]
          /\ UNCHANGED queue
     ELSE /\ task' = [task EXCEPT ![j] = "queued"]
          /\ queue' = Append(queue, j)
          /\ UNCHANGED thread
  /\ UNCHANGED <<call, lock, stored>>

\* Mutant: a job that settles while it waits stays in the queue.
SettleJobsInQueue(outcome) ==
  LET leaving == DOMAIN outcome
      spare == tokens - Cardinality(Holding \ leaving)
      n == Min({spare, Len(queue)})
      granted == ToSet(SubSeq(queue, 1, n)) \ leaving
  IN  /\ queue' = SubSeq(queue, n + 1, Len(queue))
      /\ task' = [j \in Jobs |-> IF j \in leaving THEN outcome[j]
                                 ELSE IF j \in granted THEN "running" ELSE task[j]]
      /\ thread' = [j \in Jobs |-> IF j \in granted THEN "ready" ELSE thread[j]]

\* Jobs settle: they leave the queue or return their tokens, and the free
\* tokens go to the first of those that still wait.
SettleJobs(outcome) ==
  LET leaving == DOMAIN outcome
      waiting == Kept(queue, Jobs \ leaving)
      spare == tokens - Cardinality(Holding \ leaving)
      n == Min({spare, Len(waiting)})
      granted == ToSet(SubSeq(waiting, 1, n))
  IN  /\ queue' = SubSeq(waiting, n + 1, Len(waiting))
      /\ task' = [j \in Jobs |-> IF j \in leaving THEN outcome[j]
                                 ELSE IF j \in granted THEN "running" ELSE task[j]]
      /\ thread' = [j \in Jobs |-> IF j \in granted THEN "ready" ELSE thread[j]]

Settle(j, how) == SettleJobs([k \in {j} |-> how])

\* Mutant: the timeout waits for the thread (abandon_on_cancel=False).
TimeoutWaits(j) ==
  /\ task[j] \in {"queued", "running"}
  /\ thread[j] \in {"none"} \cup Ended
  /\ Settle(j, "timeout")
  /\ UNCHANGED <<call, lock, stored>>

\* fail_after() covers the wait for a token as well as the thread.
Timeout(j) ==
  /\ task[j] \in {"queued", "running"}
  /\ Settle(j, "timeout")
  /\ UNCHANGED <<call, lock, stored>>

\* Mutants: an abandoned thread's result is stored; an item that fails takes
\* the rest of its batch with it.
DeliverAndStoreLate(j) ==
  /\ task[j] \in {"running", "timeout"} /\ thread[j] = "ok"
  /\ stored' = stored \cup {j}
  /\ IF task[j] = "running" THEN Settle(j, "link") ELSE UNCHANGED <<task, thread, queue>>
  /\ UNCHANGED <<call, lock>>
DeliverForAll(j) ==
  /\ task[j] = "running" /\ thread[j] \in Ended
  /\ IF thread[j] = "ok" THEN Settle(j, "inline")
     ELSE SettleJobs([k \in {i \in JobsOf(j[1]) : task[i] \notin Settled} |-> "error"])
  /\ UNCHANGED <<call, lock, stored>>

\* The thread's result reaches the coroutine.  A markdown over the inline
\* threshold is put in the store here, on the event loop, never by the thread.
Deliver(j) ==
  /\ task[j] = "running"
  /\ \/ thread[j] = "failed" /\ Settle(j, "error") /\ UNCHANGED stored
     \/ thread[j] = "ok" /\ Settle(j, "inline") /\ UNCHANGED stored
     \/ thread[j] = "ok" /\ Settle(j, "link") /\ stored' = stored \cup {j}
  /\ UNCHANGED <<call, lock>>

\* A single call returns or raises what its conversion did; a batch returns
\* when all of its items have settled, whatever became of each.
Answer(c) ==
  /\ call[c] = "open"
  /\ \A j \in JobsOf(c) : task[j] \in Settled
  /\ call' = [call EXCEPT ![c] = "answered"]
  /\ UNCHANGED <<task, thread, queue, lock, stored>>

\* report_progress() raises, from a heartbeat or after an item of a batch: the
\* task group cancels the call's unsettled coroutines and the call fails with
\* that error.
Abort(c) ==
  LET open == {j \in JobsOf(c) : task[j] \notin Settled}
  IN  /\ call[c] = "open"
      /\ c \in Singles => task[<<c, 1>>] \in {"queued", "running"}
      /\ call' = [call EXCEPT ![c] = "aborted"]
      /\ SettleJobs([j \in open |-> "cancelled"])
      /\ UNCHANGED <<lock, stored>>

-----------------------------------------------------------------------------
(* The worker threads, abandoned or not *)

\* xlsx.convert() comes to the point where it loads the workbook ...
Arrive(j) ==
  /\ thread[j] = "ready"
  /\ thread' = [thread EXCEPT ![j] = "waiting"]
  /\ UNCHANGED <<call, task, queue, lock, stored>>

\* ... which it does under the process-wide lock.
Lock(j) ==
  /\ thread[j] = "waiting"
  /\ lock = Free
  /\ lock' = j
  /\ thread' = [thread EXCEPT ![j] = "loading"]
  /\ UNCHANGED <<call, task, queue, stored>>

\* The workbook is loaded, or load_workbook() raised.
Unlock(j) ==
  /\ thread[j] = "loading"
  /\ lock' = Free
  /\ \E next \in {"loaded", "failed"} : thread' = [thread EXCEPT ![j] = next]
  /\ UNCHANGED <<call, task, queue, stored>>

\* The rest of xlsx.convert(), or all of docx.convert(), which takes no lock.
Finish(j) ==
  /\ thread[j] \in {"ready", "loaded"}
  /\ \E result \in Ended : thread' = [thread EXCEPT ![j] = result]
  /\ UNCHANGED <<call, task, queue, lock, stored>>

ThreadStep(j) == Arrive(j) \/ Lock(j) \/ Unlock(j) \/ Finish(j)
LoopStep(j) == Undecodable(j) \/ Enter(j) \/ Timeout(j) \/ Deliver(j)

Next ==
  /\ UNCHANGED tokens
  /\ \/ \E c \in Calls : Reject(c) \/ Answer(c) \/ Abort(c)
     \/ \E c \in Calls, n \in 1..MaxBatch : Accept(c, n)
     \/ \E j \in Jobs : LoopStep(j) \/ ThreadStep(j)

\* The event loop runs its ready coroutines and its due timers.  Nothing is
\* assumed of the threads: a converter may hang for ever.
LoopFairness ==
  /\ \A c \in Calls : WF_vars(Answer(c))
  /\ \A j \in Jobs : WF_vars(Enter(j)) /\ WF_vars(Timeout(j))

Spec == Init /\ [][Next]_<<tokens, vars>> /\ LoopFairness

-----------------------------------------------------------------------------
(* Properties *)

\* The queue lists the waiting jobs, each once.
QueueExact ==
  /\ ToSet(queue) = {j \in Jobs : task[j] = "queued"}
  /\ IsInjective(queue)

\* Workbooks are loaded one at a time, by threads that were abandoned as well
\* as by others, and a load that raises gives the lock back.
LoadsExclusive == \A j \in Jobs : lock = j <=> thread[j] = "loading"

\* The types of the state; the queue and the lock say what tasks and threads do.
TypeOK ==
  /\ tokens \in 1..MaxConcurrent
  /\ call \in [Calls -> {"idle", "open", "rejected", "answered", "aborted"}]
  /\ task \in [Jobs -> {"unused", "pending", "queued", "running"} \cup Settled]
  /\ thread \in [Jobs -> {"none", "ready", "waiting", "loading", "loaded"} \cup Ended]
  /\ queue \in Seq(Jobs)
  /\ lock \in Jobs \cup {Free}
  /\ stored \subseteq Jobs
  /\ QueueExact /\ LoadsExclusive

\* Tokens are neither lost nor made: at most max_concurrent jobs hold one, and
\* nobody waits while one is free, whatever times out or is cancelled.
TokensConserved ==
  /\ Cardinality(Holding) <= tokens
  /\ queue # <<>> => Cardinality(Holding) = tokens

\* A call is over only when nothing of it is left in the pool: no job of it
\* holds a token or waits for one.  What an abandoned thread produces later is
\* never stored: the results in the store are those of jobs that settled with
\* a link to them.
NothingLeftBehind ==
  /\ \A c \in Calls :
       call[c] \notin {"idle", "open"} => \A j \in JobsOf(c) : task[j] \in Settled
  /\ stored = {j \in Jobs : task[j] = "link"}

SettleStep ==
  \A j, k \in Jobs :
    /\ task[j] \in Settled => task'[j] = task[j]
    /\ (/\ task[j] # task'[j] /\ task'[j] \in Settled
        /\ task[k] # task'[k] /\ task'[k] \in Settled)
       => j = k \/ (j[1] = k[1] /\ call'[j[1]] = "aborted")

\* A job settles once and alone: neither its thread nor another job changes
\* how, and an item's failure or timeout leaves the rest of its batch as it is,
\* unless the whole call is aborted.
SettlesAlone == [][SettleStep]_vars

\* The hard timeout releases the caller, though converters hang for ever,
\* with the lock or without it: every call that is let in is answered.
EveryCallAnswered == \A c \in Calls : call[c] = "open" ~> call[c] # "open"
=============================================================================
