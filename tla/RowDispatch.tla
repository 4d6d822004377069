---------------------------- MODULE RowDispatch ----------------------------
(***************************************************************************)
(* How the rows of one matrix are split over workers and joined again: the *)
(* last part of dispatchFusedGemv and dispatchFusedGemm (tasks in a        *)
(* ForkJoinPool, which may be shut down, and which may throw) and          *)
(* parallel_for of the native kernels (one thread per part), which differ  *)
(* in two numbers:                                                         *)
(*                      inlineRows   rowsPerTask                           *)
(*   dispatchFused...       16           16                                *)
(*   parallel_for           32            1                                *)
(* (it uses at most 16 threads, fewer than there are rows by then).        *)
(* Workers compute rows one by one and in any interleaving.                *)
(***************************************************************************)
EXTENDS Naturals, Sequences

CONSTANTS
  Users,      \* records: inlineRows, up to so many rows the caller computes itself;
              \* rowsPerTask, what makes a task worth it; pool, tasks run in the pool
  MaxRows,    \* bound: rows of the matrix
  MaxCores    \* bound: parallelism

ASSUME DispatchAssumption ==
  /\ Users \subseteq [inlineRows : Nat, rowsPerTask : Nat \ {0}, pool : BOOLEAN]
  /\ {MaxRows, MaxCores} \subseteq Nat

VARIABLES
  user,       \* who splits (a constant)
  count,      \* rows (a constant)
  cores,      \* parallelism (a constant)
  poolOpen,   \* the pool accepts tasks
  caller,     \* "start", "submit", "join", "returned" or "threw"
  index,      \* loop index of the caller: of the parts, then of the futures
  futures,    \* the tasks submitted: [next, end, state]
  writes      \* writes[r]: how often row r of the result was computed

vars == <<user, count, cores, poolOpen, caller, index, futures, writes>>

Rows == 0..count - 1
Tasks == DOMAIN futures

Init ==
  /\ user \in Users
  /\ count \in 0..MaxRows
  /\ cores \in 1..MaxCores
  /\ poolOpen = TRUE
  /\ caller = "start"
  /\ index = 0
  /\ futures = <<>>
  /\ writes = [r \in Rows |-> 0]

-----------------------------------------------------------------------------
\* One task per rowsPerTask rows, however few cores there are.
NumTasksByRows == IF count < user.rowsPerTask THEN 1 ELSE count \div user.rowsPerTask

NumTasks ==
  LET wanted == IF count < user.rowsPerTask THEN 1 ELSE count \div user.rowsPerTask
  IN IF cores < wanted THEN cores ELSE wanted

\* Rounded down: the last rows belong to nobody.
ChunkSizeDown == count \div NumTasks

ChunkSize == (count + NumTasks - 1) \div NumTasks

PartStart(i) == i * ChunkSize

\* One row too many.
PartEndInclusive(i) ==
  IF count < PartStart(i) + ChunkSize + 1 THEN count ELSE PartStart(i) + ChunkSize + 1

PartEnd(i) == IF count < PartStart(i) + ChunkSize THEN count ELSE PartStart(i) + ChunkSize

ComputesInline == count =< user.inlineRows \/ cores =< 1

\* Few rows, or one core: the caller computes all of them.
Inline ==
  /\ caller = "start"
  /\ ComputesInline
  /\ writes' = [r \in Rows |-> writes[r] + 1]
  /\ caller' = "returned"
  /\ UNCHANGED <<user, count, cores, poolOpen, index, futures>>

Split ==
  /\ caller = "start"
  /\ ~ComputesInline
  /\ caller' = "submit"
  /\ UNCHANGED <<user, count, cores, poolOpen, index, futures, writes>>

\* One round of the submitting loop; an empty part is left out.
Submit ==
  /\ caller = "submit"
  /\ index < NumTasks
  /\ PartStart(index) < PartEnd(index) => poolOpen
  /\ futures' = IF PartStart(index) < PartEnd(index)
                THEN Append(futures, [next |-> PartStart(index), end |-> PartEnd(index),
                                      state |-> "running"])
                ELSE futures
  /\ index' = index + 1
  /\ UNCHANGED <<user, count, cores, poolOpen, caller, writes>>

\* Submission tried again until the pool accepts it.
SubmitRetries ==
  /\ caller = "submit"
  /\ index < NumTasks
  /\ PartStart(index) < PartEnd(index)
  /\ ~poolOpen
  /\ UNCHANGED vars

\* A pool that was shut down refuses the task; nothing joins those before it.
SubmitThrows ==
  /\ caller = "submit"
  /\ index < NumTasks
  /\ PartStart(index) < PartEnd(index)
  /\ ~poolOpen
  /\ caller' = "threw"
  /\ UNCHANGED <<user, count, cores, poolOpen, index, futures, writes>>

BeginJoin ==
  /\ caller = "submit"
  /\ index = NumTasks
  /\ caller' = "join"
  /\ index' = 1
  /\ UNCHANGED <<user, count, cores, poolOpen, futures, writes>>

\* A worker computes the next row of its task.
ComputeRow(k) ==
  /\ futures[k].state = "running"
  /\ futures[k].next < futures[k].end
  /\ writes' = [writes EXCEPT ![futures[k].next] = @ + 1]
  /\ futures' = [futures EXCEPT ![k].next = @ + 1]
  /\ UNCHANGED <<user, count, cores, poolOpen, caller, index>>

EndTask(k) ==
  /\ futures[k].state = "running"
  /\ futures[k].next = futures[k].end
  /\ futures' = [futures EXCEPT ![k].state = "done"]
  /\ UNCHANGED <<user, count, cores, poolOpen, caller, index, writes>>

FailTask(k) ==
  /\ user.pool
  /\ futures[k].state = "running"
  /\ futures[k].next < futures[k].end
  /\ futures' = [futures EXCEPT ![k].state = "failed"]
  /\ UNCHANGED <<user, count, cores, poolOpen, caller, index, writes>>

\* The caller goes on without waiting for the task.
JoinAny ==
  /\ caller = "join"
  /\ index =< Len(futures)
  /\ index' = index + 1
  /\ UNCHANGED <<user, count, cores, poolOpen, caller, futures, writes>>

\* f.join() of the next future, in the order they were submitted.
Join ==
  /\ caller = "join"
  /\ index =< Len(futures)
  /\ futures[index].state = "done"
  /\ index' = index + 1
  /\ UNCHANGED <<user, count, cores, poolOpen, caller, futures, writes>>

\* join() rethrows what the task threw; the futures behind it are not joined.
JoinThrows ==
  /\ caller = "join"
  /\ index =< Len(futures)
  /\ futures[index].state = "failed"
  /\ caller' = "threw"
  /\ UNCHANGED <<user, count, cores, poolOpen, index, futures, writes>>

Return ==
  /\ caller = "join"
  /\ index > Len(futures)
  /\ caller' = "returned"
  /\ UNCHANGED <<user, count, cores, poolOpen, index, futures, writes>>

\* engine.close() on another thread; shutdown() lets submitted tasks run on.
Shutdown ==
  /\ user.pool
  /\ poolOpen
  /\ poolOpen' = FALSE
  /\ UNCHANGED <<user, count, cores, caller, index, futures, writes>>

Worker(k) == ComputeRow(k) \/ EndTask(k) \/ FailTask(k)

Caller ==
  \/ Inline \/ Split \/ Submit \/ SubmitThrows \/ BeginJoin
  \/ Join \/ JoinThrows \/ Return

Next == Caller \/ Shutdown \/ \E k \in Tasks : Worker(k)

Spec == Init /\ [][Next]_vars

\* The pool runs what it accepted, with as many threads as there are tasks.
FairSpec ==
  /\ Spec
  /\ WF_vars(Caller)
  /\ \A k \in 1..MaxCores : WF_vars(k \in Tasks /\ Worker(k))

-----------------------------------------------------------------------------
\* No two workers ever hold the same row of the shared result array, whatever
\* fails and whenever the pool closes.
RowsHaveOneWorker == \A r \in Rows : writes[r] =< 1

\* Who gets the result gets all of it, and no worker is still writing to it:
\* the arrays are scratch that the next gemv overwrites.
ReturnedIsComplete ==
  caller = "returned" =>
    /\ \A r \in Rows : writes[r] = 1
    /\ \A k \in Tasks : futures[k].state = "done"

\* No more tasks are made than the pool has threads, so no task waits for a
\* thread that a task of the same matrix holds.
TasksWithinCores == Len(futures) =< cores

\* A dispatch ends, also when the pool closes under it or a task throws.
DispatchEnds == <>(caller \in {"returned", "threw"})
=============================================================================
