------------------------- MODULE RowDispatch_proofs -------------------------
(***************************************************************************)
(* Proofs about RowDispatch for every number of rows and cores, and every  *)
(* pair of the numbers in which its two users differ.                      *)
(***************************************************************************)
EXTENDS RowDispatch, Integers, TLAPS

-----------------------------------------------------------------------------
(* The arithmetic of the parts. *)

LEMMA Divide ==
  ASSUME NEW a \in Nat, NEW b \in Nat \ {0}
  PROVE  /\ a \div b \in Nat
         /\ b * (a \div b) =< a
         /\ a < b * (a \div b) + b
         /\ b =< a => a \div b > 0
BY Z3

LEMMA TimesIsMonotonic ==
  ASSUME NEW a \in Nat, NEW b \in Nat, NEW c \in Nat, a =< b
  PROVE  a * c =< b * c
BY Z3

\* The rows and the cores of a dispatch.
ShapeOK == user \in Users /\ count \in 0..MaxRows /\ cores \in 1..MaxCores

LEMMA ShapeNumbers ==
  ASSUME ShapeOK
  PROVE  /\ count \in Nat
         /\ cores \in Nat \ {0}
         /\ user.rowsPerTask \in Nat \ {0}
         /\ user.inlineRows \in Nat
BY DispatchAssumption DEF ShapeOK

\* There is a task, and there are no more than cores.
LEMMA SomeTasks ==
  ASSUME ShapeOK
  PROVE  NumTasks \in Nat \ {0} /\ NumTasks =< cores
<1> DEFINE wanted == IF count < user.rowsPerTask THEN 1 ELSE count \div user.rowsPerTask
<1>1. wanted \in Nat \ {0}
  BY ShapeNumbers, Divide
<1>2. NumTasks = IF cores < wanted THEN cores ELSE wanted
  BY DEF NumTasks
<1>. HIDE DEF wanted
<1>. QED
  BY <1>1, <1>2, ShapeNumbers

\* Rounded up: the parts are long enough for all rows.
LEMMA PartsSuffice ==
  ASSUME ShapeOK
  PROVE  ChunkSize \in Nat /\ NumTasks * ChunkSize >= count
<1>1. count \in Nat /\ NumTasks \in Nat \ {0}
  BY ShapeNumbers, SomeTasks
<1>2. count + NumTasks - 1 \in Nat
  BY <1>1
<1>. QED
  BY <1>1, <1>2, Divide DEF ChunkSize

\* Parts are ranges of rows, one behind the other.
LEMMA PartsAreOrdered ==
  ASSUME ShapeOK
  PROVE  /\ \A i \in Nat : PartStart(i) \in Nat /\ PartEnd(i) \in Nat /\ PartEnd(i) =< count
         /\ \A i, j \in Nat : i =< j => PartStart(i) =< PartStart(j)
         /\ \A i, j \in Nat : i < j => PartEnd(i) =< PartStart(j)
<1>1. ChunkSize \in Nat /\ count \in Nat
  BY PartsSuffice, ShapeNumbers
<1>2. \A i \in Nat : PartStart(i) \in Nat /\ PartStart(i + 1) = PartStart(i) + ChunkSize
  BY <1>1 DEF PartStart
<1>3. \A i, j \in Nat : i =< j => PartStart(i) =< PartStart(j)
  BY <1>1, TimesIsMonotonic DEF PartStart
<1>4. \A i \in Nat : PartEnd(i) \in Nat /\ PartEnd(i) =< count /\ PartEnd(i) =< PartStart(i + 1)
  BY <1>1, <1>2 DEF PartEnd
<1>5. ASSUME NEW i \in Nat, NEW j \in Nat, i < j
      PROVE  PartEnd(i) =< PartStart(j)
  <2>1. PartStart(i + 1) =< PartStart(j)
    BY <1>3, <1>5
  <2>. QED
    BY <1>2, <1>4, <2>1
<1>. QED
  BY <1>2, <1>3, <1>4, <1>5

\* A row below the start of part n lies in one of the parts before it.
LEMMA RowsHaveParts ==
  ASSUME ShapeOK, NEW n \in Nat, NEW r \in Rows, r < PartStart(n)
  PROVE  \E i \in Nat : i < n /\ PartStart(i) =< r /\ r < PartEnd(i)
<1>1. ChunkSize \in Nat /\ count \in Nat /\ r \in Nat /\ r < count
  BY PartsSuffice, ShapeNumbers DEF Rows
<1>2. ChunkSize # 0
  BY <1>1 DEF PartStart
<1> DEFINE i == r \div ChunkSize
<1>3. /\ i \in Nat
      /\ ChunkSize * i =< r
      /\ r < ChunkSize * i + ChunkSize
  BY <1>1, <1>2, Divide
<1>. HIDE DEF i
<1>4. PartStart(i) =< r /\ r < PartEnd(i)
  BY <1>1, <1>3 DEF PartStart, PartEnd
<1>5. i < n
  <2>1. ASSUME n =< i
        PROVE  FALSE
    BY <1>1, <1>3, <1>4, <2>1, PartsAreOrdered
  <2>. QED
    BY <1>3, <2>1
<1>. QED
  BY <1>3, <1>4, <1>5

-----------------------------------------------------------------------------
(* The inductive invariant. *)

Task == [next : Nat, end : Nat, state : {"running", "done", "failed"}]

DispatchTypeOK ==
  /\ ShapeOK
  /\ poolOpen \in BOOLEAN
  /\ caller \in {"start", "submit", "join", "returned", "threw"}
  /\ index \in Nat
  /\ futures \in Seq(Task)
  /\ writes \in [Rows -> Nat]

\* Task k works on part k - 1, from its start.
TaskInv ==
  \A k \in Tasks :
    /\ futures[k].end = PartEnd(k - 1)
    /\ PartStart(k - 1) =< futures[k].next /\ futures[k].next =< futures[k].end
    /\ futures[k].state = "done" => futures[k].next = futures[k].end

\* The tasks so far are those of the parts before index that are not empty, and
\* behind the last round no row is left.
SubmitInv ==
  /\ Len(futures) =< NumTasks
  /\ caller = "start" => futures = <<>> /\ index = 0
  /\ caller = "submit" =>
       /\ index =< NumTasks /\ Len(futures) =< index
       /\ Len(futures) = index \/ count =< PartStart(Len(futures))
  /\ caller \in {"join", "returned"} =>
       count =< PartStart(Len(futures)) \/ (ComputesInline /\ caller = "returned")

\* The tasks before index are joined; who returned has joined all.
JoinInv ==
  /\ caller = "join" => \A k \in Tasks : k < index => futures[k].state = "done"
  /\ caller = "returned" => \A k \in Tasks : futures[k].state = "done"

Computed(r) == \E k \in Tasks : PartStart(k - 1) =< r /\ r < futures[k].next

\* A row was computed once if its task has passed it, and else never.
WritesInv ==
  IF caller = "returned" /\ ComputesInline
  THEN futures = <<>> /\ \A r \in Rows : writes[r] = 1
  ELSE /\ caller \in {"submit", "join", "returned"} => ~ComputesInline
       /\ \A r \in Rows : writes[r] = IF Computed(r) THEN 1 ELSE 0

DispatchInv == DispatchTypeOK /\ TaskInv /\ SubmitInv /\ JoinInv /\ WritesInv

LEMMA InitDispatchInv == Init => DispatchInv
<1>. SUFFICES ASSUME Init
              PROVE  DispatchInv
  OBVIOUS
<1>1. ShapeOK
  BY DEF Init, ShapeOK
<1>2. DispatchTypeOK
  BY <1>1 DEF Init, DispatchTypeOK
<1>3. Tasks = {} /\ Len(futures) = 0 /\ caller = "start" /\ index = 0
  BY DEF Init, Tasks
<1>4. NumTasks \in Nat
  BY <1>1, SomeTasks
<1>5. WritesInv
  BY <1>3 DEF Init, WritesInv, Computed
<1>. QED
  BY <1>2, <1>3, <1>4, <1>5 DEF Init, DispatchInv, TaskInv, SubmitInv, JoinInv

\* The operators on the shape of a dispatch keep their values.
LEMMA ShapeStays ==
  ASSUME UNCHANGED <<user, count, cores>>
  PROVE  /\ UNCHANGED <<NumTasks, ChunkSize, ComputesInline, Rows>>
         /\ \A i : UNCHANGED <<PartStart(i), PartEnd(i)>>
         /\ ShapeOK' = ShapeOK
BY DEF NumTasks, ChunkSize, ComputesInline, Rows, PartStart, PartEnd, ShapeOK

\* What the invariant says of one task.
LEMMA TaskFacts ==
  ASSUME DispatchInv, NEW k \in Tasks
  PROVE  /\ ShapeOK
         /\ futures[k] \in Task
         /\ k \in Nat /\ k - 1 \in Nat
         /\ futures[k].next \in Nat
         /\ PartStart(k - 1) \in Nat /\ PartEnd(k - 1) \in Nat
         /\ futures[k].end = PartEnd(k - 1)
         /\ PartStart(k - 1) =< futures[k].next
         /\ futures[k].next =< PartEnd(k - 1)
<1>1. ShapeOK /\ futures \in Seq(Task)
  BY DEF DispatchInv, DispatchTypeOK
<1>2. k \in Nat /\ k - 1 \in Nat /\ futures[k] \in Task
  BY <1>1 DEF Tasks
<1>3. futures[k].next \in Nat
  BY <1>2 DEF Task
<1>4. PartStart(k - 1) \in Nat /\ PartEnd(k - 1) \in Nat
  BY <1>1, <1>2, PartsAreOrdered
<1>5. /\ futures[k].end = PartEnd(k - 1)
      /\ PartStart(k - 1) =< futures[k].next
      /\ futures[k].next =< futures[k].end
  BY DEF DispatchInv, TaskInv
<1>. QED
  BY <1>1, <1>2, <1>3, <1>4, <1>5

\* No other task comes by the row that a task computes next.
LEMMA NextRowIsFresh ==
  ASSUME DispatchInv, NEW k \in Tasks, futures[k].next < futures[k].end
  PROVE  futures[k].next \in Rows /\ ~Computed(futures[k].next)
<1> DEFINE r == futures[k].next
<1>1. r \in Nat /\ PartStart(k - 1) =< r /\ r < PartEnd(k - 1)
  BY TaskFacts
<1>2. k \in Nat /\ k - 1 \in Nat /\ ShapeOK
  BY TaskFacts
<1>. HIDE DEF r
<1>3. r < count /\ count \in Nat
  BY <1>1, <1>2, PartsAreOrdered, ShapeNumbers
<1>4. ASSUME NEW j \in Tasks, PartStart(j - 1) =< r, r < futures[j].next
      PROVE  FALSE
  <2>1. /\ j \in Nat /\ j - 1 \in Nat /\ futures[j].next \in Nat
        /\ PartStart(j - 1) \in Nat /\ PartEnd(j - 1) \in Nat
        /\ futures[j].next =< PartEnd(j - 1)
    BY TaskFacts
  <2>2. r < PartEnd(j - 1)
    BY <1>1, <1>4, <2>1
  <2>3. j # k
    BY <1>1, <1>4 DEF r
  <2>4. CASE j - 1 < k - 1
    <3>1. PartEnd(j - 1) =< PartStart(k - 1) /\ PartStart(k - 1) \in Nat
      BY <1>2, <2>1, <2>4, PartsAreOrdered
    <3>. QED
      BY <1>1, <2>1, <2>2, <3>1
  <2>5. CASE k - 1 < j - 1
    <3>1. PartEnd(k - 1) =< PartStart(j - 1) /\ PartEnd(k - 1) \in Nat
      BY <1>2, <2>1, <2>5, PartsAreOrdered
    <3>. QED
      BY <1>1, <1>4, <2>1, <3>1
  <2>. QED
    BY <1>2, <2>1, <2>3, <2>4, <2>5
<1>. QED
  BY <1>1, <1>3, <1>4 DEF Rows, Computed, r

LEMMA NextDispatchInv == DispatchInv /\ [Next]_vars => DispatchInv'
<1>. SUFFICES ASSUME DispatchInv, [Next]_vars
              PROVE  DispatchInv'
  OBVIOUS
<1>. USE DEF DispatchInv
<1>shape. UNCHANGED <<user, count, cores>>
  BY DEF Next, Caller, Worker, Inline, Split, Submit, SubmitThrows, BeginJoin, Join, JoinThrows,
         Return, Shutdown, ComputeRow, EndTask, FailTask, vars
<1>same. /\ UNCHANGED <<NumTasks, ComputesInline, Rows>>
         /\ \A i : UNCHANGED <<PartStart(i), PartEnd(i)>>
         /\ ShapeOK /\ ShapeOK'
  BY <1>shape, ShapeStays DEF DispatchTypeOK
<1>types. futures \in Seq(Task) /\ Tasks = 1..Len(futures) /\ Len(futures) \in Nat
  BY DEF DispatchTypeOK, Tasks
<1>tasks. NumTasks \in Nat \ {0}
  BY <1>same, SomeTasks
\* Steps that leave the tasks and the rows alone.
<1>keep. ASSUME UNCHANGED <<futures, writes>>
         PROVE  TaskInv' /\ UNCHANGED Tasks /\ \A r : Computed(r)' = Computed(r)
  <2>1. UNCHANGED Tasks
    BY <1>keep DEF Tasks
  <2>2. TaskInv'
    BY <1>keep, <1>same, <2>1 DEF TaskInv
  <2>3. \A r : Computed(r)' = Computed(r)
    BY <1>keep, <1>same, <2>1 DEF Computed
  <2>. QED
    BY <2>1, <2>2, <2>3
<1>1. CASE Inline
  <2>1. futures = <<>> /\ futures' = <<>> /\ Tasks = {} /\ Tasks' = {}
    BY <1>1 DEF Inline, SubmitInv, Tasks
  <2>2. \A r \in Rows : writes[r] = 0
    BY <1>1, <2>1 DEF Inline, WritesInv, Computed
  <2>3. DispatchTypeOK'
    BY <1>1, <1>same DEF Inline, DispatchTypeOK
  <2>4. WritesInv'
    BY <1>1, <1>same, <2>1, <2>2 DEF Inline, WritesInv, DispatchTypeOK
  <2>. QED
    BY <1>1, <1>same, <1>tasks, <2>1, <2>3, <2>4 DEF Inline, TaskInv, SubmitInv, JoinInv
<1>2. CASE Split
  <2>1. DispatchTypeOK'
    BY <1>2, <1>same DEF Split, DispatchTypeOK
  <2>2. SubmitInv' /\ JoinInv'
    BY <1>2, <1>same, <1>tasks DEF Split, SubmitInv, JoinInv
  <2>3. WritesInv'
    BY <1>2, <1>same, <1>keep DEF Split, WritesInv
  <2>. QED
    BY <1>2, <1>keep, <2>1, <2>2, <2>3 DEF Split
<1>3. CASE Submit /\ PartStart(index) < PartEnd(index)
  <2> DEFINE task == [next |-> PartStart(index), end |-> PartEnd(index), state |-> "running"]
  <2>1. /\ caller = "submit" /\ index \in Nat /\ index < NumTasks
        /\ futures' = Append(futures, task)
        /\ index' = index + 1
        /\ UNCHANGED <<poolOpen, caller, writes>>
    BY <1>3 DEF Submit, DispatchTypeOK
  <2>2. task \in Task
    BY <1>same, <2>1, PartsAreOrdered DEF Task
  <2>3. PartEnd(index) =< count /\ count \in Nat /\ PartStart(index) \in Nat /\ PartEnd(index) \in Nat
    BY <1>same, <2>1, PartsAreOrdered, ShapeNumbers
  <2>4. Len(futures) = index
    <3>1. ASSUME Len(futures) < index, count =< PartStart(Len(futures))
          PROVE  FALSE
      BY SMTT(30), <1>3, <1>same, <1>types, <2>1, <2>3, <3>1, PartsAreOrdered
    <3>. QED
      BY <1>types, <2>1, <3>1 DEF SubmitInv
  <2>. HIDE DEF task
  <2>5. /\ futures' \in Seq(Task)
        /\ Len(futures') = index + 1
        /\ Tasks' = 1..index + 1
        /\ \A k \in Tasks : futures'[k] = futures[k]
        /\ futures'[index + 1] = task
    BY <1>types, <2>1, <2>2, <2>4 DEF Tasks
  <2>6. DispatchTypeOK'
    BY <1>same, <2>1, <2>5 DEF DispatchTypeOK
  <2>7. \A k \in Tasks' : k \in Tasks \/ k = index + 1
    BY <1>types, <2>4, <2>5
  <2>8. TaskInv'
    <3>1. ASSUME NEW k \in Tasks
          PROVE  /\ futures'[k].end = PartEnd(k - 1)
                 /\ PartStart(k - 1) =< futures'[k].next /\ futures'[k].next =< futures'[k].end
                 /\ futures'[k].state = "done" => futures'[k].next = futures'[k].end
      BY <2>5 DEF TaskInv
    <3>2. index + 1 - 1 = index
      BY <2>1
    <3>3. /\ futures'[index + 1].end = PartEnd(index)
          /\ PartStart(index) =< futures'[index + 1].next
          /\ futures'[index + 1].next =< futures'[index + 1].end
          /\ futures'[index + 1].state = "running"
      BY <1>3, <2>3, <2>5 DEF task
    <3>4. ASSUME NEW k \in Tasks'
          PROVE  /\ futures'[k].end = PartEnd(k - 1)
                 /\ PartStart(k - 1) =< futures'[k].next /\ futures'[k].next =< futures'[k].end
                 /\ futures'[k].state = "done" => futures'[k].next = futures'[k].end
      <4>1. CASE k \in Tasks
        BY <3>1, <4>1
      <4>2. CASE k = index + 1
        <5>1. k - 1 = index
          BY <2>1, <4>2
        <5>. QED
          BY <3>3, <4>2, <5>1
      <4>. QED
        BY <2>7, <4>1, <4>2
    <3>. QED
      BY <1>same, <3>4 DEF TaskInv
  <2>9. SubmitInv' /\ JoinInv'
    <3>1. index + 1 \in Nat /\ index + 1 =< NumTasks
      BY <1>tasks, <2>1
    <3>. QED
      BY <1>same, <2>1, <2>5, <3>1 DEF SubmitInv, JoinInv
  <2>10. \A r \in Rows : Computed(r)' <=> Computed(r)
    <3>1. \A r : Computed(r) => Computed(r)'
      BY <1>same, <1>types, <2>4, <2>5 DEF Computed
    <3>2. \A r \in Rows : Computed(r)' => Computed(r)
      <4>. SUFFICES ASSUME NEW r \in Rows, NEW k \in Tasks',
                           PartStart(k - 1) =< r, r < futures'[k].next
                    PROVE  Computed(r)
        BY <1>same DEF Computed
      <4>1. k # index + 1
        BY <2>1, <2>3, <2>5 DEF task, Rows
      <4>. QED
        BY <2>5, <2>7, <4>1 DEF Computed
    <3>. QED
      BY <3>1, <3>2
  <2>11. WritesInv'
    BY <1>same, <2>1, <2>10 DEF WritesInv
  <2>. QED
    BY <2>6, <2>8, <2>9, <2>11
<1>4. CASE Submit /\ ~(PartStart(index) < PartEnd(index))
  <2>1. /\ caller = "submit" /\ index \in Nat /\ index < NumTasks
        /\ index' = index + 1
        /\ UNCHANGED <<poolOpen, caller, futures, writes>>
    BY <1>4 DEF Submit, DispatchTypeOK
  <2>2. Len(futures) = index => count =< PartStart(index)
    <3>1. PartStart(index) \in Nat /\ ChunkSize \in Nat /\ count \in Nat
      BY <1>same, <2>1, PartsAreOrdered, PartsSuffice, ShapeNumbers
    <3>2. ASSUME PartStart(index) < count
          PROVE  ChunkSize # 0
      BY <1>same, <1>tasks, <3>1, <3>2, PartsSuffice
    <3>. QED
      BY <1>4, <3>1, <3>2 DEF PartEnd
  <2>3. DispatchTypeOK'
    BY <1>same, <2>1 DEF DispatchTypeOK
  <2>4. SubmitInv' /\ JoinInv'
    <3>1. index + 1 \in Nat /\ index + 1 =< NumTasks /\ index =< index + 1
      BY <1>tasks, <2>1
    <3>2. Len(futures) =< index + 1
      BY <1>types, <2>1 DEF SubmitInv
    <3>3. count =< PartStart(Len(futures))
      BY <2>1, <2>2 DEF SubmitInv
    <3>4. (PartStart(Len(futures)))' = PartStart(Len(futures))
      BY <1>shape, <2>1 DEF PartStart, ChunkSize, NumTasks
    <3>5. JoinInv'
      BY <2>1 DEF JoinInv
    <3>6. (Len(futures) =< NumTasks)'
      BY <1>same, <2>1 DEF SubmitInv
    <3>7. caller' = "submit" /\ (index =< NumTasks)' /\ (Len(futures) =< index)'
      BY <1>same, <2>1, <3>1, <3>2
    <3>8. (count =< PartStart(Len(futures)))'
      BY <1>shape, <3>3, <3>4
    <3>. QED
      BY <3>5, <3>6, <3>7, <3>8 DEF SubmitInv
  <2>5. WritesInv'
    BY <1>same, <1>keep, <2>1 DEF WritesInv
  <2>. QED
    BY <1>keep, <2>1, <2>3, <2>4, <2>5
<1>5. CASE SubmitThrows \/ JoinThrows
  <2>1. DispatchTypeOK'
    BY <1>5, <1>same DEF SubmitThrows, JoinThrows, DispatchTypeOK
  <2>2. SubmitInv' /\ JoinInv'
    BY <1>5, <1>same DEF SubmitThrows, JoinThrows, SubmitInv, JoinInv
  <2>3. WritesInv'
    BY <1>5, <1>same, <1>keep DEF SubmitThrows, JoinThrows, WritesInv
  <2>. QED
    BY <1>5, <1>keep, <2>1, <2>2, <2>3 DEF SubmitThrows, JoinThrows
<1>6. CASE BeginJoin
  <2>1. count =< PartStart(Len(futures))
    <3>1. count =< PartStart(NumTasks)
      BY <1>same, PartsSuffice DEF PartStart
    <3>. QED
      BY <1>6, <3>1 DEF BeginJoin, SubmitInv
  <2>2. DispatchTypeOK'
    BY <1>6, <1>same DEF BeginJoin, DispatchTypeOK
  <2>3. SubmitInv' /\ JoinInv'
    BY <1>6, <1>same, <1>keep, <1>types, <2>1 DEF BeginJoin, SubmitInv, JoinInv
  <2>4. WritesInv'
    BY <1>6, <1>same, <1>keep DEF BeginJoin, WritesInv
  <2>. QED
    BY <1>6, <1>keep, <2>2, <2>3, <2>4 DEF BeginJoin
<1>7. CASE Join
  <2>1. DispatchTypeOK'
    BY <1>7, <1>same DEF Join, DispatchTypeOK
  <2>2. SubmitInv'
    BY <1>7, <1>same DEF Join, SubmitInv
  <2>3. JoinInv'
    BY <1>7, <1>keep, <1>types DEF Join, JoinInv, DispatchTypeOK
  <2>4. WritesInv'
    BY <1>7, <1>same, <1>keep DEF Join, WritesInv
  <2>. QED
    BY <1>7, <1>keep, <2>1, <2>2, <2>3, <2>4 DEF Join
<1>8. CASE Return
  <2>1. ~ComputesInline
    BY <1>8 DEF Return, WritesInv
  <2>2. DispatchTypeOK'
    BY <1>8, <1>same DEF Return, DispatchTypeOK
  <2>3. SubmitInv'
    BY <1>8, <1>same DEF Return, SubmitInv
  <2>4. JoinInv'
    BY <1>8, <1>keep, <1>types DEF Return, JoinInv, DispatchTypeOK
  <2>5. WritesInv'
    BY <1>8, <1>same, <1>keep, <2>1 DEF Return, WritesInv
  <2>. QED
    BY <1>8, <1>keep, <2>2, <2>3, <2>4, <2>5 DEF Return
<1>9. CASE Shutdown
  <2>1. DispatchTypeOK'
    BY <1>9, <1>same DEF Shutdown, DispatchTypeOK
  <2>2. SubmitInv' /\ JoinInv'
    BY <1>9, <1>same, <1>keep DEF Shutdown, SubmitInv, JoinInv
  <2>3. WritesInv'
    BY <1>9, <1>same, <1>keep DEF Shutdown, WritesInv
  <2>. QED
    BY <1>9, <1>keep, <2>1, <2>2, <2>3 DEF Shutdown
\* Steps of a worker: there are tasks, so the rows are not computed by the caller.
<1>worker. ASSUME NEW k \in Tasks
           PROVE  ~(caller = "returned" /\ ComputesInline) /\ ~(caller = "start")
  BY <1>types DEF WritesInv, SubmitInv
<1>submitted. ASSUME UNCHANGED <<caller, index>>, Len(futures') = Len(futures), caller # "start"
              PROVE  SubmitInv'
  <2>1. (PartStart(Len(futures)))' = PartStart(Len(futures))
    BY <1>shape, <1>submitted DEF PartStart, ChunkSize, NumTasks
  <2>2. (count =< PartStart(Len(futures)))' <=> count =< PartStart(Len(futures))
    BY <1>shape, <2>1
  <2>. HIDE DEF DispatchInv
  <2>3. SubmitInv
    BY DEF DispatchInv
  <2>4. (Len(futures) =< NumTasks)'
    BY <1>same, <1>submitted, <2>3 DEF SubmitInv
  <2>5. caller' = "submit" =>
          /\ (index =< NumTasks)' /\ (Len(futures) =< index)'
          /\ (Len(futures) = index \/ count =< PartStart(Len(futures)))'
    BY <1>same, <1>submitted, <2>2, <2>3 DEF SubmitInv
  <2>6. caller' \in {"join", "returned"} =>
          (count =< PartStart(Len(futures)) \/ (ComputesInline /\ caller = "returned"))'
    BY <1>same, <1>submitted, <2>2, <2>3 DEF SubmitInv
  <2>. QED
    BY <1>submitted, <2>4, <2>5, <2>6 DEF SubmitInv
<1>10. ASSUME NEW k \in Tasks, ComputeRow(k)
       PROVE  DispatchInv'
  <2> DEFINE r == futures[k].next
  <2>1. futures[k] \in Task /\ futures[k].state = "running" /\ r < futures[k].end
    BY <1>10, <1>types DEF ComputeRow
  <2>2. r \in Rows /\ ~Computed(r) /\ r \in Nat
    BY <2>1, NextRowIsFresh DEF Task
  <2>3. /\ futures' = [futures EXCEPT ![k] = [futures[k] EXCEPT !.next = r + 1]]
        /\ writes' = [writes EXCEPT ![r] = @ + 1]
        /\ UNCHANGED <<poolOpen, caller, index>>
    BY <1>10, <2>1 DEF ComputeRow, Task
  <2>4. [futures[k] EXCEPT !.next = r + 1] \in Task
    BY <2>1, <2>2 DEF Task
  <2>5. /\ futures' \in Seq(Task) /\ Len(futures') = Len(futures) /\ Tasks' = Tasks
        /\ futures'[k].next = r + 1
        /\ futures'[k].end = futures[k].end /\ futures'[k].state = "running"
        /\ \A j \in Tasks \ {k} : futures'[j] = futures[j]
    BY <1>types, <2>1, <2>3, <2>4 DEF Task, Tasks
  <2>. HIDE DEF r
  <2>6. DispatchTypeOK'
    BY <1>same, <2>2, <2>3, <2>5 DEF DispatchTypeOK
  <2>7. futures[k].end \in Nat /\ PartStart(k - 1) =< r /\ PartStart(k - 1) \in Nat
    BY <2>1, TaskFacts DEF Task, r
  <2>8. TaskInv'
    <3>1. /\ futures'[k].end = PartEnd(k - 1)'
          /\ (PartStart(k - 1))' =< futures'[k].next /\ futures'[k].next =< futures'[k].end
      BY <1>same, <2>1, <2>2, <2>5, <2>7 DEF TaskInv
    <3>. QED
      BY <1>same, <2>5, <3>1 DEF TaskInv
  <2>9. SubmitInv' /\ JoinInv'
    <3>1. JoinInv'
      BY <2>1, <2>3, <2>5 DEF JoinInv
    <3>. QED
      BY <1>worker, <1>submitted, <2>3, <2>5, <3>1
  <2>10. \A s \in Rows : Computed(s)' <=> Computed(s) \/ s = r
    <3>1. \A s : Computed(s)' <=>
                   \E j \in Tasks : PartStart(j - 1) =< s /\ s < futures'[j].next
      BY <1>same, <2>5 DEF Computed
    <3>2. \A s \in Rows : s < r + 1 <=> s < r \/ s = r
      BY <2>2, <1>same, ShapeNumbers DEF Rows
    <3>3. \A s \in Rows : Computed(s) => \E j \in Tasks : PartStart(j - 1) =< s /\ s < futures'[j].next
      BY <2>5, <3>2 DEF Computed, r
    <3>4. \A s \in Rows : (\E j \in Tasks : PartStart(j - 1) =< s /\ s < futures'[j].next) => Computed(s) \/ s = r
      BY <2>5, <3>2 DEF Computed, r
    <3>5. \E j \in Tasks : PartStart(j - 1) =< r /\ r < futures'[j].next
      BY <2>2, <2>5, <2>7
    <3>. QED
      BY <3>1, <3>3, <3>4, <3>5
  <2>11. WritesInv'
    <3>1. \A s \in Rows : writes'[s] = IF s = r THEN writes[s] + 1 ELSE writes[s]
      BY <2>2, <2>3 DEF DispatchTypeOK
    <3>. QED
      BY <1>same, <1>worker, <2>2, <2>3, <2>10, <3>1 DEF WritesInv
  <2>. QED
    BY <2>6, <2>8, <2>9, <2>11
<1>11. ASSUME NEW k \in Tasks, EndTask(k) \/ FailTask(k)
       PROVE  DispatchInv'
  <2>1. PICK state \in {"done", "failed"} :
          /\ futures' = [futures EXCEPT ![k].state = state]
          /\ futures[k].state = "running"
          /\ state = "done" => futures[k].next = futures[k].end
          /\ UNCHANGED <<poolOpen, caller, index, writes>>
    BY <1>11 DEF EndTask, FailTask
  <2>2. futures[k] \in Task /\ [futures[k] EXCEPT !.state = state] \in Task
    <3>1. futures[k] \in Task
      BY TaskFacts
    <3>. QED
      BY <3>1 DEF Task
  <2>3. /\ futures' \in Seq(Task) /\ Len(futures') = Len(futures) /\ Tasks' = Tasks
        /\ futures'[k].next = futures[k].next
        /\ futures'[k].end = futures[k].end /\ futures'[k].state = state
        /\ \A j \in Tasks \ {k} : futures'[j] = futures[j]
    BY <1>types, <2>1, <2>2 DEF Task, Tasks
  <2>4. DispatchTypeOK'
    BY <1>same, <2>1, <2>3 DEF DispatchTypeOK
  <2>5. TaskInv'
    BY <1>same, <2>1, <2>3 DEF TaskInv
  <2>6. SubmitInv' /\ JoinInv'
    <3>1. JoinInv'
      BY <2>1, <2>3 DEF JoinInv
    <3>. QED
      BY <1>worker, <1>submitted, <2>1, <2>3, <3>1
  <2>7. \A r : Computed(r)' = Computed(r)
    BY <1>same, <2>3 DEF Computed
  <2>8. WritesInv'
    BY <1>same, <1>worker, <2>1, <2>7 DEF WritesInv
  <2>. QED
    BY <2>4, <2>5, <2>6, <2>8
<1>12. CASE UNCHANGED vars
  <2>1. DispatchTypeOK' /\ SubmitInv' /\ JoinInv'
    BY <1>12, <1>same, <1>keep DEF vars, DispatchTypeOK, SubmitInv, JoinInv
  <2>2. WritesInv'
    BY <1>12, <1>same, <1>keep DEF vars, WritesInv
  <2>. QED
    BY <1>12, <1>keep, <2>1, <2>2 DEF vars
<1>. QED
  BY <1>1, <1>2, <1>3, <1>4, <1>5, <1>6, <1>7, <1>8, <1>9, <1>10, <1>11, <1>12
     DEF Next, Caller, Worker

-----------------------------------------------------------------------------
(* What follows from the invariant. *)

LEMMA DispatchInvHolds == Spec => []DispatchInv
BY InitDispatchInv, NextDispatchInv, PTL DEF Spec

\* Tasks of the pool and native threads compute every row of the result at most
\* once, whatever fails and whenever the pool closes: the parts of dispatchFusedGemv,
\* dispatchFusedGemm and parallel_for do not overlap, for any number of rows and cores.
THEOREM RowsAreSharedOut == Spec => []RowsHaveOneWorker
<1>1. DispatchInv => RowsHaveOneWorker
  BY DEF DispatchInv, DispatchTypeOK, WritesInv, RowsHaveOneWorker
<1>. QED
  BY <1>1, DispatchInvHolds, PTL

\* A dispatch that returns has computed every row exactly once, rounding included,
\* and left no worker behind that still writes.
THEOREM ResultIsComplete == Spec => []ReturnedIsComplete
<1>1. ASSUME DispatchInv, caller = "returned"
      PROVE  /\ \A r \in Rows : writes[r] = 1
             /\ \A k \in Tasks : futures[k].state = "done"
  <2>1. \A k \in Tasks : futures[k].state = "done"
    BY <1>1 DEF DispatchInv, JoinInv
  <2>2. CASE ~ComputesInline
    <3>. SUFFICES ASSUME NEW r \in Rows
                  PROVE  Computed(r)
      BY <1>1, <2>1, <2>2 DEF DispatchInv, WritesInv
    <3>1. /\ ShapeOK /\ Tasks = 1..Len(futures) /\ Len(futures) \in Nat
          /\ count =< PartStart(Len(futures))
      BY <1>1, <2>2 DEF DispatchInv, DispatchTypeOK, SubmitInv, Tasks
    <3>2. r < PartStart(Len(futures))
      BY <3>1, ShapeNumbers, PartsAreOrdered DEF Rows
    <3>3. PICK i \in Nat : i < Len(futures) /\ PartStart(i) =< r /\ r < PartEnd(i)
      BY <3>1, <3>2, RowsHaveParts
    <3>4. i + 1 \in Tasks /\ i + 1 - 1 = i
      BY <3>1, <3>3
    <3>5. r < futures[i + 1].next
      BY <1>1, <2>1, <3>3, <3>4 DEF DispatchInv, TaskInv
    <3>. QED
      BY <3>3, <3>4, <3>5 DEF Computed
  <2>3. CASE ComputesInline
    BY <1>1, <2>1, <2>3 DEF DispatchInv, WritesInv
  <2>. QED
    BY <2>1, <2>2, <2>3
<1>2. DispatchInv => ReturnedIsComplete
  BY <1>1 DEF ReturnedIsComplete
<1>. QED
  BY <1>2, DispatchInvHolds, PTL

\* No more tasks are made than there are cores, so none waits for a thread that
\* another task of the same matrix holds.
THEOREM TasksFitTheCores == Spec => []TasksWithinCores
<1>1. ASSUME DispatchInv
      PROVE  TasksWithinCores
  <2>1. NumTasks \in Nat /\ NumTasks =< cores /\ cores \in Nat
    BY <1>1, SomeTasks, ShapeNumbers DEF DispatchInv, DispatchTypeOK
  <2>2. Len(futures) \in Nat /\ Len(futures) =< NumTasks
    BY <1>1 DEF DispatchInv, DispatchTypeOK, SubmitInv
  <2>. QED
    BY <2>1, <2>2 DEF TasksWithinCores
<1>. QED
  BY <1>1, DispatchInvHolds, PTL
=============================================================================
