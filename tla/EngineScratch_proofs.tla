------------------------- MODULE EngineScratch_proofs -------------------------
(***************************************************************************)
(* Proofs about EngineScratch for every number of threads, layers, calls   *)
(* and tokens, and for both kinds of sampling.                             *)
(***************************************************************************)
EXTENDS EngineScratch, Integers, TLAPS

-----------------------------------------------------------------------------
(* The programs of the turns. *)

\* What the first n operations of a turn write.
Written(p, n) == UNION {Program(p)[i].writes : i \in 1..n}

PassArrays == {"residual", "normX", "q", "k", "v", "attnOut", "projAttn", "gate", "up", "ffnDown"}
OtherArrays == {"embdRowRaw", "normX", "logitsBuf", "topScores", "probsBuf"}

LEMMA EmbedReadsWritten ==
  ASSUME NEW n \in 0..Len(EmbedProgram) - 1, NEW a \in EmbedProgram[n + 1].reads
  PROVE  \E i \in 1..n : a \in EmbedProgram[i].writes
BY DEF EmbedProgram, Operation

LEMMA AttentionReadsWritten ==
  ASSUME NEW n \in 0..Len(AttentionProgram) - 1, NEW a \in AttentionProgram[n + 1].reads
  PROVE  \E i \in 1..n : a \in AttentionProgram[i].writes
BY DEF AttentionProgram, Operation

LEMMA FfnReadsWritten ==
  ASSUME NEW n \in 0..Len(FfnProgram) - 1, NEW a \in FfnProgram[n + 1].reads
  PROVE  \E i \in 1..n : a \in FfnProgram[i].writes
BY DEF FfnProgram, Operation

LEMMA SampleReadsWritten ==
  ASSUME NEW n \in 0..Len(SampleProgram) - 1, NEW a \in SampleProgram[n + 1].reads
  PROVE  \E i \in 1..n : a \in SampleProgram[i].writes
<1>1. CASE Greedy
  BY <1>1 DEF SampleProgram, Operation
<1>2. CASE ~Greedy
  BY <1>2 DEF SampleProgram, Operation
<1>. QED
  BY <1>1, <1>2

LEMMA ProgramLengths ==
  /\ Program("embed") = EmbedProgram /\ Len(EmbedProgram) \in Nat \ {0}
  /\ Program("attention") = AttentionProgram /\ Len(AttentionProgram) \in Nat \ {0}
  /\ Program("ffn") = FfnProgram /\ Len(FfnProgram) \in Nat \ {0}
  /\ Program("sample") = SampleProgram /\ Len(SampleProgram) \in Nat \ {0}
  /\ \A p \in {"idle", "workspace", "enter"} : Program(p) = <<>>
<1>1. Len(EmbedProgram) \in Nat \ {0} /\ Len(AttentionProgram) \in Nat \ {0}
      /\ Len(FfnProgram) \in Nat \ {0}
  BY DEF EmbedProgram, AttentionProgram, FfnProgram
<1>2. Len(SampleProgram) \in Nat \ {0}
  <2>1. CASE Greedy
    BY <2>1 DEF SampleProgram
  <2>2. CASE ~Greedy
    BY <2>2 DEF SampleProgram
  <2>. QED
    BY <2>1, <2>2
<1>. QED
  BY <1>1, <1>2 DEF Program

\* No operation reads an array that the turn has not written before.
LEMMA ReadsWereWritten ==
  ASSUME NEW p \in Phases, NEW n \in Nat, n < Len(Program(p))
  PROVE  Program(p)[n + 1].reads \subseteq Written(p, n)
<1>1. Len(Program(p)) \in Nat /\ n \in 0..Len(Program(p)) - 1
  BY ProgramLengths DEF Phases
<1>2. \A a \in Program(p)[n + 1].reads : \E i \in 1..n : a \in Program(p)[i].writes
  <2>1. CASE p = "embed"
    BY <1>1, <2>1, ProgramLengths, EmbedReadsWritten
  <2>2. CASE p = "attention"
    BY <1>1, <2>2, ProgramLengths, AttentionReadsWritten
  <2>3. CASE p = "ffn"
    BY <1>1, <2>3, ProgramLengths, FfnReadsWritten
  <2>4. CASE p = "sample"
    BY <1>1, <2>4, ProgramLengths, SampleReadsWritten
  <2>5. CASE p \in {"idle", "workspace", "enter"}
    BY <1>1, <2>5, ProgramLengths
  <2>. QED
    BY <2>1, <2>2, <2>3, <2>4, <2>5 DEF Phases
<1>. QED
  BY <1>2 DEF Written

LEMMA AttentionWrites ==
  ASSUME NEW i \in 1..Len(AttentionProgram), NEW a \in AttentionProgram[i].writes
  PROVE  a \in PassArrays
BY DEF AttentionProgram, Operation, PassArrays

LEMMA FfnWrites ==
  ASSUME NEW i \in 1..Len(FfnProgram), NEW a \in FfnProgram[i].writes
  PROVE  a \in PassArrays
BY DEF FfnProgram, Operation, PassArrays

LEMMA SampleWrites ==
  ASSUME NEW i \in 1..Len(SampleProgram), NEW a \in SampleProgram[i].writes
  PROVE  a \in OtherArrays
<1>1. CASE Greedy
  BY <1>1 DEF SampleProgram, Operation, OtherArrays
<1>2. CASE ~Greedy
  BY <1>2 DEF SampleProgram, Operation, OtherArrays
<1>. QED
  BY <1>1, <1>2

\* Passes write arrays of theirs, and the turns outside them others.
LEMMA WritesOfPhases ==
  ASSUME NEW p \in Phases, NEW i \in 1..Len(Program(p))
  PROVE  /\ Program(p)[i].writes \subseteq Arrays
         /\ p \in {"attention", "ffn"} => Program(p)[i].writes \subseteq PassArrays
         /\ p \notin {"attention", "ffn"} => Program(p)[i].writes \subseteq OtherArrays
<1>1. PassArrays \subseteq Arrays /\ OtherArrays \subseteq Arrays
  BY DEF PassArrays, OtherArrays, Arrays
<1>2. CASE p = "embed"
  BY <1>1, <1>2, ProgramLengths DEF EmbedProgram, Operation, OtherArrays
<1>3. CASE p = "attention"
  BY <1>1, <1>3, ProgramLengths, AttentionWrites
<1>4. CASE p = "ffn"
  BY <1>1, <1>4, ProgramLengths, FfnWrites
<1>5. CASE p = "sample"
  BY <1>1, <1>5, ProgramLengths, SampleWrites
<1>6. CASE p \in {"idle", "workspace", "enter"}
  BY <1>6, ProgramLengths
<1>. QED
  BY <1>2, <1>3, <1>4, <1>5, <1>6 DEF Phases

LEMMA WrittenArrays ==
  ASSUME NEW p \in Phases, NEW n \in Nat, n =< Len(Program(p))
  PROVE  /\ Written(p, n) \subseteq Arrays
         /\ p \in {"attention", "ffn"} => Written(p, n) \subseteq PassArrays
<1>1. Len(Program(p)) \in Nat
  BY ProgramLengths DEF Phases
<1>2. 1..n \subseteq 1..Len(Program(p))
  BY <1>1
<1>. QED
  BY <1>2, WritesOfPhases DEF Written

\* normX is the only array that both use.
LEMMA OnlyNormXIsShared == PassArrays \cap OtherArrays = {"normX"}
BY DEF PassArrays, OtherArrays

\* One operation more.
LEMMA WrittenStep ==
  ASSUME NEW p, NEW n \in Nat
  PROVE  /\ Written(p, 0) = {}
         /\ Written(p, n + 1) = Written(p, n) \cup Program(p)[n + 1].writes
<1>1. 1..0 = {} /\ 1..n + 1 = (1..n) \cup {n + 1}
  OBVIOUS
<1>. QED
  BY <1>1 DEF Written

-----------------------------------------------------------------------------
(* The inductive invariant. *)

\* A pass holds the monitor.
MonitorInv == \A t \in Threads : InPass(t) => monitor = t

\* Nobody runs beside a call that is alone.
AloneInv ==
  \A t, u \in Threads : alone[t] /\ u # t => phase[u] = "idle"

\* How far a call has come: no turn runs over its program, a thread without one has generated nothing, sampling
\* begins below the limit, and behind the first token a pass has one row.
CallInv ==
  \A t \in Threads :
    /\ op[t] =< Len(Program(phase[t]))
    /\ phase[t] = "idle" => generated[t] = 0
    /\ phase[t] = "sample" /\ op[t] > 0 => generated[t] < MaxTokens
    /\ generated[t] > 0 => rows[t] = 1

\* The arrays a pass is about to use, or uses, have room for its rows.
RoomInv ==
  /\ Len(arrays) > 0 /\ arrays[1].capacity = 1
  /\ \A t \in Threads :
       phase[t] \in {"enter", "attention", "ffn"} => rows[t] =< arrays[home[t]].capacity

\* Whether nobody but the turn of t may write array a where the turn computes.
Guarded(t, a) == alone[t] \/ (InPass(t) /\ (home[t] # 1 \/ a # "normX"))

\* What a turn has written and others may not write still has its stamp.
StampInv ==
  \A t \in Threads : \A a \in Written(phase[t], op[t]) :
    Guarded(t, a) => arrays[Home(t)].stamp[a] = Stamp(t)

ScratchInv == TypeOK /\ MonitorInv /\ AloneInv /\ CallInv /\ RoomInv /\ StampInv

ArraySet == [capacity : Nat, stamp : [Arrays -> Stamps]]

LEMMA InitScratchInv == Init => ScratchInv
<1>. SUFFICES ASSUME Init
              PROVE  ScratchInv
  OBVIOUS
<1>1. /\ arrays \in Seq(ArraySet) /\ Len(arrays) = 1 /\ arrays[1].capacity = 1
  <2>1. Unwritten \in [Arrays -> Stamps]
    BY DEF Unwritten, Stamps
  <2>2. [capacity |-> 1, stamp |-> Unwritten] \in ArraySet
    BY <2>1 DEF ArraySet
  <2>. HIDE DEF ArraySet
  <2>. QED
    BY <2>2 DEF Init
<1>2. TypeOK
  BY <1>1, ScratchAssumption DEF Init, TypeOK, ArraySet, Phases
<1>3. MonitorInv /\ AloneInv /\ CallInv
  BY DEF Init, MonitorInv, AloneInv, CallInv, InPass
<1>4. RoomInv
  BY <1>1 DEF Init, RoomInv
<1>5. StampInv
  BY WrittenStep DEF Init, StampInv
<1>. QED
  BY <1>2, <1>3, <1>4, <1>5 DEF ScratchInv

\* An operation stamps what it writes where its turn computes, and nothing else.
LEMMA OperateWrites ==
  ASSUME TypeOK, NEW t \in Threads, Operate(t)
  PROVE  /\ arrays' \in Seq(ArraySet) /\ Len(arrays') = Len(arrays)
         /\ Home(t) \in 1..Len(arrays)
         /\ \A h \in 1..Len(arrays) : arrays'[h].capacity = arrays[h].capacity
         /\ \A h \in 1..Len(arrays) : h # Home(t) => arrays'[h] = arrays[h]
         /\ \A a \in Arrays : arrays'[Home(t)].stamp[a] =
              IF a \in NextOp(t).writes THEN Stamp(t) ELSE arrays[Home(t)].stamp[a]
<1> DEFINE h == Home(t)
           stamp == [a \in Arrays |-> IF a \in NextOp(t).writes THEN Stamp(t)
                                      ELSE arrays[h].stamp[a]]
<1>1. arrays \in Seq(ArraySet) /\ Len(arrays) \in Nat /\ DOMAIN arrays = 1..Len(arrays)
  BY DEF TypeOK, ArraySet
<1>2. home[t] \in 1..Len(arrays)
  BY DEF TypeOK
<1>3. h \in 1..Len(arrays)
  BY <1>1, <1>2 DEF Home
<1>4. Stamp(t) \in Stamps
  BY DEF TypeOK, Stamp, Stamps
<1>5. arrays[h] \in ArraySet
  BY <1>1, <1>3
<1>6. stamp \in [Arrays -> Stamps]
  BY <1>4, <1>5 DEF ArraySet
<1>7. arrays' = [arrays EXCEPT ![h].stamp = stamp]
  BY DEF Operate
<1>. HIDE DEF h
<1>8. [arrays[h] EXCEPT !.stamp = stamp] \in ArraySet
  BY <1>5, <1>6 DEF ArraySet
<1>9. arrays' = [arrays EXCEPT ![h] = [arrays[h] EXCEPT !.stamp = stamp]]
  BY <1>7
<1>. HIDE DEF stamp
<1>10. /\ arrays' \in Seq(ArraySet) /\ Len(arrays') = Len(arrays)
       /\ arrays'[h] = [arrays[h] EXCEPT !.stamp = stamp]
       /\ \A g \in 1..Len(arrays) : g # h => arrays'[g] = arrays[g]
  BY <1>1, <1>3, <1>8, <1>9
<1>11. arrays'[h].capacity = arrays[h].capacity /\ arrays'[h].stamp = stamp
  BY <1>5, <1>10 DEF ArraySet
<1>. QED
  BY <1>3, <1>10, <1>11 DEF h, stamp

\* The types of the state of the calls, and of the arrays and who uses which.
CallTypes ==
  /\ lastCall \in 0..MaxCalls
  /\ phase \in [Threads -> Phases]
  /\ op \in [Threads -> Nat]
  /\ call \in [Threads -> 0..MaxCalls]
  /\ turn \in [Threads -> Nat]
  /\ rows \in [Threads -> Nat \ {0}]
  /\ row \in [Threads -> Nat]
  /\ layer \in [Threads -> 0..NumLayers - 1]
  /\ generated \in [Threads -> 0..MaxTokens]
  /\ alone \in [Threads -> BOOLEAN]

ArrayTypes ==
  /\ arrays \in Seq(ArraySet)
  /\ cached \in 0..Len(arrays)
  /\ monitor \in Threads \cup {NoThread}
  /\ home \in [Threads -> 1..Len(arrays)]

LEMMA TypesInTwoParts == TypeOK <=> CallTypes /\ ArrayTypes
BY DEF TypeOK, CallTypes, ArrayTypes, ArraySet

LEMMA ConstantNumbers ==
  /\ MaxCalls \in Nat /\ MaxTokens \in Nat /\ MinCapacity \in Nat
  /\ NumLayers \in Nat \ {0} /\ MaxPrompt \in Nat \ {0}
BY ScratchAssumption

\* The steps from one turn to the next change nothing else of these.
LEMMA GotoTypes ==
  ASSUME CallTypes, NEW t \in Threads, NEW p \in Phases, Goto(t, p)
  PROVE  phase' \in [Threads -> Phases] /\ op' \in [Threads -> Nat] /\ turn' \in [Threads -> Nat]
BY DEF CallTypes, Goto

LEMMA NextCallTypes == CallTypes /\ CallInv /\ [Next]_vars => CallTypes'
<1>. SUFFICES ASSUME CallTypes, CallInv, [Next]_vars
              PROVE  CallTypes'
  OBVIOUS
<1>1. ASSUME NEW t \in Threads, Begin(t)
      PROVE  CallTypes'
  <2>1. lastCall + 1 \in 0..MaxCalls
    BY <1>1, ConstantNumbers DEF Begin, CallTypes
  <2>2. rows' \in [Threads -> Nat \ {0}]
    <3>1. PICK n \in 1..MaxPrompt : rows' = [rows EXCEPT ![t] = n]
      BY <1>1 DEF Begin
    <3>. QED
      BY ConstantNumbers, <3>1 DEF CallTypes
  <2>3. alone' \in [Threads -> BOOLEAN]
    BY <1>1 DEF Begin
  <2>4. phase' \in [Threads -> Phases]
    BY <1>1 DEF Begin, CallTypes, Phases
  <2>. QED
    BY <1>1, <2>1, <2>2, <2>3, <2>4 DEF Begin, CallTypes
<1>2. ASSUME NEW t \in Threads, Operate(t)
      PROVE  CallTypes'
  BY <1>2 DEF Operate, passVars, CallTypes
<1>3. ASSUME NEW t \in Threads, Embedded(t)
      PROVE  CallTypes'
  <2>1. PICK p \in {"embed", "workspace", "enter"} : Goto(t, p)
    BY <1>3 DEF Embedded
  <2>2. phase' \in [Threads -> Phases] /\ op' \in [Threads -> Nat] /\ turn' \in [Threads -> Nat]
    BY <2>1, GotoTypes DEF Phases
  <2>3. row' \in [Threads -> Nat] /\ UNCHANGED <<lastCall, call, rows, layer, generated, alone>>
    BY <1>3 DEF Embedded, sharedVars, CallTypes
  <2>. QED
    BY <2>2, <2>3 DEF CallTypes
<1>4. ASSUME NEW t \in Threads, GetWorkspace(t)
      PROVE  CallTypes'
  <2>1. phase' \in [Threads -> Phases] /\ op' \in [Threads -> Nat] /\ turn' \in [Threads -> Nat]
    BY <1>4, GotoTypes DEF GetWorkspace, Phases
  <2>. QED
    BY <1>4, <2>1 DEF GetWorkspace, CallTypes
<1>5. ASSUME NEW t \in Threads, Enter(t) \/ Attended(t) \/ NextLayer(t) \/ Leave(t)
      PROVE  CallTypes'
  <2>1. layer' \in [Threads -> 0..NumLayers - 1]
    BY <1>5, ConstantNumbers DEF Enter, Attended, NextLayer, Leave, passVars, CallTypes
  <2>2. PICK p \in {"attention", "ffn", "sample"} : Goto(t, p)
    BY <1>5 DEF Enter, Attended, NextLayer, Leave
  <2>3. phase' \in [Threads -> Phases] /\ op' \in [Threads -> Nat] /\ turn' \in [Threads -> Nat]
    BY <2>2, GotoTypes DEF Phases
  <2>. QED
    BY <1>5, <2>1, <2>3 DEF Enter, Attended, NextLayer, Leave, sharedVars, passVars, CallTypes
<1>6. ASSUME NEW t \in Threads, Sampled(t)
      PROVE  CallTypes'
  <2>1. op[t] > 0
    BY <1>6, ProgramLengths DEF Sampled, Done
  <2>2. generated[t] + 1 \in 0..MaxTokens
    BY <1>6, ConstantNumbers, <2>1 DEF Sampled, Done, CallInv, CallTypes
  <2>3. phase' \in [Threads -> Phases] /\ op' \in [Threads -> Nat] /\ turn' \in [Threads -> Nat]
    BY <1>6, GotoTypes DEF Sampled, Phases
  <2>4. /\ row' \in [Threads -> Nat] /\ rows' \in [Threads -> Nat \ {0}]
        /\ generated' \in [Threads -> 0..MaxTokens]
        /\ UNCHANGED <<lastCall, call, layer, alone>>
    BY <1>6, <2>2 DEF Sampled, sharedVars, CallTypes
  <2>. QED
    BY <2>3, <2>4 DEF CallTypes
<1>7. ASSUME NEW t \in Threads, Return(t) \/ Abort(t)
      PROVE  CallTypes'
  <2>1. lastCall' = lastCall /\ Idle(t)
    BY <1>7 DEF Return, Abort, sharedVars
  <2>. QED
    BY ConstantNumbers, <2>1 DEF Idle, CallTypes, Phases
<1>8. CASE UNCHANGED vars
  BY <1>8 DEF vars, sharedVars, passVars, CallTypes
<1>. QED
  BY <1>1, <1>2, <1>3, <1>4, <1>5, <1>6, <1>7, <1>8 DEF Next

\* The steps that leave the arrays alone.
LEMMA KeepsArrays ==
  ASSUME ArrayTypes, UNCHANGED <<arrays, cached>>, NEW t \in Threads,
         monitor' \in {monitor, t, NoThread},
         home' = home \/ home' = [home EXCEPT ![t] = 1]
  PROVE  ArrayTypes'
<1>1. arrays \in Seq(ArraySet) /\ Len(arrays) \in Nat /\ Len(arrays') = Len(arrays)
  BY DEF ArrayTypes
<1>2. home[t] \in 1..Len(arrays)
  BY DEF ArrayTypes
<1>3. 1 \in 1..Len(arrays)
  BY <1>1, <1>2
<1>4. home' \in [Threads -> 1..Len(arrays)]
  BY <1>3 DEF ArrayTypes
<1>. QED
  BY <1>1, <1>4 DEF ArrayTypes

LEMMA NextArrayTypes == TypeOK /\ [Next]_vars => ArrayTypes'
<1>. SUFFICES ASSUME TypeOK, [Next]_vars
              PROVE  ArrayTypes'
  OBVIOUS
<1>types. ArrayTypes /\ CallTypes
  BY TypesInTwoParts
<1>1. ASSUME NEW t \in Threads, Operate(t)
      PROVE  ArrayTypes'
  BY <1>1, <1>types, OperateWrites DEF Operate, passVars, ArrayTypes
<1>2. ASSUME NEW t \in Threads, GetWorkspace(t)
      PROVE  ArrayTypes'
  <2>1. CASE TooSmall(rows[t])
    <3> DEFINE capacity == IF rows[t] < MinCapacity THEN MinCapacity ELSE rows[t]
               new == [capacity |-> capacity, stamp |-> Unwritten]
    <3>1. arrays' = Append(arrays, new) /\ cached' = Len(arrays) + 1 /\ monitor' = monitor
          /\ home' = [home EXCEPT ![t] = cached']
      BY <1>2, <2>1 DEF GetWorkspace
    <3>2. Unwritten \in [Arrays -> Stamps]
      BY DEF Unwritten, Stamps
    <3>3. capacity \in Nat
      BY <1>types, ConstantNumbers DEF CallTypes
    <3>4. new \in ArraySet
      BY <3>2, <3>3 DEF ArraySet
    <3>. HIDE DEF new
    <3>5. arrays' \in Seq(ArraySet) /\ Len(arrays') = Len(arrays) + 1 /\ Len(arrays) \in Nat
      BY <1>types, <3>1, <3>4 DEF ArrayTypes
    <3>6. cached' \in 1..Len(arrays')
      BY <3>1, <3>5
    <3>7. \A u \in Threads : home'[u] \in 1..Len(arrays')
      BY <1>types, <3>1, <3>5, <3>6 DEF ArrayTypes
    <3>8. home' \in [Threads -> 1..Len(arrays')]
      BY <1>types, <3>1, <3>7 DEF ArrayTypes
    <3>. QED
      BY <1>types, <3>1, <3>5, <3>6, <3>8 DEF ArrayTypes
  <2>2. CASE ~TooSmall(rows[t])
    BY <1>2, <1>types, <2>2 DEF GetWorkspace, TooSmall, ArrayTypes
  <2>. QED
    BY <2>1, <2>2
<1>3. ASSUME NEW t \in Threads,
             Begin(t) \/ Embedded(t) \/ Enter(t) \/ Attended(t) \/ NextLayer(t) \/ Leave(t)
               \/ Sampled(t) \/ Return(t) \/ Abort(t)
      PROVE  ArrayTypes'
  <2>1. /\ UNCHANGED <<arrays, cached>>
        /\ monitor' \in {monitor, t, NoThread}
        /\ home' = home \/ home' = [home EXCEPT ![t] = 1]
    BY <1>3 DEF Begin, Embedded, Enter, Attended, NextLayer, Leave, Sampled, Return, Abort, Idle,
            sharedVars, passVars
  <2>. QED
    BY <1>types, <2>1, KeepsArrays
<1>4. CASE UNCHANGED vars
  BY <1>4, <1>types DEF vars, sharedVars, passVars, ArrayTypes
<1>. QED
  BY <1>1, <1>2, <1>3, <1>4 DEF Next

LEMMA NextTypeOK == TypeOK /\ CallInv /\ [Next]_vars => TypeOK'
<1>1. TypeOK' <=> CallTypes' /\ ArrayTypes'
  BY TypesInTwoParts, PTL
<1>. QED
  BY <1>1, TypesInTwoParts, NextCallTypes, NextArrayTypes

Step(t) ==
  \/ Begin(t) \/ Operate(t) \/ Embedded(t) \/ GetWorkspace(t) \/ Enter(t)
  \/ Attended(t) \/ NextLayer(t) \/ Leave(t) \/ Sampled(t)
  \/ Return(t) \/ Abort(t)

\* A step of t leaves what the other threads do as it is.
LEMMA OthersStay ==
  ASSUME TypeOK, NEW t \in Threads, Step(t), NEW u \in Threads, u # t
  PROVE  /\ phase'[u] = phase[u] /\ op'[u] = op[u]
         /\ call'[u] = call[u] /\ turn'[u] = turn[u]
         /\ rows'[u] = rows[u] /\ home'[u] = home[u] /\ generated'[u] = generated[u]
         /\ alone'[u] => alone[u] /\ ~Begin(t)
<1>. CallTypes /\ ArrayTypes
  BY TypesInTwoParts
<1>1. CASE Begin(t)
  BY <1>1 DEF Begin, CallTypes
<1>2. CASE ~Begin(t)
  BY SMTT(30), <1>2 DEF Step, Operate, Embedded, GetWorkspace, Enter, Attended, NextLayer, Leave, Sampled,
          Return, Abort, Goto, Idle, sharedVars, passVars, CallTypes, ArrayTypes
<1>. QED
  BY <1>1, <1>2

LEMMA NextMonitorInv ==
  ASSUME TypeOK, MonitorInv, NEW t \in Threads, Step(t)
  PROVE  MonitorInv'
<1>. SUFFICES ASSUME NEW u \in Threads, InPass(u)'
              PROVE  monitor' = u
  BY DEF MonitorInv
<1>. CallTypes
  BY TypesInTwoParts
<1>1. CASE u # t
  <2>1. InPass(u) /\ monitor = u
    BY <1>1, OthersStay DEF InPass, MonitorInv
  <2>2. ~Enter(t)
    BY <2>1, ScratchAssumption DEF Enter
  <2>3. ~Leave(t)
    BY <1>1, <2>1 DEF Leave, Done, InPass, MonitorInv
  <2>. QED
    BY <1>1, <2>1, <2>2, <2>3 DEF Step, Begin, Operate, Embedded, GetWorkspace, Attended, NextLayer,
       Sampled, Return, Abort, sharedVars
<1>2. CASE u = t
  <2>1. CASE Enter(t)
    BY <1>2, <2>1 DEF Enter
  <2>2. CASE Operate(t) \/ Attended(t) \/ NextLayer(t)
    <3>1. InPass(t) /\ monitor' = monitor
      BY <1>2, <2>2 DEF Operate, Attended, NextLayer, Done, InPass, sharedVars
    <3>. QED
      BY <1>2, <3>1 DEF MonitorInv
  <2>3. CASE Begin(t) \/ Embedded(t) \/ GetWorkspace(t) \/ Leave(t) \/ Sampled(t) \/ Return(t) \/ Abort(t)
    <3>1. phase'[t] \notin {"attention", "ffn"}
      BY <2>3 DEF Begin, Embedded, GetWorkspace, Leave, Sampled, Return, Abort, Goto, Idle, CallTypes
    <3>. QED
      BY <1>2, <3>1 DEF InPass
  <2>. QED
    BY <2>1, <2>2, <2>3 DEF Step
<1>. QED
  BY <1>1, <1>2

LEMMA NextAloneInv ==
  ASSUME TypeOK, AloneInv, NEW t \in Threads, Step(t)
  PROVE  AloneInv'
<1>. SUFFICES ASSUME NEW v \in Threads, NEW u \in Threads, alone'[v], u # v
              PROVE  phase'[u] = "idle"
  BY DEF AloneInv
<1>. CallTypes
  BY TypesInTwoParts
<1>1. CASE Begin(t)
  BY <1>1 DEF Begin, CallTypes
<1>2. CASE ~Begin(t)
  <2>1. alone[v]
    BY <1>2, OthersStay DEF Step, Operate, Embedded, GetWorkspace, Enter, Attended, NextLayer, Leave,
       Sampled, Return, Abort, Idle, CallTypes
  <2>2. phase[u] = "idle"
    BY <2>1 DEF AloneInv
  <2>3. CASE u = t
    <3>1. ~Operate(t)
      BY SMTT(30), <2>2, <2>3, ProgramLengths DEF Operate, Running, CallTypes
    <3>. QED
      BY <1>2, <2>2, <2>3, <3>1 DEF Step, Embedded, GetWorkspace, Enter, Attended, NextLayer, Leave,
         Sampled, Return, Abort, Done
  <2>. QED
    BY <2>2, <2>3, OthersStay
<1>. QED
  BY <1>1, <1>2

LEMMA NextCallInv ==
  ASSUME TypeOK, CallInv, NEW t \in Threads, Step(t)
  PROVE  CallInv'
<1>. SUFFICES ASSUME NEW u \in Threads
              PROVE  /\ op'[u] =< Len(Program(phase'[u]))
                     /\ phase'[u] = "idle" => generated'[u] = 0
                     /\ phase'[u] = "sample" /\ op'[u] > 0 => generated'[u] < MaxTokens
                     /\ generated'[u] > 0 => rows'[u] = 1
  <2>1. \A u : Program(phase[u])' = Program(phase'[u])
    BY DEF Program, EmbedProgram, AttentionProgram, FfnProgram, SampleProgram
  <2>. QED
    BY <2>1 DEF CallInv
<1>. CallTypes
  BY TypesInTwoParts
<1>len. \A p \in Phases : Len(Program(p)) \in Nat
  BY ProgramLengths DEF Phases
<1>1. CASE u # t
  BY <1>1, OthersStay DEF CallInv
<1>2. CASE u = t
  <2>1. CASE Begin(t)
    BY <1>2, <1>len, <2>1 DEF Begin, CallInv, CallTypes, Phases
  <2>2. CASE Operate(t)
    <3>1. /\ op'[t] = op[t] + 1 /\ op[t] \in Nat /\ op[t] < Len(Program(phase[t]))
          /\ phase[t] \in Phases /\ phase' = phase /\ generated' = generated /\ rows' = rows
      BY <2>2 DEF Operate, Running, CallTypes, passVars
    <3>. QED
      BY <1>2, <1>len, <2>2, <3>1 DEF Operate, Running, CallInv
  <2>3. CASE Embedded(t) \/ GetWorkspace(t) \/ Enter(t) \/ Attended(t) \/ NextLayer(t) \/ Leave(t)
    <3>1. /\ phase'[t] # "idle" /\ phase'[t] \in Phases /\ op'[t] = 0
          /\ generated'[t] = generated[t] /\ rows'[t] = rows[t]
      BY <2>3 DEF Embedded, GetWorkspace, Enter, Attended, NextLayer, Leave, Goto, passVars, CallTypes,
         Phases
    <3>. QED
      BY <1>2, <1>len, <3>1 DEF CallInv
  <2>4. CASE Sampled(t)
    BY <1>2, <1>len, <2>4 DEF Sampled, Goto, CallTypes, Phases
  <2>5. CASE Return(t) \/ Abort(t)
    BY SMTT(30), <1>2, <1>len, <2>5 DEF Return, Abort, Idle, CallTypes, Phases
  <2>. QED
    BY <2>1, <2>2, <2>3, <2>4, <2>5 DEF Step
<1>. QED
  BY <1>1, <1>2

\* Arrays are never given up, keep their room, and are written by operations only.
LEMMA ArraysStay ==
  ASSUME TypeOK, NEW t \in Threads, Step(t), NEW h \in 1..Len(arrays)
  PROVE  /\ arrays'[h].capacity = arrays[h].capacity
         /\ ~Operate(t) => arrays'[h] = arrays[h]
<1>1. CASE Operate(t)
  BY <1>1, OperateWrites
<1>2. CASE GetWorkspace(t)
  <2>1. arrays \in Seq(ArraySet)
    BY TypesInTwoParts DEF ArrayTypes
  <2>2. arrays' = arrays \/ \E new : arrays' = Append(arrays, new)
    BY <1>2 DEF GetWorkspace
  <2>. QED
    BY <2>1, <2>2
<1>3. CASE ~Operate(t) /\ ~GetWorkspace(t)
  BY <1>3 DEF Step, Begin, Embedded, Enter, Attended, NextLayer, Leave, Sampled, Return, Abort,
     sharedVars
<1>. QED
  BY <1>1, <1>2, <1>3

LEMMA NextRoomInv ==
  ASSUME TypeOK, CallInv, RoomInv, NEW t \in Threads, Step(t)
  PROVE  RoomInv'
<1>types. CallTypes /\ ArrayTypes /\ TypeOK'
  <2>1. [Next]_vars
    BY DEF Next, Step
  <2>. QED
    BY <2>1, TypesInTwoParts, NextTypeOK
<1>len. Len(arrays) \in Nat /\ Len(arrays') \in Nat /\ 1 \in 1..Len(arrays)
  <2>1. arrays \in Seq(ArraySet) /\ arrays' \in Seq(ArraySet)
    BY <1>types, TypesInTwoParts DEF ArrayTypes, TypeOK, ArraySet
  <2>2. Len(arrays) \in Nat /\ Len(arrays') \in Nat
    BY <2>1
  <2>. QED
    BY <2>2 DEF RoomInv
<1>1. Len(arrays') > 0 /\ arrays'[1].capacity = 1
  <2>1. home'[t] \in 1..Len(arrays')
    BY <1>types DEF TypeOK
  <2>. QED
    BY <1>len, <2>1, ArraysStay DEF RoomInv
<1>2. ASSUME NEW u \in Threads, phase'[u] \in {"enter", "attention", "ffn"}
      PROVE  rows'[u] =< arrays'[home'[u]].capacity
  <2>home. home[u] \in 1..Len(arrays)
    BY <1>types DEF ArrayTypes
  <2>1. CASE u # t
    BY <1>2, <2>1, <2>home, OthersStay, ArraysStay DEF RoomInv
  <2>2. CASE u = t
    <3>1. CASE Operate(t) \/ Enter(t) \/ Attended(t) \/ NextLayer(t)
      <4>1. phase[t] \in {"enter", "attention", "ffn"} /\ rows'[t] = rows[t] /\ home'[t] = home[t]
        BY <1>2, <2>2, <3>1 DEF Operate, Enter, Attended, NextLayer, Done, passVars
      <4>. QED
        BY <2>2, <2>home, <4>1, ArraysStay DEF RoomInv
    <3>2. CASE Embedded(t)
      <4>1. generated[t] # 0 /\ rows'[t] = rows[t] /\ home'[t] = 1
        BY <1>2, <1>types, <2>2, <3>2 DEF Embedded, Goto, CallTypes, ArrayTypes
      <4>2. rows[t] = 1
        BY SMTT(30), <1>types, <4>1 DEF CallInv, CallTypes
      <4>. QED
        BY <1>1, <2>2, <4>1, <4>2
    <3>3. CASE GetWorkspace(t)
      <4>1. rows'[t] = rows[t] /\ home'[t] = cached' /\ rows[t] \in Nat /\ MinCapacity \in Nat
        BY <1>types, <3>3, ConstantNumbers DEF GetWorkspace, ArrayTypes, CallTypes
      <4>2. CASE TooSmall(rows[t])
        <5> DEFINE capacity == IF rows[t] < MinCapacity THEN MinCapacity ELSE rows[t]
                   new == [capacity |-> capacity, stamp |-> Unwritten]
        <5>1. arrays' = Append(arrays, new) /\ cached' = Len(arrays) + 1
          BY <3>3, <4>2 DEF GetWorkspace
        <5>2. new.capacity = capacity /\ rows[t] =< capacity
          BY <4>1
        <5>. HIDE DEF new, capacity
        <5>3. arrays'[Len(arrays) + 1] = new
          BY <1>types, <5>1 DEF ArrayTypes
        <5>. QED
          BY <2>2, <4>1, <5>1, <5>2, <5>3
      <4>3. CASE ~TooSmall(rows[t])
        <5>1. arrays' = arrays /\ cached' = cached /\ cached \in 1..Len(arrays)
          BY <1>len, <1>types, <3>3, <4>3 DEF GetWorkspace, TooSmall, ArrayTypes
        <5>2. arrays[cached].capacity \in Nat
          <6>1. arrays[cached] \in ArraySet
            BY <1>types, <5>1 DEF ArrayTypes
          <6>. QED
            BY <6>1 DEF ArraySet
        <5>. QED
          BY <2>2, <4>1, <4>3, <5>1, <5>2 DEF TooSmall
      <4>. QED
        BY <4>2, <4>3
    <3>4. CASE Begin(t) \/ Leave(t) \/ Sampled(t) \/ Return(t) \/ Abort(t)
      <4>1. phase'[t] \in {"embed", "sample", "idle"}
        BY <1>types, <3>4 DEF Begin, Leave, Sampled, Return, Abort, Goto, Idle, CallTypes
      <4>. QED
        BY <1>2, <2>2, <4>1
    <3>. QED
      BY <3>1, <3>2, <3>3, <3>4 DEF Step
  <2>. QED
    BY <2>1, <2>2
<1>. QED
  BY <1>1, <1>2 DEF RoomInv

LEMMA NextStampInv ==
  ASSUME TypeOK, MonitorInv, AloneInv, CallInv, StampInv, NEW t \in Threads, Step(t)
  PROVE  StampInv'
<1>types. CallTypes /\ ArrayTypes
  BY TypesInTwoParts
<1>. SUFFICES ASSUME NEW u \in Threads, NEW a \in Written(phase'[u], op'[u]), Guarded(u, a)'
              PROVE  arrays'[Home(u)'].stamp[a] = Stamp(u)'
  BY DEF StampInv, Written, Program
<1>1. CASE u # t
  <2>1. /\ a \in Written(phase[u], op[u]) /\ Home(u)' = Home(u) /\ Stamp(u)' = Stamp(u)
        /\ Guarded(u, a)
    BY <1>1, OthersStay DEF Home, InPass, Stamp, Guarded
  <2>2. arrays[Home(u)].stamp[a] = Stamp(u)
    BY <2>1 DEF StampInv
  <2>3. Home(u) \in 1..Len(arrays)
    <3>1. home[u] \in 1..Len(arrays) /\ Len(arrays) \in Nat
      BY <1>types DEF ArrayTypes
    <3>. QED
      BY <3>1 DEF Home
  <2>4. CASE ~Operate(t) \/ Home(u) # Home(t)
    BY <2>1, <2>2, <2>3, <2>4, ArraysStay, OperateWrites
  <2>5. CASE Operate(t) /\ Home(u) = Home(t)
    <3>1. /\ phase[t] \in Phases /\ phase[u] \in Phases /\ op[t] \in Nat
          /\ Running(t) /\ op[t] + 1 \in 1..Len(Program(phase[t]))
      <4>1. phase[t] \in Phases /\ phase[u] \in Phases /\ op[t] \in Nat /\ Running(t)
        BY <1>types, <2>5 DEF Operate, CallTypes
      <4>. QED
        BY <4>1, ProgramLengths DEF Running, Phases
    <3>2. ~alone[u]
      BY <1>1, <3>1, ProgramLengths DEF AloneInv
    <3>3. InPass(u) /\ ~InPass(t) /\ a # "normX"
      BY <1>1, <2>1, <2>5, <3>2 DEF Guarded, MonitorInv, Home
    <3>4. NextOp(t).writes \subseteq OtherArrays
      BY <3>1, <3>3, WritesOfPhases DEF NextOp, InPass
    <3>5. a \in PassArrays /\ a \in Arrays
      BY <1>types, <2>1, <3>1, <3>3, WrittenArrays DEF CallInv, CallTypes, InPass
    <3>. QED
      BY <2>1, <2>2, <2>5, <3>3, <3>4, <3>5, OnlyNormXIsShared, OperateWrites
  <2>. QED
    BY <2>4, <2>5
<1>2. CASE u = t
  <2>1. CASE Operate(t)
    <3>1. /\ phase' = phase /\ op'[t] = op[t] + 1 /\ op[t] \in Nat /\ phase[t] \in Phases
          /\ home' = home /\ call' = call /\ turn' = turn /\ alone' = alone
          /\ op[t] < Len(Program(phase[t])) /\ Len(Program(phase[t])) \in Nat
      <4>1. op[t] \in Nat /\ phase[t] \in Phases
        BY <1>types DEF CallTypes
      <4>2. Len(Program(phase[t])) \in Nat
        BY <4>1, ProgramLengths DEF Phases
      <4>. QED
        BY <1>types, <2>1, <4>1, <4>2 DEF Operate, Running, passVars, CallTypes
    <3>2. Home(t)' = Home(t) /\ Stamp(t)' = Stamp(t) /\ (Guarded(t, a)' <=> Guarded(t, a))
      BY <3>1 DEF Home, Stamp, Guarded, InPass
    <3>3. a \in Written(phase[t], op[t]) \/ a \in NextOp(t).writes
      BY <1>2, <3>1, WrittenStep DEF NextOp
    <3>4. a \in Arrays
      BY <1>2, <3>1, WrittenArrays
    <3>. QED
      BY <1>2, <2>1, <3>2, <3>3, <3>4, OperateWrites DEF StampInv
  <2>2. CASE ~Operate(t)
    <3>1. op'[t] = 0
      BY <1>types, <2>2 DEF Step, Begin, Embedded, GetWorkspace, Enter, Attended, NextLayer, Leave,
         Sampled, Return, Abort, Goto, Idle, CallTypes
    <3>. QED
      BY <1>2, <3>1, WrittenStep
  <2>. QED
    BY <2>1, <2>2
<1>. QED
  BY <1>1, <1>2

-----------------------------------------------------------------------------
(* What follows from the invariant. *)

LEMMA ScratchInvHolds == Spec => []ScratchInv
<1>1. ScratchInv /\ [Next]_vars => ScratchInv'
  <2>. SUFFICES ASSUME ScratchInv, [Next]_vars
                PROVE  ScratchInv'
    OBVIOUS
  <2>1. CASE \E t \in Threads : Step(t)
    BY <2>1, NextTypeOK, NextMonitorInv, NextAloneInv, NextCallInv, NextRoomInv, NextStampInv
       DEF ScratchInv
  <2>2. CASE UNCHANGED vars
    <3>1. UNCHANGED <<arrays, cached, monitor, lastCall, phase, op, call, turn, rows, row, home,
                      layer, generated, alone>>
      BY <2>2 DEF vars, sharedVars, passVars
    <3>2. TypeOK' /\ MonitorInv' /\ AloneInv'
      BY <3>1 DEF ScratchInv, TypeOK, MonitorInv, AloneInv, InPass
    <3>3. \A t : Program(phase[t])' = Program(phase[t])
      BY <3>1 DEF Program, EmbedProgram, AttentionProgram, FfnProgram, SampleProgram
    <3>4. \A t : Written(phase[t], op[t])' = Written(phase[t], op[t])
      BY <3>1 DEF Written, Program, EmbedProgram, AttentionProgram, FfnProgram, SampleProgram
    <3>5. CallInv' /\ RoomInv'
      BY <3>1, <3>3 DEF ScratchInv, CallInv, RoomInv
    <3>6. StampInv'
      BY <3>1, <3>4 DEF ScratchInv, StampInv, Guarded, Home, Stamp, InPass
    <3>. QED
      BY <3>2, <3>5, <3>6 DEF ScratchInv
  <2>. QED
    BY <2>1, <2>2 DEF Next, Step
<1>. QED
  BY <1>1, InitScratchInv, PTL DEF Spec

\* The program's types hold: no array index and no layer of a pass runs out of bounds.
THEOREM ScratchTypes == Spec => []TypeOK
<1>1. ScratchInv => TypeOK
  BY DEF ScratchInv
<1>. QED
  BY <1>1, ScratchInvHolds, PTL

\* What an operation reads was written in its turn and under its stamp, where no
\* other thread may write.
LEMMA GuardedReadsAreOwn ==
  ASSUME ScratchInv, NEW t \in Threads, Running(t), NEW a \in NextOp(t).reads, Guarded(t, a)
  PROVE  arrays[Home(t)].stamp[a] = Stamp(t)
<1>1. phase[t] \in Phases /\ op[t] \in Nat
  BY TypesInTwoParts DEF ScratchInv, CallTypes
<1>2. a \in Written(phase[t], op[t])
  BY <1>1, ReadsWereWritten DEF Running, NextOp
<1>. QED
  BY <1>2 DEF ScratchInv, StampInv

\* A call of stream() that no other call overlaps computes from what it wrote itself
\* in the same turn, although the engine's arrays and the workspace are never cleared.
THEOREM LoneCallIsClean == Spec => []LoneCallReadsOwn
<1>1. ScratchInv => LoneCallReadsOwn
  BY GuardedReadsAreOwn DEF LoneCallReadsOwn, ReadsOwn, Guarded
<1>. QED
  BY <1>1, ScratchInvHolds, PTL

\* Under the scheduler's monitor passes keep out of each other's arrays, whichever
\* workspace each of them got before it had the monitor; only normX of a token pass
\* is open to a sampling beside it.
THEOREM PassesAreClean == Spec => []PassReadsOwn
<1>1. ScratchInv => PassReadsOwn
  BY GuardedReadsAreOwn DEF PassReadsOwn, ReadsOwn, Guarded
<1>. QED
  BY <1>1, ScratchInvHolds, PTL

\* getOrCreateBatchWorkspace gives every prompt pass enough rows, for prompts of any
\* length and however often other calls replace the workspace meanwhile.
THEOREM WorkspaceHasRoom == Spec => []WorkspaceFits
<1>1. ScratchInv => WorkspaceFits
  BY DEF ScratchInv, RoomInv, WorkspaceFits, InPass
<1>. QED
  BY <1>1, ScratchInvHolds, PTL
===============================================================================
