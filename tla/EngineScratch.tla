---------------------------- MODULE EngineScratch ----------------------------
(***************************************************************************)
(* The arrays that StreamingTransformerEngine allocates once and all calls *)
(* of stream() share: those of a token pass, the batch workspace of the    *)
(* prompt pass, those of the sampler and the row of an embedding lookup.   *)
(* Passes run under the scheduler's monitor; sampling, lookups and the     *)
(* choice of a workspace do not.                                           *)
(*                                                                         *)
(* An array is modelled by a stamp: the turn (half a layer of a pass, one  *)
(* sampling, one lookup) that wrote it last.  The arithmetic of a turn is  *)
(* a program, a sequence of operations that read some arrays and write     *)
(* one; hidden states and prompt batches belong to the call and are no     *)
(* shared arrays.                                                          *)
(***************************************************************************)
EXTENDS Naturals, Sequences

CONSTANTS
  Threads,
  NoThread,
  NumLayers,
  MinCapacity,   \* rows of the smallest workspace, 64 in the code
  MaxPrompt,     \* bound: tokens of a prompt
  MaxTokens,     \* the maxTokens argument of stream()
  MaxCalls,      \* bound: calls
  Greedy         \* the configured temperature selects ArgMax

ASSUME ScratchAssumption ==
  /\ NoThread \notin Threads
  /\ {NumLayers, MaxPrompt} \subseteq Nat \ {0}
  /\ {MinCapacity, MaxTokens, MaxCalls} \subseteq Nat
  /\ Greedy \in BOOLEAN

VARIABLES
  arrays,     \* sets of arrays: the engine's own is first, then every workspace made
  cached,     \* cachedWorkspace: its place in arrays, 0 for null
  monitor,    \* owner of the scheduler's monitor
  lastCall,   \* calls made so far
  phase,      \* what a thread does: a key of Program, "workspace", "enter" or "idle"
  op,         \* operations of its turn that are done
  call,       \* its call
  turn,       \* turns of the call so far
  rows,       \* rows of the running or next pass: the prompt's, then one
  row,        \* rows embedded for it
  home,       \* the set of arrays the pass computes in
  layer,      \* of the pass
  generated,  \* generatedCount
  alone       \* history: no other call has overlapped the thread's call so far

sharedVars == <<arrays, cached, monitor, lastCall>>
passVars == <<rows, row, home, layer>>
vars == <<sharedVars, phase, op, call, turn, passVars, generated, alone>>

Arrays == {"normX", "residual", "q", "k", "v", "attnOut", "projAttn", "gate", "up",
           "ffnDown", "logitsBuf", "topScores", "probsBuf", "embdRowRaw"}

Operation(reads, writes) == [reads |-> reads, writes |-> writes]

\* getEmbedding
EmbedProgram == <<
  Operation({}, {"embdRowRaw"}),                      \* channel.read
  Operation({"embdRowRaw"}, {}) >>                    \* dequantize into the hidden state

\* computeLayer and, on the arrays of a workspace, computeLayerBatch: first half.
AttentionProgram == <<
  Operation({}, {"residual"}),
  Operation({}, {"normX"}),
  Operation({"normX"}, {"q"}),
  Operation({"normX"}, {"k"}),
  Operation({"normX"}, {"v"}),
  Operation({"q"}, {"q"}),                            \* applyRoPE
  Operation({"k"}, {"k"}),
  Operation({"k", "v"}, {}),                          \* storeKV
  Operation({"q"}, {"attnOut"}),
  Operation({"attnOut"}, {"projAttn"}),
  Operation({"residual", "projAttn"}, {}) >>          \* into the hidden state

\* The second half without a copy of the hidden state of its own.
FfnKeepsResidual == <<
  Operation({}, {"normX"}),
  Operation({"normX"}, {"gate"}),
  Operation({"normX"}, {"up"}),
  Operation({"gate", "up"}, {"gate"}),
  Operation({"gate"}, {"ffnDown"}),
  Operation({"residual", "ffnDown"}, {}) >>

FfnProgram == <<
  Operation({}, {"residual"}),
  Operation({}, {"normX"}),
  Operation({"normX"}, {"gate"}),
  Operation({"normX"}, {"up"}),
  Operation({"gate", "up"}, {"gate"}),
  Operation({"gate"}, {"ffnDown"}),
  Operation({"residual", "ffnDown"}, {}) >>

\* sampleNextToken; the repetition penalty works in place.
SampleProgram ==
  <<Operation({}, {"normX"}),
    Operation({"normX"}, {"logitsBuf"}),
    Operation({"logitsBuf"}, {"logitsBuf"})>>
  \o IF Greedy THEN <<Operation({"logitsBuf"}, {})>>
     ELSE <<Operation({}, {"topScores"}),
            Operation({"logitsBuf", "topScores"}, {"topScores"}),
            Operation({"topScores"}, {"probsBuf"}),
            Operation({"topScores", "probsBuf"}, {})>>

Program(p) ==
  CASE p = "embed" -> EmbedProgram
    [] p = "attention" -> AttentionProgram
    [] p = "ffn" -> FfnProgram
    [] p = "sample" -> SampleProgram
    [] OTHER -> <<>>

InPass(t) == phase[t] \in {"attention", "ffn"}

\* Where the running program computes: only passes use a workspace.
Home(t) == IF InPass(t) THEN home[t] ELSE 1

Stamp(t) == [call |-> call[t], turn |-> turn[t]]
Unwritten == [a \in Arrays |-> [call |-> 0, turn |-> 0]]

Init ==
  /\ arrays = <<[capacity |-> 1, stamp |-> Unwritten]>>
  /\ cached = 0
  /\ monitor = NoThread
  /\ lastCall = 0
  /\ phase = [t \in Threads |-> "idle"]
  /\ op = [t \in Threads |-> 0]
  /\ call = [t \in Threads |-> 0]
  /\ turn = [t \in Threads |-> 0]
  /\ rows = [t \in Threads |-> 1]
  /\ row = [t \in Threads |-> 0]
  /\ home = [t \in Threads |-> 1]
  /\ layer = [t \in Threads |-> 0]
  /\ generated = [t \in Threads |-> 0]
  /\ alone = [t \in Threads |-> FALSE]

\* The thread goes on to its next turn, or to a step between turns.
Goto(t, p) ==
  /\ phase' = [phase EXCEPT ![t] = p]
  /\ op' = [op EXCEPT ![t] = 0]
  /\ turn' = [turn EXCEPT ![t] = @ + 1]

\* The call is over, and its local variables with it.
Idle(t) ==
  /\ phase' = [phase EXCEPT ![t] = "idle"]
  /\ op' = [op EXCEPT ![t] = 0]
  /\ call' = [call EXCEPT ![t] = 0]
  /\ turn' = [turn EXCEPT ![t] = 0]
  /\ rows' = [rows EXCEPT ![t] = 1]
  /\ row' = [row EXCEPT ![t] = 0]
  /\ home' = [home EXCEPT ![t] = 1]
  /\ layer' = [layer EXCEPT ![t] = 0]
  /\ generated' = [generated EXCEPT ![t] = 0]
  /\ alone' = [alone EXCEPT ![t] = FALSE]

-----------------------------------------------------------------------------
\* stream() begins with the lookups of its prompt.
Begin(t) ==
  /\ phase[t] = "idle"
  /\ lastCall < MaxCalls
  /\ lastCall' = lastCall + 1
  /\ call' = [call EXCEPT ![t] = lastCall + 1]
  /\ phase' = [phase EXCEPT ![t] = "embed"]
  /\ op' = [op EXCEPT ![t] = 0]
  /\ turn' = [turn EXCEPT ![t] = 1]
  /\ \E n \in 1..MaxPrompt : rows' = [rows EXCEPT ![t] = n]
  /\ alone' = [u \in Threads |-> u = t /\ \A v \in Threads : phase[v] = "idle"]
  /\ UNCHANGED <<arrays, cached, monitor, row, home, layer, generated>>

\* The generation loop without its limit.
RunningUnlimited(t) == op[t] < Len(Program(phase[t]))

\* The turn has operations left; sampling is the body of the generation loop.
Running(t) ==
  /\ op[t] < Len(Program(phase[t]))
  /\ phase[t] = "sample" => generated[t] < MaxTokens
NextOp(t) == Program(phase[t])[op[t] + 1]

\* The next operation of a turn.
Operate(t) ==
  /\ Running(t)
  /\ arrays' = [arrays EXCEPT ![Home(t)].stamp =
                  [a \in Arrays |-> IF a \in NextOp(t).writes THEN Stamp(t) ELSE @[a]]]
  /\ op' = [op EXCEPT ![t] = @ + 1]
  /\ UNCHANGED <<cached, monitor, lastCall, phase, call, turn, passVars, generated, alone>>

\* The turn is over.
Done(t, p) == phase[t] = p /\ op[t] = Len(Program(p))

\* A row is embedded: the next one of the prompt, a workspace for all of them, or,
\* for a single token, its pass on the engine's own arrays.
Embedded(t) ==
  /\ Done(t, "embed")
  /\ row' = [row EXCEPT ![t] = @ + 1]
  /\ Goto(t, IF row[t] + 1 < rows[t] THEN "embed"
             ELSE IF generated[t] = 0 THEN "workspace" ELSE "enter")
  /\ home' = [home EXCEPT ![t] = 1]
  /\ UNCHANGED <<sharedVars, call, rows, layer, generated, alone>>

\* A workspace is replaced only when there is none.
TooSmallNever(n) == cached = 0

TooSmall(n) == cached = 0 \/ arrays[cached].capacity < n

\* getOrCreateBatchWorkspace, synchronized on the engine.
GetWorkspace(t) ==
  /\ phase[t] = "workspace"
  /\ IF TooSmall(rows[t])
     THEN /\ arrays' = Append(arrays,
                 [capacity |-> IF rows[t] < MinCapacity THEN MinCapacity ELSE rows[t],
                  stamp |-> Unwritten])
          /\ cached' = Len(arrays) + 1
     ELSE UNCHANGED <<arrays, cached>>
  /\ home' = [home EXCEPT ![t] = cached']
  /\ Goto(t, "enter")
  /\ UNCHANGED <<monitor, lastCall, call, rows, row, layer, generated, alone>>

\* executeTokenStep without "synchronized".
EnterUnsynchronized(t) ==
  /\ phase[t] = "enter"
  /\ monitor' = t
  /\ layer' = [layer EXCEPT ![t] = 0]
  /\ Goto(t, "attention")
  /\ UNCHANGED <<arrays, cached, lastCall, call, rows, row, home, generated, alone>>

Enter(t) ==
  /\ phase[t] = "enter"
  /\ monitor = NoThread
  /\ monitor' = t
  /\ layer' = [layer EXCEPT ![t] = 0]
  /\ Goto(t, "attention")
  /\ UNCHANGED <<arrays, cached, lastCall, call, rows, row, home, generated, alone>>

Attended(t) ==
  /\ Done(t, "attention")
  /\ Goto(t, "ffn")
  /\ UNCHANGED <<sharedVars, call, passVars, generated, alone>>

NextLayer(t) ==
  /\ Done(t, "ffn")
  /\ layer[t] + 1 < NumLayers
  /\ layer' = [layer EXCEPT ![t] = @ + 1]
  /\ Goto(t, "attention")
  /\ UNCHANGED <<sharedVars, call, rows, row, home, generated, alone>>

\* The pass is over, and the generation loop comes next.
Leave(t) ==
  /\ Done(t, "ffn")
  /\ layer[t] + 1 = NumLayers
  /\ monitor' = NoThread
  /\ Goto(t, "sample")
  /\ UNCHANGED <<arrays, cached, lastCall, call, passVars, generated, alone>>

\* A token is sampled and embedded for the next pass.
Sampled(t) ==
  /\ Done(t, "sample")
  /\ Goto(t, "embed")
  /\ generated' = [generated EXCEPT ![t] = @ + 1]
  /\ rows' = [rows EXCEPT ![t] = 1]
  /\ row' = [row EXCEPT ![t] = 0]
  /\ UNCHANGED <<sharedVars, call, home, layer, alone>>

\* All tokens are generated, or the sampled one stops the call.
Return(t) ==
  /\ phase[t] = "sample"
  /\ generated[t] = MaxTokens \/ Done(t, "sample")
  /\ Idle(t)
  /\ UNCHANGED sharedVars

\* An exception, of a lookup, of a pass, of sampling or of the callback, ends the
\* call where it is; a monitor it holds is given up.
Abort(t) ==
  /\ phase[t] # "idle"
  /\ Idle(t)
  /\ monitor' = IF monitor = t THEN NoThread ELSE monitor
  /\ UNCHANGED <<arrays, cached, lastCall>>

Next ==
  \E t \in Threads :
    \/ Begin(t) \/ Operate(t) \/ Embedded(t) \/ GetWorkspace(t) \/ Enter(t)
    \/ Attended(t) \/ NextLayer(t) \/ Leave(t) \/ Sampled(t)
    \/ Return(t) \/ Abort(t)

Spec == Init /\ [][Next]_vars

-----------------------------------------------------------------------------
Stamps == [call : Nat, turn : Nat]
Phases == {"idle", "embed", "workspace", "enter", "attention", "ffn", "sample"}

\* The program's types; a pass stays within the layers of the model.
TypeOK ==
  /\ arrays \in Seq([capacity : Nat, stamp : [Arrays -> Stamps]])
  /\ cached \in 0..Len(arrays)
  /\ monitor \in Threads \cup {NoThread}
  /\ lastCall \in 0..MaxCalls
  /\ phase \in [Threads -> Phases]
  /\ op \in [Threads -> Nat]
  /\ call \in [Threads -> 0..MaxCalls]
  /\ turn \in [Threads -> Nat]
  /\ rows \in [Threads -> Nat \ {0}]
  /\ row \in [Threads -> Nat]
  /\ home \in [Threads -> 1..Len(arrays)]
  /\ layer \in [Threads -> 0..NumLayers - 1]
  /\ generated \in [Threads -> 0..MaxTokens]
  /\ alone \in [Threads -> BOOLEAN]

\* The thread wrote what its next operation reads, and wrote it in this turn.
ReadsOwn(t, S) ==
  \A a \in NextOp(t).reads \cap S : arrays[Home(t)].stamp[a] = Stamp(t)

\* A call that no other call overlaps computes every turn from what the turn
\* itself wrote: nothing of an earlier layer, pass, sampling or aborted call in
\* the arrays, which are never cleared, reaches its result.
LoneCallReadsOwn ==
  \A t \in Threads : alone[t] /\ Running(t) => ReadsOwn(t, Arrays)

\* However calls overlap, a prompt pass never reads what another call wrote, though
\* calls share one workspace and choose it before they hold the monitor.  A token
\* pass has the same guarantee for all arrays but normX, which sampling overwrites
\* without the monitor.
PassReadsOwn ==
  \A t \in Threads :
    InPass(t) /\ Running(t) =>
      ReadsOwn(t, IF home[t] = 1 THEN Arrays \ {"normX"} ELSE Arrays)

\* The workspace a thread holds has a row for every token of its prompt, also when
\* other calls replaced the cached one since it was chosen.
WorkspaceFits ==
  \A t \in Threads : InPass(t) => rows[t] =< arrays[home[t]].capacity
=============================================================================
