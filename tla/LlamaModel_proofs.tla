--------------------------- MODULE LlamaModel_proofs ---------------------------
(***************************************************************************)
(* Proofs about LlamaModel for every number of threads, nested calls and   *)
(* tokens, every vocabulary, context and chunk size.                       *)
(***************************************************************************)
EXTENDS LlamaModel, Integers, FiniteSets, FiniteSetTheorems, SequenceTheorems, TLAPS

-----------------------------------------------------------------------------
(* The inductive invariant. *)

\* A call below another is in its callback, and knows that it is not alone.
NestInv ==
  \A t \in Threads : \A i \in 1..Len(stack[t]) - 1 :
    stack[t][i].at = "callback" /\ ~stack[t][i].lone

\* How far a call is.
CallOK(c) ==
  /\ c.fed =< Len(c.prompt)
  /\ c.at \in {"text", "address"} => c.fed = 0
  /\ c.at \in {"text", "address", "prompt"} => c.said = <<>>
  /\ c.at \in {"callback", "feed"} => c.said # <<>>

CallInv == \A t \in Threads : \A i \in 1..Len(stack[t]) : CallOK(stack[t][i])

\* The slots of the stacks whose calls are at some place.
Slots(places) ==
  {s \in Threads \X (1..MaxDepth) :
     s[2] =< Len(stack[s[1]]) /\ stack[s[1]][s[2]].at \in places}

PredictPlaces == {"text", "address", "prompt", "sample", "callback", "feed"}
SamplerPlaces == {"sample", "callback", "feed"}

\* One sampler for each prediction that has begun to sample.
SamplerInv ==
  /\ IsFiniteSet(Slots(PredictPlaces))
  /\ Cardinality(Slots(PredictPlaces)) =< calls
  /\ samplers = Cardinality(Slots(SamplerPlaces))

\* The objects are there from the constructor to the first nativeFree, behind which
\* the close() that made it is still to write the handle, or has.
LiveInv ==
  /\ handle = "none" => live = {} /\ backend = opens /\ \A t \in Threads : stack[t] = <<>>
  /\ handle # "none" =>
       /\ opens > 0
       /\ \/ /\ handle = "set" /\ live = Objects /\ backend = opens
             /\ \A t \in Threads : ~At(t, "zero")
          \/ /\ live = {} /\ backend = opens - 1
             /\ handle = "set" => \E t \in Threads : At(t, "zero")

\* Without misuse one thread at a time is in a call, close() is no nested call, and
\* whoever is in a call finds the handle set.
UseInv ==
  ~misused =>
    /\ \A t, u \in Threads : t # u => stack[t] = <<>> \/ stack[u] = <<>>
    /\ \A t \in Threads : At(t, "free") \/ At(t, "zero") => Len(stack[t]) = 1
    /\ \A t \in Threads : stack[t] # <<>> => handle = "set"

\* The sequence m ends with the text T, which begins behind position start.
EndsWith(m, start, T) ==
  /\ Len(m) = start + Len(T)
  /\ \A i \in 1..Len(T) : m[start + i] = T[i]

Follows(start, T) == EndsWith(memory, start, T)

\* The last token evaluated was this one, and the context holds its logits.
Evaluated(token) == logits > 0 /\ logits = Len(memory) /\ memory[logits] = token

\* What a call has put into the memory.
Told(c) ==
  IF c.at = "prompt" THEN SubSeq(c.prompt, 1, c.fed)
  ELSE IF c.at = "sample" THEN c.prompt \o c.said
  ELSE c.prompt \o SubSeq(c.said, 1, Len(c.said) - 1)

TextOK(c) ==
  /\ c.at = "prompt" /\ c.fed > 0 => Evaluated(c.prompt[c.fed])
  /\ c.at = "sample" /\ c.prompt \o c.said # <<>> =>
       Evaluated((c.prompt \o c.said)[Len(c.prompt \o c.said)])
  /\ c.lone /\ c.at \in {"prompt", "sample", "callback", "feed"} => Follows(c.start, Told(c))

\* Without misuse the memory is that of the innermost call.
TextInv == ~misused => \A t \in Threads : stack[t] # <<>> => TextOK(Top(t))

LlamaInv ==
  /\ TypeOK /\ NestInv /\ CallInv /\ SamplerInv /\ LiveInv /\ UseInv /\ TextInv
  /\ FaultsNeedMisuse

-----------------------------------------------------------------------------
(* What happens to a stack. *)

LEMMA ConstantNumbers ==
  /\ ContextSize \in Nat \ {0} /\ ChunkSize \in Nat \ {0}
  /\ MaxTokens \in Nat /\ MaxCalls \in Nat /\ MaxDepth \in Nat /\ MaxOpens \in Nat
BY LlamaAssumption

LEMMA StateNumbers ==
  ASSUME TypeOK
  PROVE  /\ calls \in Nat /\ calls =< MaxCalls
         /\ opens \in Nat /\ opens =< MaxOpens /\ backend \in Nat
         /\ Len(memory) \in Nat /\ Len(memory) =< ContextSize
         /\ logits \in Nat /\ logits =< Len(memory)
<1>1. calls \in 0..MaxCalls /\ opens \in 0..MaxOpens /\ backend \in 0..MaxOpens
      /\ memory \in Seq(Vocabulary) /\ Len(memory) =< ContextSize /\ logits \in 0..Len(memory)
  BY DEF TypeOK
<1>2. Len(memory) \in Nat
  BY <1>1
<1>. QED
  BY <1>1, <1>2, ConstantNumbers

LEMMA TopIsCall ==
  ASSUME TypeOK, NEW t \in Threads, stack[t] # <<>>
  PROVE  /\ Len(stack[t]) \in Nat \ {0} /\ Len(stack[t]) =< MaxDepth
         /\ Top(t) \in Calls
<1>1. stack[t] \in Seq(Calls) /\ Len(stack[t]) =< MaxDepth
  BY DEF TypeOK
<1>2. Len(stack[t]) \in Nat \ {0}
  BY <1>1
<1>. QED
  BY <1>1, <1>2 DEF Top

\* The innermost call of t becomes c.
LEMMA MoveTop ==
  ASSUME TypeOK, NEW t \in Threads, stack[t] # <<>>, NEW c \in Calls, SetTop(t, c)
  PROVE  /\ stack' \in [Threads -> Seq(Calls)]
         /\ \A u \in Threads : u # t => stack'[u] = stack[u]
         /\ Len(stack'[t]) = Len(stack[t]) /\ stack'[t] # <<>>
         /\ Top(t)' = c /\ stack'[t][Len(stack[t])] = c
         /\ \A i \in 1..Len(stack[t]) - 1 : stack'[t][i] = stack[t][i]
<1>1. stack \in [Threads -> Seq(Calls)] /\ stack[t] \in Seq(Calls)
  BY DEF TypeOK
<1>2. Len(stack[t]) \in 1..Len(stack[t]) /\ Len(stack[t]) \in Nat
  BY TopIsCall
<1>3. stack' = [stack EXCEPT ![t] = [stack[t] EXCEPT ![Len(stack[t])] = c]]
  BY DEF SetTop
<1>4. stack'[t] = [stack[t] EXCEPT ![Len(stack[t])] = c]
  BY <1>1, <1>3
<1>5. /\ stack'[t] \in Seq(Calls) /\ Len(stack'[t]) = Len(stack[t])
      /\ stack'[t][Len(stack[t])] = c
      /\ \A i \in 1..Len(stack[t]) - 1 : stack'[t][i] = stack[t][i]
  BY <1>1, <1>2, <1>4
<1>6. stack'[t] # <<>>
  BY <1>2, <1>5
<1>. QED
  BY <1>1, <1>3, <1>5, <1>6 DEF Top

\* The innermost call of t is over.
LEMMA PopTop ==
  ASSUME TypeOK, NEW t \in Threads, stack[t] # <<>>, Return(t)
  PROVE  /\ stack' \in [Threads -> Seq(Calls)]
         /\ \A u \in Threads : u # t => stack'[u] = stack[u]
         /\ Len(stack'[t]) = Len(stack[t]) - 1
         /\ \A i \in 1..Len(stack[t]) - 1 : stack'[t][i] = stack[t][i]
<1>1. stack \in [Threads -> Seq(Calls)] /\ stack[t] \in Seq(Calls)
  BY DEF TypeOK
<1>2. Len(stack[t]) \in Nat \ {0}
  BY TopIsCall
<1>3. stack' = [stack EXCEPT ![t] = SubSeq(stack[t], 1, Len(stack[t]) - 1)]
  BY DEF Return
<1>4. stack'[t] = SubSeq(stack[t], 1, Len(stack[t]) - 1)
  BY <1>1, <1>3
<1>5. \A i \in 1..Len(stack[t]) - 1 : stack[t][i] \in Calls
  BY <1>1, <1>2
<1>6. /\ stack'[t] \in Seq(Calls) /\ Len(stack'[t]) = Len(stack[t]) - 1
      /\ \A i \in 1..Len(stack[t]) - 1 : stack'[t][i] = stack[t][i]
  BY <1>2, <1>4, <1>5, SubSeqProperties
<1>. QED
  BY <1>1, <1>3, <1>6

\* A call of t begins; those below it are no longer alone.
LEMMA PushTop ==
  ASSUME TypeOK, NEW t \in Threads, NEW c \in Calls, Enter(t, c)
  PROVE  /\ stack' \in [Threads -> Seq(Calls)]
         /\ \A u \in Threads : u # t => stack'[u] = stack[u]
         /\ Len(stack[t]) \in Nat /\ Len(stack[t]) < MaxDepth
         /\ Len(stack'[t]) = Len(stack[t]) + 1 /\ stack'[t] # <<>>
         /\ Top(t)' = c /\ stack'[t][Len(stack[t]) + 1] = c
         /\ \A i \in 1..Len(stack[t]) :
              stack'[t][i] \in Calls /\ stack'[t][i] = [stack[t][i] EXCEPT !.lone = FALSE]
<1> DEFINE below == [i \in 1..Len(stack[t]) |-> [stack[t][i] EXCEPT !.lone = FALSE]]
<1>1. /\ stack \in [Threads -> Seq(Calls)] /\ stack[t] \in Seq(Calls)
      /\ Len(stack[t]) \in Nat /\ DOMAIN stack[t] = 1..Len(stack[t])
  <2>1. stack \in [Threads -> Seq(Calls)]
    BY DEF TypeOK
  <2>2. stack[t] \in Seq(Calls)
    BY <2>1
  <2>. QED
    BY <2>1, <2>2
<1>2. \A i \in 1..Len(stack[t]) : [stack[t][i] EXCEPT !.lone = FALSE] \in Calls
  <2>. SUFFICES ASSUME NEW d \in Calls
                PROVE  [d EXCEPT !.lone = FALSE] \in Calls
    BY <1>1
  <2>. QED
    BY DEF Calls
<1>3. below \in Seq(Calls) /\ Len(below) = Len(stack[t])
  BY <1>1, <1>2
<1>4. /\ \A u \in Threads : u # t => stack'[u] = stack[u]
      /\ DOMAIN stack' = Threads
      /\ stack'[t] = Append(below, c)
      /\ Len(stack[t]) < MaxDepth
  BY <1>1 DEF Enter
<1>6. \A i \in 1..Len(stack[t]) : below[i] = [stack[t][i] EXCEPT !.lone = FALSE]
  OBVIOUS
<1>. HIDE DEF below
<1>7. /\ stack'[t] \in Seq(Calls) /\ Len(stack'[t]) = Len(stack[t]) + 1
      /\ stack'[t][Len(stack[t]) + 1] = c
      /\ \A i \in 1..Len(stack[t]) : stack'[t][i] = below[i]
  BY <1>1, <1>3, <1>4
<1>8. stack'[t] # <<>>
  BY <1>1, <1>7
<1>9. stack' \in [Threads -> Seq(Calls)]
  <2>1. stack' = [u \in Threads |-> stack'[u]]
    BY <1>1 DEF Enter
  <2>. QED
    BY <1>1, <1>4, <1>7, <2>1
<1>. QED
  BY <1>1, <1>2, <1>4, <1>6, <1>7, <1>8, <1>9 DEF Top

-----------------------------------------------------------------------------
(* The outcomes of a step: a fault, or what happens to one call of one thread. *)

Fails(t, kind) ==
  /\ kind # "none" /\ Faults(t, kind)
  /\ stack[t] # <<>> /\ Top(t).at \notin {"callback", "zero"}
  /\ \/ kind = "freed" /\ live # Objects
     \/ kind = "race" /\ \E u \in Threads \ {t} : stack[u] # <<>>
     \/ kind = "no logits" /\ At(t, "sample") /\ logits = 0

Begins(t, at) ==
  /\ Enter(t, NewCall(at))
  /\ handle = "set"
  /\ calls' = (IF at = "free" THEN calls ELSE calls + 1) /\ calls' =< MaxCalls
  /\ misused' = (misused \/ Overlaps(t) \/ (at = "free" /\ stack[t] # <<>>))
  /\ UNCHANGED <<handle, opens, nativeVars, fault>>

Ends(t) ==
  /\ stack[t] # <<>> /\ Top(t).at \in {"address", "prompt", "sample", "feed", "zero"}
  /\ Return(t)
  /\ samplers' = (IF Top(t).at \in SamplerPlaces THEN samplers - 1 ELSE samplers)
  /\ logits' \in {logits, 0}
  /\ handle' = (IF Top(t).at = "zero" THEN "zero" ELSE handle)
  /\ UNCHANGED <<opens, live, backend, memory, calls, fault, misused>>

Goes(t, c) == stack[t] # <<>> /\ SetTop(t, c) /\ UNCHANGED <<handle, opens, calls, fault, misused>>

Starts(t, c) ==
  /\ Goes(t, c) /\ Top(t).at \in {"text", "address"}
  /\ \E prompt \in Prompts :
       c = [Top(t) EXCEPT !.at = "prompt", !.prompt = prompt, !.start = Len(memory)]
  /\ UNCHANGED nativeVars

DecodesChunk(t, c) ==
  /\ Goes(t, c) /\ Top(t).at = "prompt" /\ Top(t).fed < Len(Top(t).prompt)
  /\ Decodes(Chunk(Top(t)))
  /\ c = [Top(t) EXCEPT !.fed = Top(t).fed + Len(Chunk(Top(t)))]
  /\ UNCHANGED <<live, backend, samplers>>

BeginsToSample(t, c) ==
  /\ Goes(t, c) /\ Top(t).at = "prompt" /\ Top(t).fed = Len(Top(t).prompt)
  /\ c = [Top(t) EXCEPT !.at = "sample"]
  /\ samplers' = samplers + 1
  /\ UNCHANGED <<live, backend, memory, logits>>

Says(t, c) ==
  /\ Goes(t, c) /\ Top(t).at = "sample"
  /\ \E token \in Vocabulary, at \in {"callback", "feed"} :
       c = [Top(t) EXCEPT !.said = Append(Top(t).said, token), !.at = at]
  /\ UNCHANGED nativeVars

ComesBack(t, c) ==
  /\ Goes(t, c) /\ Top(t).at = "callback"
  /\ c = [Top(t) EXCEPT !.at = "feed"]
  /\ UNCHANGED nativeVars

DecodesToken(t, c) ==
  /\ Goes(t, c) /\ Top(t).at = "feed"
  /\ Decodes(<<Top(t).said[Len(Top(t).said)]>>)
  /\ c = [Top(t) EXCEPT !.at = "sample"]
  /\ UNCHANGED <<live, backend, samplers>>

Frees(t, c) ==
  /\ Goes(t, c) /\ Top(t).at = "free" /\ live = Objects
  /\ c = [Top(t) EXCEPT !.at = "zero"]
  /\ live' = {} /\ memory' = <<>> /\ logits' = 0 /\ backend' = backend - 1
  /\ UNCHANGED samplers

Moves(t, c) ==
  \/ Starts(t, c) \/ DecodesChunk(t, c) \/ BeginsToSample(t, c) \/ Says(t, c)
  \/ ComesBack(t, c) \/ DecodesToken(t, c) \/ Frees(t, c)

Outcome(t) ==
  \/ \E at \in {"text", "address", "free"} : Begins(t, at)
  \/ Ends(t)
  \/ \E kind \in {"freed", "race", "no logits"} : Fails(t, kind)
  \/ \E c : Moves(t, c)

LEMMA NextOutcomes ==
  ASSUME TypeOK, Next
  PROVE  Open \/ \E t \in Threads : Outcome(t)
<1>. SUFFICES ASSUME NEW t \in Threads, JavaStep(t) \/ NativeStep(t)
              PROVE  Outcome(t)
  BY DEF Next
<1>numbers. calls \in Nat /\ MaxCalls \in Nat
  BY ConstantNumbers, StateNumbers
<1>freed. FreedFault \in {"freed", "none"} /\ (FreedFault = "freed" => live # Objects)
  BY DEF FreedFault
<1>context. /\ ContextFault(t) \in {"freed", "race", "none"}
            /\ ContextFault(t) = "freed" => live # Objects
            /\ ContextFault(t) = "race" => \E u \in Threads \ {t} : stack[u] # <<>>
            /\ ContextFault(t) = "none" => live = Objects
  BY DEF ContextFault, FreedFault, InNative
<1>1. CASE Predict(t) \/ PredictFromMemoryAddress(t)
  <2>1. PICK at \in {"text", "address"} : PredictBegins(t, at)
    BY <1>1 DEF Predict, PredictFromMemoryAddress
  <2>2. Begins(t, at)
    BY <1>numbers, <2>1 DEF PredictBegins, HandleIsSet, Begins
  <2>. QED
    BY <2>2 DEF Outcome
<1>2. CASE CloseBegins(t)
  <2>1. calls =< MaxCalls
    BY StateNumbers
  <2>2. Begins(t, "free")
    BY <1>2, <2>1 DEF CloseBegins, Begins
  <2>. QED
    BY <2>2 DEF Outcome
<1>3. CASE CallbackReturns(t)
  <2>1. ComesBack(t, [Top(t) EXCEPT !.at = "feed"])
    BY <1>3 DEF CallbackReturns, At, ComesBack, Goes
  <2>. QED
    BY <2>1 DEF Outcome, Moves
<1>4. CASE ZeroHandle(t)
  <2>1. Ends(t)
    BY <1>4 DEF ZeroHandle, At, Ends, SamplerPlaces, nativeVars
  <2>. QED
    BY <2>1 DEF Outcome
<1>5. CASE Tokenize(t) \/ TokenizeShared(t)
  <2>1. stack[t] # <<>> /\ Top(t).at \in {"text", "address"}
    BY <1>5 DEF Tokenize, TokenizeShared, At
  <2>2. CASE FreedFault # "none" /\ Faults(t, FreedFault)
    <3>1. Fails(t, "freed")
      BY <1>freed, <2>1, <2>2 DEF Fails
    <3>. QED
      BY <3>1 DEF Outcome
  <2>3. CASE \E prompt \in Prompts : StartsWith(t, prompt) /\ UNCHANGED <<handle, opens, nativeVars, calls, fault, misused>>
    <3>1. PICK prompt \in Prompts :
            StartsWith(t, prompt) /\ UNCHANGED <<handle, opens, nativeVars, calls, fault, misused>>
      BY <2>3
    <3>2. Starts(t, [Top(t) EXCEPT !.at = "prompt", !.prompt = prompt, !.start = Len(memory)])
      BY <2>1, <3>1 DEF StartsWith, Starts, Goes
    <3>. QED
      BY <3>2 DEF Outcome, Moves
  <2>4. CASE Top(t).at = "address" /\ Return(t) /\ UNCHANGED <<handle, opens, nativeVars, calls, fault, misused>>
    <3>1. Ends(t)
      BY <2>1, <2>4 DEF Ends, SamplerPlaces, nativeVars
    <3>. QED
      BY <3>1 DEF Outcome
  <2>. QED
    BY <1>5, <2>2, <2>3, <2>4 DEF Tokenize, TokenizeShared, UsesVocabulary, Accesses, At, nativeVars
<1>6. CASE DecodePrompt(t)
  <2>1. stack[t] # <<>> /\ Top(t).at = "prompt" /\ Top(t).fed < Len(Top(t).prompt)
    BY <1>6 DEF DecodePrompt, At
  <2>2. CASE ContextFault(t) # "none" /\ Faults(t, ContextFault(t))
    <3>1. Fails(t, ContextFault(t))
      BY <1>context, <2>1, <2>2 DEF Fails
    <3>. QED
      BY <1>context, <2>2, <3>1 DEF Outcome
  <2>3. CASE /\ Decodes(Chunk(Top(t)))
             /\ SetTop(t, [Top(t) EXCEPT !.fed = @ + Len(Chunk(Top(t)))])
             /\ UNCHANGED <<samplers, handle, opens, live, backend, calls, fault, misused>>
    <3>1. DecodesChunk(t, [Top(t) EXCEPT !.fed = Top(t).fed + Len(Chunk(Top(t)))])
      BY <2>1, <2>3 DEF DecodesChunk, Goes
    <3>. QED
      BY <3>1 DEF Outcome, Moves
  <2>4. CASE DecodeFails /\ Return(t)
             /\ UNCHANGED <<samplers, handle, opens, live, backend, calls, fault, misused>>
    <3>1. Ends(t)
      BY <2>1, <2>4 DEF Ends, SamplerPlaces, DecodeFails
    <3>. QED
      BY <3>1 DEF Outcome
  <2>. QED
    BY <1>6, <2>2, <2>3, <2>4 DEF DecodePrompt, UsesContext, Accesses
<1>7. CASE CreateSampler(t)
  <2>1. BeginsToSample(t, [Top(t) EXCEPT !.at = "sample"])
    BY <1>7 DEF CreateSampler, At, BeginsToSample, Goes
  <2>. QED
    BY <2>1 DEF Outcome, Moves
<1>8. CASE Sample(t)
  <2>1. stack[t] # <<>> /\ Top(t).at = "sample"
    BY <1>8 DEF Sample, At
  <2>2. CASE logits = 0 /\ Faults(t, "no logits")
    <3>1. Fails(t, "no logits")
      BY <2>1, <2>2 DEF Fails, At
    <3>. QED
      BY <3>1 DEF Outcome
  <2>3. CASE ContextFault(t) # "none" /\ Faults(t, ContextFault(t))
    <3>1. Fails(t, ContextFault(t))
      BY <1>context, <2>1, <2>3 DEF Fails
    <3>. QED
      BY <1>context, <2>3, <3>1 DEF Outcome
  <2>4. CASE FreeSampler(t)
             /\ UNCHANGED <<memory, logits, handle, opens, live, backend, calls, fault, misused>>
    <3>1. Ends(t)
      BY <2>1, <2>4 DEF Ends, SamplerPlaces, FreeSampler
    <3>. QED
      BY <3>1 DEF Outcome
  <2>5. CASE (\E token \in Vocabulary :
                /\ SetTop(t, [Top(t) EXCEPT
                                !.said = Append(@, token),
                                !.at = IF token \in Words THEN "callback" ELSE "feed"])
                /\ UNCHANGED samplers)
             /\ UNCHANGED <<memory, logits, handle, opens, live, backend, calls, fault, misused>>
    <3>1. PICK token \in Vocabulary :
            SetTop(t, [Top(t) EXCEPT !.said = Append(@, token),
                                     !.at = IF token \in Words THEN "callback" ELSE "feed"])
      BY <2>5
    <3> DEFINE at == IF token \in Words THEN "callback" ELSE "feed"
               c == [Top(t) EXCEPT !.said = Append(Top(t).said, token), !.at = at]
    <3>2. SetTop(t, c) /\ at \in {"callback", "feed"}
      BY <3>1
    <3>. HIDE DEF at
    <3>3. Says(t, c)
      BY <2>1, <2>5, <3>2 DEF Says, Goes, nativeVars
    <3>. QED
      BY <3>3 DEF Outcome, Moves
  <2>. QED
    BY <1>8, <2>2, <2>3, <2>4, <2>5 DEF Sample, UsesContext, Accesses
<1>9. CASE Feed(t)
  <2>1. stack[t] # <<>> /\ Top(t).at = "feed"
    BY <1>9 DEF Feed, At
  <2>2. CASE ContextFault(t) # "none" /\ Faults(t, ContextFault(t))
    <3>1. Fails(t, ContextFault(t))
      BY <1>context, <2>1, <2>2 DEF Fails
    <3>. QED
      BY <1>context, <2>2, <3>1 DEF Outcome
  <2>3. CASE /\ Decodes(<<Top(t).said[Len(Top(t).said)]>>)
             /\ SetTop(t, [Top(t) EXCEPT !.at = "sample"])
             /\ UNCHANGED <<samplers, handle, opens, live, backend, calls, fault, misused>>
    <3>1. DecodesToken(t, [Top(t) EXCEPT !.at = "sample"])
      BY <2>1, <2>3 DEF DecodesToken, Goes
    <3>. QED
      BY <3>1 DEF Outcome, Moves
  <2>4. CASE DecodeFails /\ LeaveLoop(t)
             /\ UNCHANGED <<handle, opens, live, backend, calls, fault, misused>>
    <3>1. Ends(t)
      BY <2>1, <2>4 DEF Ends, SamplerPlaces, DecodeFails, LeaveLoop, FreeSampler
    <3>. QED
      BY <3>1 DEF Outcome
  <2>. QED
    BY <1>9, <2>2, <2>3, <2>4 DEF Feed, UsesContext, Accesses
<1>10. CASE LoopEnds(t)
  <2>1. Ends(t)
    BY <1>10 DEF LoopEnds, FreeSampler, At, Ends, SamplerPlaces
  <2>. QED
    BY <2>1 DEF Outcome
<1>11. CASE Free(t)
  <2>1. stack[t] # <<>> /\ Top(t).at = "free"
    BY <1>11 DEF Free, At
  <2>2. CASE ContextFault(t) # "none" /\ Faults(t, ContextFault(t))
    <3>1. Fails(t, ContextFault(t))
      BY <1>context, <2>1, <2>2 DEF Fails
    <3>. QED
      BY <1>context, <2>2, <3>1 DEF Outcome
  <2>3. CASE ContextFault(t) = "none"
    <3>1. Frees(t, [Top(t) EXCEPT !.at = "zero"])
      BY <1>11, <1>context, <2>1, <2>3 DEF Free, Frees, Goes
    <3>. QED
      BY <3>1 DEF Outcome, Moves
  <2>. QED
    BY <1>11, <2>2, <2>3 DEF Free
<1>. QED
  BY <1>1, <1>2, <1>3, <1>4, <1>5, <1>6, <1>7, <1>8, <1>9, <1>10, <1>11 DEF JavaStep, NativeStep

-----------------------------------------------------------------------------
(* Stacks and their calls. *)

LEMMA NewCallIsCall ==
  ASSUME NEW at \in Places
  PROVE  NewCall(at) \in Calls /\ NewCall(at).at = at
BY DEF NewCall, Calls

\* A chunk is a part of the prompt, behind what is fed, and not empty.
LEMMA ChunkIsNext ==
  ASSUME NEW c \in Calls, c.fed < Len(c.prompt)
  PROVE  /\ Chunk(c) \in Seq(Vocabulary) /\ Len(Chunk(c)) \in Nat \ {0}
         /\ c.fed + Len(Chunk(c)) =< Len(c.prompt)
         /\ \A i \in 1..Len(Chunk(c)) : Chunk(c)[i] = c.prompt[c.fed + i]
<1>1. c.prompt \in Seq(Vocabulary) /\ c.fed \in Nat
  BY DEF Calls
<1> DEFINE last == IF Len(c.prompt) - c.fed < ChunkSize THEN Len(c.prompt) ELSE c.fed + ChunkSize
<1>2. Len(c.prompt) \in Nat
  BY <1>1
<1>3. last \in Nat /\ c.fed + 1 =< last /\ last =< Len(c.prompt)
  BY <1>1, <1>2, ConstantNumbers
<1>4. Chunk(c) = SubSeq(c.prompt, c.fed + 1, last)
  BY DEF Chunk
<1>. HIDE DEF last
<1>5. \A i \in c.fed + 1..last : c.prompt[i] \in Vocabulary
  BY <1>1, <1>2, <1>3
<1>6. /\ Chunk(c) \in Seq(Vocabulary)
      /\ Len(Chunk(c)) = last - (c.fed + 1) + 1
      /\ \A i \in 1..last - (c.fed + 1) + 1 : Chunk(c)[i] = c.prompt[c.fed + 1 + i - 1]
  <2>1. c.fed + 1 \in Int /\ last \in Int
    BY <1>1, <1>3
  <2>. QED
    BY SMTT(30), <1>3, <1>4, <1>5, <2>1, SubSeqProperties
<1>7. last - (c.fed + 1) + 1 = last - c.fed
  BY <1>1, <1>3
<1>8. \A i \in 1..last - c.fed : c.fed + 1 + i - 1 = c.fed + i
  BY <1>1, <1>3
<1>. QED
  BY SMTT(30), <1>1, <1>2, <1>3, <1>6, <1>7, <1>8

\* A move keeps the call a call, and in order.
LEMMA MovedCall ==
  ASSUME TypeOK, NEW t \in Threads, NEW c, Moves(t, c), CallOK(Top(t))
  PROVE  c \in Calls /\ CallOK(c) /\ c.lone = Top(t).lone
<1> DEFINE b == Top(t)
<1>1. b \in Calls
  BY TopIsCall DEF Moves, Starts, DecodesChunk, BeginsToSample, Says, ComesBack, DecodesToken, Frees, Goes
<1>2. /\ b = [at |-> b.at, prompt |-> b.prompt, fed |-> b.fed, said |-> b.said,
              start |-> b.start, lone |-> b.lone]
      /\ b.at \in Places /\ b.prompt \in Seq(Vocabulary) /\ b.fed \in Nat
      /\ b.said \in Seq(Vocabulary) /\ b.start \in Nat /\ b.lone \in BOOLEAN
      /\ Len(b.prompt) \in Nat /\ Len(b.said) \in Nat
  BY <1>1 DEF Calls
<1>3. CallOK(b)
  OBVIOUS
<1>. HIDE DEF b
<1>4. CASE Starts(t, c)
  <2>1. PICK prompt \in Prompts :
          c = [b EXCEPT !.at = "prompt", !.prompt = prompt, !.start = Len(memory)]
    BY <1>4 DEF Starts, b
  <2>2. prompt \in Seq(Vocabulary) /\ Len(prompt) \in Nat /\ Len(memory) \in Nat
    BY LlamaAssumption, StateNumbers
  <2>3. b.fed = 0 /\ b.said = <<>>
    BY <1>3, <1>4 DEF Starts, CallOK, b
  <2>4. c = [at |-> "prompt", prompt |-> prompt, fed |-> 0, said |-> <<>>,
             start |-> Len(memory), lone |-> b.lone]
    BY <1>2, <2>1, <2>3
  <2>. QED
    BY <1>2, <2>2, <2>4 DEF Calls, Places, CallOK, b
<1>5. CASE DecodesChunk(t, c)
  <2>1. Len(Chunk(b)) \in Nat /\ b.fed + Len(Chunk(b)) =< Len(b.prompt)
    BY <1>1, <1>5, ChunkIsNext DEF DecodesChunk, b
  <2>2. b.at = "prompt" /\ c = [at |-> "prompt", prompt |-> b.prompt, fed |-> b.fed + Len(Chunk(b)),
             said |-> b.said, start |-> b.start, lone |-> b.lone]
    BY <1>2, <1>5 DEF DecodesChunk, b
  <2>3. b.fed + Len(Chunk(b)) \in Nat
    BY <1>2, <2>1
  <2>. QED
    BY <1>2, <1>3, <2>1, <2>2, <2>3 DEF Calls, Places, CallOK, b
<1>6. CASE BeginsToSample(t, c) \/ ComesBack(t, c) \/ DecodesToken(t, c) \/ Frees(t, c)
  <2>1. PICK at \in {"sample", "feed", "zero"} :
          /\ c = [b EXCEPT !.at = at]
          /\ at = "feed" => b.at = "callback"
    BY <1>6 DEF BeginsToSample, ComesBack, DecodesToken, Frees, b
  <2>2. c = [at |-> at, prompt |-> b.prompt, fed |-> b.fed, said |-> b.said,
             start |-> b.start, lone |-> b.lone]
    BY <1>2, <2>1
  <2>. QED
    BY <1>2, <1>3, <2>1, <2>2 DEF Calls, Places, CallOK, b
<1>7. CASE Says(t, c)
  <2>1. PICK token \in Vocabulary, at \in {"callback", "feed"} :
          c = [b EXCEPT !.said = Append(b.said, token), !.at = at]
    BY <1>7 DEF Says, b
  <2>2. Append(b.said, token) \in Seq(Vocabulary) /\ Append(b.said, token) # <<>>
    <3>1. /\ Append(b.said, token) \in Seq(Vocabulary)
          /\ Len(Append(b.said, token)) = Len(b.said) + 1
      BY <1>2, AppendProperties
    <3>2. Len(Append(b.said, token)) # 0
      BY <1>2, <3>1
    <3>. QED
      BY <3>1, <3>2
  <2>3. c = [at |-> at, prompt |-> b.prompt, fed |-> b.fed, said |-> Append(b.said, token),
             start |-> b.start, lone |-> b.lone]
    BY <1>2, <2>1
  <2>. QED
    BY <1>2, <1>3, <2>1, <2>2, <2>3 DEF Calls, Places, CallOK, b
<1>. QED
  BY <1>4, <1>5, <1>6, <1>7 DEF Moves

-----------------------------------------------------------------------------
(* The stacks after a step. *)

StacksOK ==
  /\ stack \in [Threads -> Seq(Calls)]
  /\ \A t \in Threads : Len(stack[t]) =< MaxDepth
  /\ NestInv /\ CallInv

LEMMA TopIsOK ==
  ASSUME TypeOK, CallInv, NEW t \in Threads, stack[t] # <<>>
  PROVE  CallOK(Top(t))
BY TopIsCall DEF CallInv, Top

LEMMA BeginKeepsStacks ==
  ASSUME TypeOK, NestInv, CallInv, NEW t \in Threads,
         NEW at \in {"text", "address", "free"}, Begins(t, at)
  PROVE  StacksOK'
<1>1. NewCall(at) \in Calls /\ Enter(t, NewCall(at)) /\ CallOK(NewCall(at))
  <2>1. at \in Places
    BY DEF Places
  <2>2. Len(<<>>) = 0
    OBVIOUS
  <2>. QED
    BY <2>1, <2>2, NewCallIsCall DEF Begins, CallOK, NewCall
<1>2. /\ stack' \in [Threads -> Seq(Calls)]
      /\ \A u \in Threads : u # t => stack'[u] = stack[u]
      /\ Len(stack[t]) \in Nat /\ Len(stack[t]) < MaxDepth
      /\ Len(stack'[t]) = Len(stack[t]) + 1
      /\ stack'[t][Len(stack[t]) + 1] = NewCall(at)
      /\ \A i \in 1..Len(stack[t]) :
           stack'[t][i] \in Calls /\ stack'[t][i] = [stack[t][i] EXCEPT !.lone = FALSE]
  BY <1>1, PushTop
<1>3. stack \in [Threads -> Seq(Calls)] /\ \A u \in Threads : Len(stack[u]) =< MaxDepth
  BY DEF TypeOK
<1>4. \A i \in 1..Len(stack[t]) :
        /\ stack'[t][i].at = stack[t][i].at /\ stack'[t][i].lone = FALSE
        /\ CallOK(stack'[t][i])
  <2>. SUFFICES ASSUME NEW i \in 1..Len(stack[t])
                PROVE  /\ stack'[t][i].at = stack[t][i].at /\ stack'[t][i].lone = FALSE
                       /\ CallOK(stack'[t][i])
    OBVIOUS
  <2>1. stack[t][i] \in Calls
    BY <1>3
  <2>2. CallOK(stack[t][i])
    BY DEF CallInv
  <2>3. LET c == stack'[t][i] d == stack[t][i] IN
        c.at = d.at /\ c.prompt = d.prompt /\ c.fed = d.fed /\ c.said = d.said /\ c.lone = FALSE
    BY <1>2, <2>1 DEF Calls
  <2>. QED
    BY <2>2, <2>3 DEF CallOK
<1>5. \A i \in 1..Len(stack[t]) : stack[t][i].at = "callback"
  <2>1. Len(stack[t]) > 0 => stack[t][Len(stack[t])].at = "callback"
    BY <1>1 DEF Enter, InJava, At, Top
  <2>2. \A i \in 1..Len(stack[t]) - 1 : stack[t][i].at = "callback"
    BY DEF NestInv
  <2>. QED
    BY <1>2, <2>1, <2>2
<1>6. NestInv'
  <2>. SUFFICES ASSUME NEW u \in Threads, NEW i \in 1..Len(stack'[u]) - 1
                PROVE  stack'[u][i].at = "callback" /\ ~stack'[u][i].lone
    BY DEF NestInv
  <2>1. CASE u = t
    BY <1>2, <1>4, <1>5, <2>1
  <2>2. CASE u # t
    BY <1>2, <2>2 DEF NestInv
  <2>. QED
    BY <2>1, <2>2
<1>7. CallInv'
  <2>. SUFFICES ASSUME NEW u \in Threads, NEW i \in 1..Len(stack'[u])
                PROVE  CallOK(stack'[u][i])
    BY DEF CallInv
  <2>1. CASE u = t
    BY <1>1, <1>2, <1>4, <2>1
  <2>2. CASE u # t
    BY <1>2, <2>2 DEF CallInv
  <2>. QED
    BY <2>1, <2>2
<1>8. \A u \in Threads : Len(stack'[u]) =< MaxDepth
  <2>1. Len(stack[t]) + 1 =< MaxDepth
    BY <1>2, ConstantNumbers
  <2>. QED
    BY <1>2, <1>3, <2>1
<1>. QED
  BY <1>2, <1>6, <1>7, <1>8 DEF StacksOK

LEMMA MoveKeepsStacks ==
  ASSUME TypeOK, NestInv, CallInv, NEW t \in Threads, NEW c, Moves(t, c)
  PROVE  StacksOK'
<1>1. stack[t] # <<>> /\ SetTop(t, c)
  BY DEF Moves, Starts, DecodesChunk, BeginsToSample, Says, ComesBack, DecodesToken, Frees, Goes
<1>2. c \in Calls /\ CallOK(c)
  BY <1>1, TopIsOK, MovedCall
<1>3. /\ stack' \in [Threads -> Seq(Calls)]
      /\ \A u \in Threads : u # t => stack'[u] = stack[u]
      /\ Len(stack'[t]) = Len(stack[t])
      /\ stack'[t][Len(stack[t])] = c
      /\ \A i \in 1..Len(stack[t]) - 1 : stack'[t][i] = stack[t][i]
  BY <1>1, <1>2, MoveTop
<1>4. Len(stack[t]) \in Nat \ {0} /\ \A u \in Threads : Len(stack[u]) =< MaxDepth
  BY <1>1, TopIsCall DEF TypeOK
<1>5. NestInv'
  <2>. SUFFICES ASSUME NEW u \in Threads, NEW i \in 1..Len(stack'[u]) - 1
                PROVE  stack'[u][i].at = "callback" /\ ~stack'[u][i].lone
    BY DEF NestInv
  <2>. QED
    BY <1>3 DEF NestInv
<1>6. CallInv'
  <2>. SUFFICES ASSUME NEW u \in Threads, NEW i \in 1..Len(stack'[u])
                PROVE  CallOK(stack'[u][i])
    BY DEF CallInv
  <2>1. CASE u = t /\ i # Len(stack[t])
    BY <1>3, <1>4, <2>1 DEF CallInv
  <2>2. CASE u = t /\ i = Len(stack[t])
    BY <1>2, <1>3, <2>2
  <2>3. CASE u # t
    BY <1>3, <2>3 DEF CallInv
  <2>. QED
    BY <2>1, <2>2, <2>3
<1>. QED
  BY <1>3, <1>4, <1>5, <1>6 DEF StacksOK

LEMMA EndKeepsStacks ==
  ASSUME TypeOK, NestInv, CallInv, NEW t \in Threads, stack[t] # <<>>, Return(t)
  PROVE  StacksOK'
<1>3. /\ stack' \in [Threads -> Seq(Calls)]
      /\ \A u \in Threads : u # t => stack'[u] = stack[u]
      /\ Len(stack'[t]) = Len(stack[t]) - 1
      /\ \A i \in 1..Len(stack[t]) - 1 : stack'[t][i] = stack[t][i]
  BY PopTop
<1>4. /\ Len(stack[t]) \in Nat \ {0} /\ Len(stack[t]) =< MaxDepth
      /\ \A u \in Threads : Len(stack[u]) =< MaxDepth
  BY TopIsCall DEF TypeOK
<1>5. NestInv'
  <2>. SUFFICES ASSUME NEW u \in Threads, NEW i \in 1..Len(stack'[u]) - 1
                PROVE  stack'[u][i].at = "callback" /\ ~stack'[u][i].lone
    BY DEF NestInv
  <2>1. CASE u = t
    BY <1>3, <1>4, <2>1 DEF NestInv
  <2>2. CASE u # t
    BY <1>3, <2>2 DEF NestInv
  <2>. QED
    BY <2>1, <2>2
<1>6. CallInv'
  <2>. SUFFICES ASSUME NEW u \in Threads, NEW i \in 1..Len(stack'[u])
                PROVE  CallOK(stack'[u][i])
    BY DEF CallInv
  <2>1. CASE u = t
    BY <1>3, <1>4, <2>1 DEF CallInv
  <2>2. CASE u # t
    BY <1>3, <2>2 DEF CallInv
  <2>. QED
    BY <2>1, <2>2
<1>7. \A u \in Threads : Len(stack'[u]) =< MaxDepth
  BY <1>3, <1>4, ConstantNumbers
<1>. QED
  BY <1>3, <1>5, <1>6, <1>7 DEF StacksOK

-----------------------------------------------------------------------------
(* The slots after a step. *)

LEMMA SlotsOfBegin ==
  ASSUME TypeOK, NEW t \in Threads, NEW CONSTANT c \in Calls, Enter(t, c), NEW CONSTANT places
  PROVE  /\ <<t, Len(stack[t]) + 1>> \notin Slots(places)
         /\ Slots(places)' = Slots(places) \cup
              (IF c.at \in places THEN {<<t, Len(stack[t]) + 1>>} ELSE {})
<1>2. /\ stack' \in [Threads -> Seq(Calls)]
      /\ \A u \in Threads : u # t => stack'[u] = stack[u]
      /\ Len(stack[t]) \in Nat /\ Len(stack[t]) < MaxDepth
      /\ Len(stack'[t]) = Len(stack[t]) + 1
      /\ stack'[t][Len(stack[t]) + 1] = c
      /\ \A i \in 1..Len(stack[t]) :
           stack'[t][i] \in Calls /\ stack'[t][i] = [stack[t][i] EXCEPT !.lone = FALSE]
  BY PushTop
<1>3. stack \in [Threads -> Seq(Calls)] /\ MaxDepth \in Nat
  BY ConstantNumbers DEF TypeOK
<1>4. \A i \in 1..Len(stack[t]) : stack'[t][i].at = stack[t][i].at
  BY <1>2, <1>3 DEF Calls
<1>5. Slots(places)' = {s \in Threads \X (1..MaxDepth) :
        s[2] =< Len(stack'[s[1]]) /\ stack'[s[1]][s[2]].at \in places}
  BY DEF Slots
<1>6. ASSUME NEW u \in Threads, NEW i \in 1..MaxDepth
      PROVE  (i =< Len(stack'[u]) /\ stack'[u][i].at \in places)
               <=> \/ i =< Len(stack[u]) /\ stack[u][i].at \in places
                   \/ u = t /\ i = Len(stack[t]) + 1 /\ c.at \in places
  <2>1. CASE u # t
    BY <1>2, <2>1
  <2>2. CASE u = t
    BY <1>2, <1>3, <1>4, <2>2
  <2>. QED
    BY <2>1, <2>2
<1>7. Len(stack[t]) + 1 \in 1..MaxDepth
  BY <1>2, <1>3
<1>. QED
  BY <1>2, <1>5, <1>6, <1>7 DEF Slots

LEMMA SlotsOfMove ==
  ASSUME TypeOK, NEW t \in Threads, stack[t] # <<>>, NEW c \in Calls, SetTop(t, c),
         NEW CONSTANT places
  PROVE  /\ <<t, Len(stack[t])>> \in Slots(places) <=> Top(t).at \in places
         /\ Slots(places)' = (IF c.at \in places THEN Slots(places) \cup {<<t, Len(stack[t])>>}
                              ELSE Slots(places) \ {<<t, Len(stack[t])>>})
<1>2. /\ \A u \in Threads : u # t => stack'[u] = stack[u]
      /\ Len(stack'[t]) = Len(stack[t])
      /\ stack'[t][Len(stack[t])] = c
      /\ \A i \in 1..Len(stack[t]) - 1 : stack'[t][i] = stack[t][i]
  BY MoveTop
<1>3. MaxDepth \in Nat /\ Len(stack[t]) \in Nat \ {0} /\ Len(stack[t]) =< MaxDepth
  BY ConstantNumbers, TopIsCall
<1>5. Slots(places)' = {s \in Threads \X (1..MaxDepth) :
        s[2] =< Len(stack'[s[1]]) /\ stack'[s[1]][s[2]].at \in places}
  BY DEF Slots
<1>6. ASSUME NEW u \in Threads, NEW i \in 1..MaxDepth, ~(u = t /\ i = Len(stack[t]))
      PROVE  (i =< Len(stack'[u]) /\ stack'[u][i].at \in places)
               <=> (i =< Len(stack[u]) /\ stack[u][i].at \in places)
  BY <1>2, <1>3, <1>6
<1>7. Len(stack[t]) \in 1..MaxDepth
  BY <1>3
<1>8. <<t, Len(stack[t])>> \in Slots(places) <=> Top(t).at \in places
  BY <1>3, <1>7 DEF Slots, Top
<1>9. <<t, Len(stack[t])>> \in Slots(places)' <=> c.at \in places
  BY <1>2, <1>3, <1>5, <1>7
<1>. QED
  <2>1. ASSUME NEW s \in Threads \X (1..MaxDepth), s # <<t, Len(stack[t])>>
        PROVE  s \in Slots(places)' <=> s \in Slots(places)
    BY <1>5, <1>6, <2>1 DEF Slots
  <2>2. Slots(places) \subseteq Threads \X (1..MaxDepth)
    BY DEF Slots
  <2>3. Slots(places)' \subseteq Threads \X (1..MaxDepth)
    BY <1>5
  <2>4. <<t, Len(stack[t])>> \in Threads \X (1..MaxDepth)
    BY <1>7
  <2>. QED
    BY <1>8, <1>9, <2>1, <2>2, <2>3, <2>4

LEMMA SlotsOfEnd ==
  ASSUME TypeOK, NEW t \in Threads, stack[t] # <<>>, Return(t), NEW CONSTANT places
  PROVE  /\ <<t, Len(stack[t])>> \in Slots(places) <=> Top(t).at \in places
         /\ Slots(places)' = Slots(places) \ {<<t, Len(stack[t])>>}
<1>2. /\ \A u \in Threads : u # t => stack'[u] = stack[u]
      /\ Len(stack'[t]) = Len(stack[t]) - 1
      /\ \A i \in 1..Len(stack[t]) - 1 : stack'[t][i] = stack[t][i]
  BY PopTop
<1>3. MaxDepth \in Nat /\ Len(stack[t]) \in Nat \ {0} /\ Len(stack[t]) =< MaxDepth
  BY ConstantNumbers, TopIsCall
<1>5. Slots(places)' = {s \in Threads \X (1..MaxDepth) :
        s[2] =< Len(stack'[s[1]]) /\ stack'[s[1]][s[2]].at \in places}
  BY DEF Slots
<1>6. ASSUME NEW u \in Threads, NEW i \in 1..MaxDepth
      PROVE  (i =< Len(stack'[u]) /\ stack'[u][i].at \in places)
               <=> (i =< Len(stack[u]) /\ stack[u][i].at \in places /\ ~(u = t /\ i = Len(stack[t])))
  BY <1>2, <1>3
<1>7. Len(stack[t]) \in 1..MaxDepth
  BY <1>3
<1>8. <<t, Len(stack[t])>> \in Slots(places) <=> Top(t).at \in places
  BY <1>3, <1>7 DEF Slots, Top
<1>. QED
  <2>1. ASSUME NEW s \in Threads \X (1..MaxDepth)
        PROVE  s \in Slots(places)' <=> s \in Slots(places) /\ s # <<t, Len(stack[t])>>
    BY <1>5, <1>6 DEF Slots
  <2>2. Slots(places) \subseteq Threads \X (1..MaxDepth)
    BY DEF Slots
  <2>3. Slots(places)' \subseteq Threads \X (1..MaxDepth)
    BY <1>5
  <2>. QED
    BY <1>8, <2>1, <2>2, <2>3

-----------------------------------------------------------------------------
(* One sampler for each prediction that samples. *)

LEMMA BeginKeepsSamplers ==
  ASSUME TypeOK, SamplerInv, NEW t \in Threads,
         NEW at \in {"text", "address", "free"}, Begins(t, at)
  PROVE  SamplerInv'
<1> DEFINE slot == <<t, Len(stack[t]) + 1>>
           P == Slots(PredictPlaces)
<1>1. NewCall(at) \in Calls /\ NewCall(at).at = at /\ Enter(t, NewCall(at))
  BY NewCallIsCall DEF Begins, Places
<1>2. /\ slot \notin P
      /\ Slots(PredictPlaces)' = P \cup (IF NewCall(at).at \in PredictPlaces THEN {slot} ELSE {})
  BY <1>1, SlotsOfBegin
<1>3. Slots(SamplerPlaces)' =
        Slots(SamplerPlaces) \cup (IF NewCall(at).at \in SamplerPlaces THEN {slot} ELSE {})
  BY <1>1, SlotsOfBegin
<1>4. Slots(SamplerPlaces)' = Slots(SamplerPlaces)
  BY <1>1, <1>3 DEF SamplerPlaces
<1>5. calls \in Nat /\ calls' = (IF at = "free" THEN calls ELSE calls + 1) /\ samplers' = samplers
  BY StateNumbers DEF Begins, nativeVars
<1>6. IsFiniteSet(P) /\ Cardinality(P) \in Nat /\ Cardinality(P) =< calls
  BY FS_CardinalityType DEF SamplerInv
<1>. HIDE DEF slot, P
<1>7. CASE at = "free"
  <2>1. Slots(PredictPlaces)' = P
    BY <1>1, <1>2, <1>7 DEF PredictPlaces
  <2>. QED
    BY <1>4, <1>5, <1>6, <1>7, <2>1 DEF SamplerInv, P
<1>8. CASE at # "free"
  <2>1. Slots(PredictPlaces)' = P \cup {slot}
    BY <1>1, <1>2, <1>8 DEF PredictPlaces
  <2>2. IsFiniteSet(P \cup {slot}) /\ Cardinality(P \cup {slot}) = Cardinality(P) + 1
    BY <1>2, <1>6, FS_AddElement
  <2>. QED
    BY <1>4, <1>5, <1>6, <1>8, <2>1, <2>2 DEF SamplerInv
<1>. QED
  BY <1>7, <1>8

LEMMA MoveKeepsSamplers ==
  ASSUME TypeOK, CallInv, SamplerInv, NEW t \in Threads, NEW c, Moves(t, c)
  PROVE  SamplerInv'
<1> DEFINE slot == <<t, Len(stack[t])>>
           P == Slots(PredictPlaces)
           S == Slots(SamplerPlaces)
<1>1. /\ stack[t] # <<>> /\ SetTop(t, c) /\ calls' = calls
  BY DEF Moves, Starts, DecodesChunk, BeginsToSample, Says, ComesBack, DecodesToken, Frees, Goes
<1>2. c \in Calls
  BY <1>1, TopIsOK, MovedCall
<1>3. /\ slot \in P <=> Top(t).at \in PredictPlaces
      /\ Slots(PredictPlaces)' = (IF c.at \in PredictPlaces THEN P \cup {slot} ELSE P \ {slot})
  BY <1>1, <1>2, SlotsOfMove
<1>4. /\ slot \in S <=> Top(t).at \in SamplerPlaces
      /\ Slots(SamplerPlaces)' = (IF c.at \in SamplerPlaces THEN S \cup {slot} ELSE S \ {slot})
  BY <1>1, <1>2, SlotsOfMove
<1>5. Top(t) \in Calls
  BY <1>1, TopIsCall
<1>6. c.at \in PredictPlaces <=> Top(t).at \in PredictPlaces
  <2>1. Starts(t, c) \/ DecodesChunk(t, c) \/ BeginsToSample(t, c) \/ Says(t, c)
          \/ ComesBack(t, c) \/ DecodesToken(t, c) => c.at \in PredictPlaces /\ Top(t).at \in PredictPlaces
    BY <1>5 DEF Starts, DecodesChunk, BeginsToSample, Says, ComesBack, DecodesToken, PredictPlaces, Calls
  <2>2. Frees(t, c) => c.at \notin PredictPlaces /\ Top(t).at \notin PredictPlaces
    BY <1>5 DEF Frees, PredictPlaces, Calls
  <2>. QED
    BY <2>1, <2>2 DEF Moves
<1>7. Slots(PredictPlaces)' = P
  BY <1>3, <1>6
<1>8. S \subseteq P /\ IsFiniteSet(P) /\ samplers = Cardinality(S)
  BY DEF SamplerInv, Slots, SamplerPlaces, PredictPlaces
<1>9. IsFiniteSet(S)
  BY <1>8, FS_Subset
<1>10. samplers' = Cardinality(Slots(SamplerPlaces)')
  <2>1. CASE BeginsToSample(t, c)
    <3>1. c.at \in SamplerPlaces /\ Top(t).at \notin SamplerPlaces /\ samplers' = samplers + 1
      BY <1>5, <2>1 DEF BeginsToSample, SamplerPlaces, Calls
    <3>2. Slots(SamplerPlaces)' = S \cup {slot} /\ slot \notin S
      BY <1>4, <3>1
    <3>3. Cardinality(S \cup {slot}) = Cardinality(S) + 1
      BY <1>9, <3>2, FS_AddElement
    <3>. QED
      BY <1>8, <3>1, <3>2, <3>3
  <2>2. CASE Starts(t, c) \/ DecodesChunk(t, c) \/ Says(t, c) \/ ComesBack(t, c)
               \/ DecodesToken(t, c) \/ Frees(t, c)
    <3>1. c.at \in SamplerPlaces <=> Top(t).at \in SamplerPlaces
      BY <1>5, <2>2 DEF Starts, DecodesChunk, Says, ComesBack, DecodesToken, Frees, SamplerPlaces, Calls
    <3>2. samplers' = samplers
      BY <2>2 DEF Starts, DecodesChunk, Says, ComesBack, DecodesToken, Frees, nativeVars
    <3>3. Slots(SamplerPlaces)' = S
      BY <1>4, <3>1
    <3>. QED
      BY <1>8, <3>2, <3>3
  <2>. QED
    BY <2>1, <2>2 DEF Moves
<1>. QED
  BY <1>1, <1>7, <1>8, <1>10 DEF SamplerInv

LEMMA EndKeepsSamplers ==
  ASSUME TypeOK, SamplerInv, NEW t \in Threads, Ends(t)
  PROVE  SamplerInv'
<1> DEFINE slot == <<t, Len(stack[t])>>
           P == Slots(PredictPlaces)
           S == Slots(SamplerPlaces)
<1>1. stack[t] # <<>> /\ Return(t) /\ calls' = calls /\ calls \in Nat
  BY StateNumbers DEF Ends
<1>2. Slots(PredictPlaces)' = P \ {slot}
  BY <1>1, SlotsOfEnd
<1>3. /\ slot \in S <=> Top(t).at \in SamplerPlaces
      /\ Slots(SamplerPlaces)' = S \ {slot}
  BY <1>1, SlotsOfEnd
<1>4. S \subseteq P /\ IsFiniteSet(P) /\ samplers = Cardinality(S) /\ Cardinality(P) =< calls
  BY DEF SamplerInv, Slots, SamplerPlaces, PredictPlaces
<1>5. IsFiniteSet(S) /\ Cardinality(S) \in Nat /\ Cardinality(P) \in Nat
  BY <1>4, FS_Subset, FS_CardinalityType
<1>6. IsFiniteSet(P \ {slot}) /\ Cardinality(P \ {slot}) \in Nat /\ Cardinality(P \ {slot}) =< calls
  <2>1. P \ {slot} \subseteq P
    OBVIOUS
  <2>2. IsFiniteSet(P \ {slot}) /\ Cardinality(P \ {slot}) =< Cardinality(P)
    BY <1>4, <2>1, FS_Subset
  <2>. QED
    BY <1>1, <1>4, <1>5, <2>2, FS_CardinalityType
<1>7. samplers' = Cardinality(S \ {slot})
  <2>1. CASE slot \in S
    <3>1. Cardinality(S \ {slot}) = Cardinality(S) - 1
      BY <1>5, <2>1, FS_RemoveElement
    <3>. QED
      BY <1>3, <1>4, <2>1, <3>1 DEF Ends
  <2>2. CASE slot \notin S
    <3>1. S \ {slot} = S
      BY <2>2
    <3>. QED
      BY <1>3, <1>4, <2>2, <3>1 DEF Ends
  <2>. QED
    BY <2>1, <2>2
<1>. QED
  BY <1>1, <1>2, <1>3, <1>6, <1>7 DEF SamplerInv

LEMMA SamplersAreBounded ==
  ASSUME NEW P, NEW S, S \subseteq P, IsFiniteSet(P),
         NEW n \in Nat, n =< MaxCalls, Cardinality(P) =< n
  PROVE  Cardinality(S) \in 0..MaxCalls
<1>1. IsFiniteSet(S) /\ Cardinality(S) =< Cardinality(P)
  BY FS_Subset
<1>2. Cardinality(S) \in Nat /\ Cardinality(P) \in Nat
  BY <1>1, FS_CardinalityType
<1>. QED
  BY <1>1, <1>2, ConstantNumbers

-----------------------------------------------------------------------------
(* The native objects, and a program that does not misuse them. *)

\* Where the innermost calls are after a step of thread t.
LEMMA TopsOfBegin ==
  ASSUME TypeOK, NEW t \in Threads, NEW at \in {"text", "address", "free"}, Begins(t, at)
  PROVE  /\ \A u \in Threads : u # t => stack'[u] = stack[u] /\ Top(u)' = Top(u)
         /\ InJava(t) /\ stack'[t] # <<>> /\ Top(t)' = NewCall(at) /\ (Top(t)').at = at
         /\ Len(stack'[t]) = Len(stack[t]) + 1 /\ (stack[t] = <<>> => Len(stack'[t]) = 1)
<1>1. NewCall(at) \in Calls /\ NewCall(at).at = at /\ Enter(t, NewCall(at))
  BY NewCallIsCall DEF Begins, Places
<1>2. /\ \A u \in Threads : u # t => stack'[u] = stack[u]
      /\ stack'[t] # <<>> /\ Top(t)' = NewCall(at)
      /\ Len(stack'[t]) = Len(stack[t]) + 1
  BY <1>1, PushTop
<1>3. Len(<<>>) = 0
  OBVIOUS
<1>. QED
  BY <1>1, <1>2, <1>3 DEF Enter, Top

LEMMA TopsOfMove ==
  ASSUME TypeOK, CallInv, NEW t \in Threads, NEW c, Moves(t, c)
  PROVE  /\ \A u \in Threads : u # t => stack'[u] = stack[u] /\ Top(u)' = Top(u)
         /\ stack[t] # <<>> /\ stack'[t] # <<>> /\ Top(t)' = c
         /\ Len(stack'[t]) = Len(stack[t])
         /\ UNCHANGED <<handle, opens, calls, fault, misused>>
<1>1. /\ stack[t] # <<>> /\ SetTop(t, c)
      /\ UNCHANGED <<handle, opens, calls, fault, misused>>
  BY DEF Moves, Starts, DecodesChunk, BeginsToSample, Says, ComesBack, DecodesToken, Frees, Goes
<1>2. c \in Calls
  BY <1>1, TopIsOK, MovedCall
<1>3. /\ \A u \in Threads : u # t => stack'[u] = stack[u]
      /\ Len(stack'[t]) = Len(stack[t]) /\ stack'[t] # <<>> /\ Top(t)' = c
  BY <1>1, <1>2, MoveTop
<1>. QED
  BY <1>1, <1>3 DEF Top

LEMMA TopsOfEnd ==
  ASSUME TypeOK, NestInv, NEW t \in Threads, stack[t] # <<>>, Return(t)
  PROVE  /\ \A u \in Threads : u # t => stack'[u] = stack[u] /\ Top(u)' = Top(u)
         /\ stack'[t] # <<>> => (Top(t)').at = "callback" /\ ~(Top(t)').lone
         /\ Len(stack[t]) = 1 => stack'[t] = <<>>
<1>1. /\ stack' \in [Threads -> Seq(Calls)]
      /\ \A u \in Threads : u # t => stack'[u] = stack[u]
      /\ Len(stack'[t]) = Len(stack[t]) - 1
      /\ \A i \in 1..Len(stack[t]) - 1 : stack'[t][i] = stack[t][i]
  BY PopTop
<1>2. stack'[t] \in Seq(Calls) /\ Len(stack[t]) \in Nat \ {0}
  BY <1>1, TopIsCall
<1>3. stack'[t] # <<>> => (Top(t)').at = "callback" /\ ~(Top(t)').lone
  <2>. SUFFICES ASSUME stack'[t] # <<>>
                PROVE  (Top(t)').at = "callback" /\ ~(Top(t)').lone
    OBVIOUS
  <2>1. Len(stack'[t]) \in 1..Len(stack[t]) - 1
    BY <1>1, <1>2
  <2>. QED
    BY <1>1, <2>1 DEF NestInv, Top
<1>4. Len(stack[t]) = 1 => stack'[t] = <<>>
  BY <1>1, <1>2
<1>. QED
  BY <1>1, <1>3, <1>4 DEF Top

LEMMA BeginKeepsUse ==
  ASSUME TypeOK, LiveInv, UseInv, NEW t \in Threads,
         NEW at \in {"text", "address", "free"}, Begins(t, at)
  PROVE  LiveInv' /\ UseInv'
<1>1. /\ \A u \in Threads : u # t => stack'[u] = stack[u] /\ Top(u)' = Top(u)
      /\ InJava(t) /\ stack'[t] # <<>> /\ (Top(t)').at = at
      /\ stack[t] = <<>> => Len(stack'[t]) = 1
  BY TopsOfBegin
<1>2. /\ handle = "set" /\ UNCHANGED <<handle, opens, live, backend>>
      /\ misused' = (misused \/ Overlaps(t) \/ (at = "free" /\ stack[t] # <<>>))
  BY DEF Begins, nativeVars
<1>3. \A u \in Threads : At(u, "zero")' <=> At(u, "zero")
  <2>1. ~At(t, "zero") /\ ~At(t, "zero")'
    BY <1>1 DEF At, InJava
  <2>. QED
    BY <1>1, <2>1 DEF At
<1>4. LiveInv'
  BY <1>2, <1>3 DEF LiveInv
<1>5. UseInv'
  <2>. SUFFICES ASSUME ~misused'
                PROVE  /\ \A u, v \in Threads : u # v => stack'[u] = <<>> \/ stack'[v] = <<>>
                       /\ \A u \in Threads : At(u, "free")' \/ At(u, "zero")' => Len(stack'[u]) = 1
                       /\ \A u \in Threads : stack'[u] # <<>> => handle' = "set"
    BY DEF UseInv
  <2>1. \A u \in Threads : u # t => stack'[u] = <<>>
    BY <1>1, <1>2 DEF Overlaps
  <2>2. At(t, "free")' \/ At(t, "zero")' => Len(stack'[t]) = 1
    BY <1>1, <1>2 DEF At
  <2>3. \A u \in Threads : At(u, "free")' \/ At(u, "zero")' => Len(stack'[u]) = 1
    BY <2>1, <2>2 DEF At
  <2>. QED
    BY <1>2, <2>1, <2>3
<1>. QED
  BY <1>4, <1>5

LEMMA MoveKeepsUse ==
  ASSUME TypeOK, CallInv, LiveInv, UseInv, NEW t \in Threads, NEW c, Moves(t, c)
  PROVE  LiveInv' /\ UseInv'
<1>1. /\ \A u \in Threads : u # t => stack'[u] = stack[u] /\ Top(u)' = Top(u)
      /\ stack[t] # <<>> /\ stack'[t] # <<>> /\ Top(t)' = c
      /\ Len(stack'[t]) = Len(stack[t])
      /\ UNCHANGED <<handle, opens, calls, fault, misused>>
  BY TopsOfMove
<1>2. Top(t) \in Calls
  BY <1>1, TopIsCall
<1>3. /\ Top(t).at # "zero" /\ c.at # "free"
      /\ c.at = "zero" <=> Frees(t, c)
      /\ ~Frees(t, c) => UNCHANGED <<live, backend>>
  <2>1. ASSUME Starts(t, c) \/ DecodesChunk(t, c) \/ BeginsToSample(t, c) \/ Says(t, c)
                 \/ ComesBack(t, c) \/ DecodesToken(t, c)
        PROVE  Top(t).at # "zero" /\ c.at \notin {"free", "zero"} /\ UNCHANGED <<live, backend>>
                 /\ Top(t).at # "free"
    BY <1>2, <2>1 DEF Starts, DecodesChunk, BeginsToSample, Says, ComesBack, DecodesToken, Calls, nativeVars
  <2>2. ASSUME Frees(t, c)
        PROVE  Top(t).at = "free" /\ c.at = "zero"
    BY <1>2, <2>2 DEF Frees, Calls
  <2>. QED
    BY <2>1, <2>2 DEF Moves
<1>4. \A u \in Threads : u # t => (At(u, "zero")' <=> At(u, "zero"))
                                  /\ (At(u, "free")' <=> At(u, "free"))
  BY <1>1 DEF At
<1>5. CASE Frees(t, c)
  <2>1. /\ live = Objects /\ live' = {} /\ backend' = backend - 1 /\ Top(t).at = "free"
    BY <1>5 DEF Frees
  <2>2. handle = "set" /\ backend = opens /\ opens > 0
    BY <1>1, <2>1 DEF LiveInv, Objects
  <2>3. At(t, "zero")'
    BY <1>1, <1>3, <1>5 DEF At
  <2>4. LiveInv'
    BY <1>1, <2>1, <2>2, <2>3 DEF LiveInv
  <2>5. ~misused => Len(stack'[t]) = 1
    BY <1>1, <2>1 DEF UseInv, At
  <2>6. UseInv'
    BY <1>1, <1>4, <2>2, <2>5 DEF UseInv
  <2>. QED
    BY <2>4, <2>6
<1>6. CASE ~Frees(t, c)
  <2>1. ~At(t, "zero") /\ ~At(t, "zero")' /\ ~At(t, "free")' /\ UNCHANGED <<live, backend>>
    BY <1>1, <1>3, <1>6 DEF At
  <2>2. \A u \in Threads : At(u, "zero")' <=> At(u, "zero")
    BY <1>4, <2>1
  <2>3. LiveInv'
    BY <1>1, <2>1, <2>2 DEF LiveInv
  <2>4. UseInv'
    BY <1>1, <1>4, <2>1 DEF UseInv
  <2>. QED
    BY <2>3, <2>4
<1>. QED
  BY <1>5, <1>6

LEMMA EndKeepsUse ==
  ASSUME TypeOK, NestInv, LiveInv, UseInv, NEW t \in Threads, Ends(t)
  PROVE  LiveInv' /\ UseInv'
<1>1. /\ stack[t] # <<>> /\ Return(t)
      /\ handle' = (IF Top(t).at = "zero" THEN "zero" ELSE handle)
      /\ UNCHANGED <<opens, live, backend, misused>>
  BY DEF Ends
<1>2. /\ \A u \in Threads : u # t => stack'[u] = stack[u] /\ Top(u)' = Top(u)
      /\ stack'[t] # <<>> => (Top(t)').at = "callback" /\ ~(Top(t)').lone
      /\ Len(stack[t]) = 1 => stack'[t] = <<>>
  BY <1>1, TopsOfEnd
<1>3. ~At(t, "zero")' /\ ~At(t, "free")'
  BY <1>2 DEF At
<1>4. \A u \in Threads : u # t => (At(u, "zero")' <=> At(u, "zero"))
                                  /\ (At(u, "free")' <=> At(u, "free"))
  BY <1>2 DEF At
<1>5. handle # "none" /\ handle' # "none"
  BY <1>1 DEF LiveInv
<1>6. LiveInv'
  <2>1. CASE Top(t).at = "zero"
    <3>1. live = {} /\ backend = opens - 1 /\ opens > 0
      BY <1>1, <1>5, <2>1 DEF LiveInv, At
    <3>. QED
      BY <1>1, <1>5, <2>1, <3>1 DEF LiveInv
  <2>2. CASE Top(t).at # "zero"
    <3>1. \A u \in Threads : At(u, "zero")' <=> At(u, "zero")
      BY <1>3, <1>4, <2>2 DEF At
    <3>. QED
      BY <1>1, <1>5, <2>2, <3>1 DEF LiveInv
  <2>. QED
    BY <2>1, <2>2
<1>7. UseInv'
  <2>. SUFFICES ASSUME ~misused
                PROVE  /\ \A u, v \in Threads : u # v => stack'[u] = <<>> \/ stack'[v] = <<>>
                       /\ \A u \in Threads : At(u, "free")' \/ At(u, "zero")' => Len(stack'[u]) = 1
                       /\ \A u \in Threads : stack'[u] # <<>> => handle' = "set"
    BY <1>1 DEF UseInv
  <2>1. \A u \in Threads : u # t => stack'[u] = <<>>
    BY <1>1, <1>2 DEF UseInv
  <2>2. handle = "set"
    BY <1>1 DEF UseInv
  <2>3. Top(t).at = "zero" => stack'[t] = <<>>
    BY <1>1, <1>2 DEF UseInv, At
  <2>. QED
    BY <1>1, <1>3, <2>1, <2>2, <2>3 DEF At
<1>. QED
  BY <1>6, <1>7

LEMMA OpenKeepsUse ==
  ASSUME TypeOK, LiveInv, UseInv, Open
  PROVE  /\ LiveInv' /\ UseInv'
         /\ handle' \in {"none", "set"} /\ opens' \in 0..MaxOpens
         /\ \A t \in Threads : stack[t] = <<>> /\ stack'[t] = <<>>
<1>1. /\ handle = "none" /\ opens < MaxOpens
      /\ opens' = opens + 1 /\ backend' = backend + 1
      /\ UNCHANGED <<stack, misused>>
  BY DEF Open
<1>2. live = {} /\ backend = opens /\ \A t \in Threads : stack[t] = <<>>
  BY <1>1 DEF LiveInv
<1>3. (handle' = "none" /\ live' = {}) \/ (handle' = "set" /\ live' = Objects)
  <2>1. OpenFindsNoModel => handle' = "none" /\ live' = {}
    BY <1>1, <1>2 DEF OpenFindsNoModel
  <2>2. OpenFindsNoContext => handle' = "none" /\ live' = {}
    BY <1>1, <1>2 DEF OpenFindsNoContext
  <2>3. OpenSucceeds => handle' = "set" /\ live' = Objects
    BY DEF OpenSucceeds
  <2>. QED
    BY <2>1, <2>2, <2>3 DEF Open
<1>4. opens \in Nat /\ opens' > 0 /\ opens' \in 0..MaxOpens /\ backend' = opens'
  BY <1>1, <1>2, StateNumbers, ConstantNumbers
<1>5. \A t \in Threads : stack'[t] = <<>>
  BY <1>1, <1>2
<1>6. \A t \in Threads, where \in {"zero", "free"} : ~At(t, where)'
  BY <1>5 DEF At
<1>7. LiveInv'
  BY <1>3, <1>4, <1>5, <1>6 DEF LiveInv
<1>8. UseInv'
  BY <1>5, <1>6 DEF UseInv
<1>. QED
  BY <1>2, <1>3, <1>4, <1>5, <1>7, <1>8

-----------------------------------------------------------------------------
(* The text of the call. *)

\* The text U is T with a batch behind it.
Grows(U, T, batch) ==
  /\ Len(U) = Len(T) + Len(batch)
  /\ \A i \in 1..Len(T) : U[i] = T[i]
  /\ \A i \in 1..Len(batch) : U[Len(T) + i] = batch[i]

\* A memory that ends with T, behind which a batch is put, ends with T and the batch.
LEMMA TextGrows ==
  ASSUME NEW V, NEW m \in Seq(V), NEW batch \in Seq(V), NEW start \in Nat,
         NEW T \in Seq(V), NEW U \in Seq(V), EndsWith(m, start, T), Grows(U, T, batch)
  PROVE  EndsWith(m \o batch, start, U)
<1>. USE DEF EndsWith, Grows
<1>1. Len(m) \in Nat /\ Len(batch) \in Nat /\ Len(T) \in Nat
  OBVIOUS
<1>2. /\ Len(m \o batch) = Len(m) + Len(batch)
      /\ \A i \in 1..Len(m) + Len(batch) :
           (m \o batch)[i] = IF i =< Len(m) THEN m[i] ELSE batch[i - Len(m)]
  BY ConcatProperties
<1>3. ASSUME NEW i \in 1..Len(U)
      PROVE  (m \o batch)[start + i] = U[i]
  <2>1. start + i \in 1..Len(m) + Len(batch)
    BY <1>1
  <2>2. CASE i =< Len(T)
    <3>1. start + i =< Len(m) /\ i \in 1..Len(T)
      BY <1>1, <2>2
    <3>. QED
      BY <1>2, <2>1, <3>1
  <2>3. CASE i > Len(T)
    <3>1. i - Len(T) \in 1..Len(batch)
      BY <1>1, <2>3
    <3>2. ~(start + i =< Len(m)) /\ start + i - Len(m) = i - Len(T) /\ Len(T) + (i - Len(T)) = i
      BY <1>1, <2>3
    <3>3. U[i] = batch[i - Len(T)]
      BY <3>1, <3>2
    <3>. QED
      BY <1>2, <2>1, <3>2, <3>3
  <2>. QED
    BY <1>1, <2>2, <2>3
<1>. QED
  BY <1>1, <1>2, <1>3

LEMMA NothingIsEvaluated ==
  ASSUME logits = 0
  PROVE  \A token : ~Evaluated(token)
BY DEF Evaluated

LEMMA EmptyConcat ==
  ASSUME NEW V, NEW p \in Seq(V), NEW s \in Seq(V), p \o s = <<>>
  PROVE  p = <<>> /\ s = <<>>
<1>1. Len(p \o s) = Len(p) + Len(s) /\ Len(p) \in Nat /\ Len(s) \in Nat
  BY ConcatProperties, LenProperties
<1>2. Len(<<>>) = 0
  OBVIOUS
<1>3. Len(p) = 0 /\ Len(s) = 0
  BY <1>1, <1>2
<1>. QED
  BY <1>3

\* The text a memory ends with is the part of it behind its start.
LEMMA EndIsSubSeq ==
  ASSUME NEW V, NEW m \in Seq(V), NEW start \in Nat, NEW T \in Seq(V), EndsWith(m, start, T)
  PROVE  SubSeq(m, start + 1, Len(m)) = T
<1>. USE DEF EndsWith
<1>1. Len(m) \in Nat /\ Len(T) \in Nat /\ Len(m) = start + Len(T)
  OBVIOUS
<1>2. \A i \in start + 1..Len(m) : m[i] \in V
  BY <1>1
<1>3. start + 1 \in Int /\ Len(m) \in Int
  BY <1>1
<1>4. /\ SubSeq(m, start + 1, Len(m)) \in Seq(V)
      /\ Len(SubSeq(m, start + 1, Len(m))) = IF start + 1 =< Len(m) THEN Len(m) - (start + 1) + 1 ELSE 0
      /\ \A i \in 1..Len(m) - (start + 1) + 1 :
           SubSeq(m, start + 1, Len(m))[i] = m[start + 1 + i - 1]
  BY <1>2, <1>3, SubSeqProperties
<1>5. Len(SubSeq(m, start + 1, Len(m))) = Len(T)
  BY <1>1, <1>4
<1>6. \A i \in 1..Len(T) : i \in 1..Len(m) - (start + 1) + 1 /\ start + 1 + i - 1 = start + i
  BY <1>1
<1>7. \A i \in 1..Len(T) : SubSeq(m, start + 1, Len(m))[i] = T[i]
  BY <1>4, <1>6
<1>. QED
  BY <1>4, <1>5, <1>7, SeqEqual

\* After a successful llama_decode the logits are those of the last token of the batch.
LEMMA BatchIsEvaluated ==
  ASSUME TypeOK, NEW batch \in Seq(Vocabulary), Len(batch) > 0, Decodes(batch)
  PROVE  /\ memory' \in Seq(Vocabulary) /\ Len(memory') =< ContextSize
         /\ logits' \in 1..Len(memory') /\ logits' = Len(memory')
         /\ memory'[logits'] = batch[Len(batch)]
<1>1. memory \in Seq(Vocabulary) /\ Len(memory) \in Nat /\ Len(batch) \in Nat
  <2>1. memory \in Seq(Vocabulary)
    BY DEF TypeOK
  <2>. QED
    BY <2>1
<1>2. memory' = memory \o batch /\ logits' = Len(memory') /\ Len(memory) + Len(batch) =< ContextSize
  BY DEF Decodes, Fits
<1>3. /\ memory \o batch \in Seq(Vocabulary)
      /\ Len(memory \o batch) = Len(memory) + Len(batch)
      /\ \A i \in 1..Len(memory) + Len(batch) :
           (memory \o batch)[i] = IF i =< Len(memory) THEN memory[i] ELSE batch[i - Len(memory)]
  BY <1>1, ConcatProperties
<1>4. /\ Len(memory) + Len(batch) \in 1..Len(memory) + Len(batch)
      /\ ~(Len(memory) + Len(batch) =< Len(memory))
      /\ Len(memory) + Len(batch) - Len(memory) = Len(batch)
  BY <1>1
<1>5. (memory \o batch)[Len(memory) + Len(batch)] = batch[Len(batch)]
  BY <1>3, <1>4
<1>. QED
  BY <1>2, <1>3, <1>4, <1>5

\* What a call that goes on has told.
LEMMA MovedText ==
  ASSUME TypeOK, NEW t \in Threads, NEW c, Moves(t, c), CallOK(Top(t)), TextOK(Top(t))
  PROVE  TextOK(c)'
<1> DEFINE b == Top(t)
<1>1. b \in Calls
  BY TopIsCall DEF Moves, Starts, DecodesChunk, BeginsToSample, Says, ComesBack, DecodesToken, Frees, Goes
<1>2. /\ b = [at |-> b.at, prompt |-> b.prompt, fed |-> b.fed, said |-> b.said,
              start |-> b.start, lone |-> b.lone]
      /\ b.prompt \in Seq(Vocabulary) /\ b.fed \in Nat
      /\ b.said \in Seq(Vocabulary) /\ b.start \in Nat /\ b.lone \in BOOLEAN
      /\ Len(b.prompt) \in Nat /\ Len(b.said) \in Nat
  BY <1>1 DEF Calls
<1>3. CallOK(b) /\ TextOK(b)
  OBVIOUS
<1>memory. memory \in Seq(Vocabulary) /\ Len(memory) \in Nat
  <2>1. memory \in Seq(Vocabulary)
    BY DEF TypeOK
  <2>. QED
    BY <2>1
<1>. HIDE DEF b
<1>4. CASE Starts(t, c)
  <2>1. PICK prompt \in Prompts :
          c = [b EXCEPT !.at = "prompt", !.prompt = prompt, !.start = Len(memory)]
    BY <1>4 DEF Starts, b
  <2>2. b.fed = 0 /\ UNCHANGED <<memory, logits>>
    BY <1>3, <1>4 DEF Starts, CallOK, b, nativeVars
  <2>3. c = [at |-> "prompt", prompt |-> prompt, fed |-> 0, said |-> b.said,
             start |-> Len(memory), lone |-> b.lone]
    BY <1>2, <2>1, <2>2
  <2>4. Len(SubSeq(prompt, 1, 0)) = 0
    BY SubSeqProperties
  <2>5. Follows(c.start, Told(c))'
    BY <1>memory, <2>2, <2>3, <2>4 DEF Follows, EndsWith, Told
  <2>. QED
    BY <2>3, <2>5 DEF TextOK
<1>5. CASE DecodesChunk(t, c)
  <2> DEFINE chunk == Chunk(b)
             fed == b.fed + Len(chunk)
  <2>1. /\ b.at = "prompt" /\ Decodes(chunk)
        /\ c = [b EXCEPT !.fed = fed] /\ b.fed < Len(b.prompt)
    BY <1>5 DEF DecodesChunk, b
  <2>2. /\ chunk \in Seq(Vocabulary) /\ Len(chunk) \in Nat \ {0}
        /\ fed =< Len(b.prompt)
        /\ \A i \in 1..Len(chunk) : chunk[i] = b.prompt[b.fed + i]
    BY <1>1, <2>1, ChunkIsNext
  <2>3. memory' = memory \o chunk
    BY <2>1 DEF Decodes
  <2>4. /\ logits' \in 1..Len(memory') /\ logits' = Len(memory')
        /\ memory'[logits'] = chunk[Len(chunk)]
    BY <2>1, <2>2, BatchIsEvaluated
  <2>. HIDE DEF chunk
  <2>5. c = [at |-> "prompt", prompt |-> b.prompt, fed |-> fed, said |-> b.said,
             start |-> b.start, lone |-> b.lone]
    BY <1>2, <2>1
  <2>6. fed \in Nat /\ fed > 0 /\ chunk[Len(chunk)] = b.prompt[fed]
    BY <1>2, <2>2
  <2> DEFINE T == SubSeq(b.prompt, 1, b.fed)
             U == SubSeq(b.prompt, 1, fed)
  <2>7. /\ T \in Seq(Vocabulary) /\ Len(T) = b.fed
        /\ \A i \in 1..b.fed : T[i] = b.prompt[i]
    <3>1. \A i \in 1..b.fed : b.prompt[i] \in Vocabulary
      BY <1>2, <2>1
    <3>. QED
      BY <1>2, <3>1, SubSeqProperties
  <2>8. /\ U \in Seq(Vocabulary) /\ Len(U) = fed
        /\ \A i \in 1..fed : U[i] = b.prompt[i]
    <3>1. \A i \in 1..fed : b.prompt[i] \in Vocabulary
      BY <1>2, <2>2, <2>6
    <3>. QED
      BY <1>2, <2>6, <3>1, SubSeqProperties
  <2>. HIDE DEF T, U
  <2>9. ASSUME b.lone PROVE EndsWith(memory', b.start, U)
    <3>1. EndsWith(memory, b.start, T)
      BY <1>3, <2>1, <2>9 DEF TextOK, Told, Follows, T
    <3>2. Len(U) = Len(T) + Len(chunk) /\ \A i \in 1..Len(T) : U[i] = T[i]
      BY SMTT(30), <1>2, <2>2, <2>7, <2>8
    <3>3. \A i \in 1..Len(chunk) : U[Len(T) + i] = chunk[i]
      BY SMTT(30), <1>2, <2>2, <2>7, <2>8
    <3>4. EndsWith(memory \o chunk, b.start, U)
      <4>1. /\ memory \in Seq(Vocabulary) /\ chunk \in Seq(Vocabulary) /\ b.start \in Nat
            /\ T \in Seq(Vocabulary) /\ U \in Seq(Vocabulary)
        BY <1>2, <1>memory, <2>2, <2>7, <2>8
      <4>2. Grows(U, T, chunk)
        BY <3>2, <3>3 DEF Grows
      <4>. QED
        BY <3>1, <4>1, <4>2, TextGrows
    <3>. QED
      BY <2>3, <3>4
  <2>10. c.lone => Follows(c.start, Told(c))'
    BY <2>5, <2>9 DEF Follows, Told, U
  <2>11. Evaluated(c.prompt[c.fed])'
    BY <2>4, <2>5, <2>6 DEF Evaluated
  <2>. QED
    BY <2>5, <2>10, <2>11 DEF TextOK
<1>6. CASE BeginsToSample(t, c)
  <2>1. /\ b.at = "prompt" /\ b.fed = Len(b.prompt)
        /\ c = [b EXCEPT !.at = "sample"] /\ UNCHANGED <<memory, logits>>
    BY <1>6 DEF BeginsToSample, b
  <2>2. c = [at |-> "sample", prompt |-> b.prompt, fed |-> b.fed, said |-> <<>>,
             start |-> b.start, lone |-> b.lone]
    BY <1>2, <1>3, <2>1 DEF CallOK
  <2>3. b.prompt \o <<>> = b.prompt /\ SubSeq(b.prompt, 1, Len(b.prompt)) = b.prompt
    BY <1>2, ConcatEmptySeq, SubSeqFull
  <2>4. Told(c) = b.prompt /\ Told(b) = b.prompt
    BY <2>1, <2>2, <2>3 DEF Told
  <2>5. c.prompt \o c.said # <<>> =>
          Evaluated((c.prompt \o c.said)[Len(c.prompt \o c.said)])'
    <3>1. b.prompt # <<>> => b.fed > 0
      BY <1>2, <2>1
    <3>. QED
      BY <1>3, <2>1, <2>2, <2>3, <3>1 DEF TextOK, Evaluated
  <2>6. c.lone => Follows(c.start, Told(c))'
    BY <1>3, <2>1, <2>2, <2>4 DEF TextOK, Follows, EndsWith
  <2>. QED
    BY <2>2, <2>5, <2>6 DEF TextOK
<1>7. CASE Says(t, c)
  <2>1. PICK token \in Vocabulary, at \in {"callback", "feed"} :
          c = [b EXCEPT !.said = Append(b.said, token), !.at = at]
    BY <1>7 DEF Says, b
  <2>2. b.at = "sample" /\ UNCHANGED <<memory, logits>>
    BY <1>7 DEF Says, b, nativeVars
  <2>3. c = [at |-> at, prompt |-> b.prompt, fed |-> b.fed, said |-> Append(b.said, token),
             start |-> b.start, lone |-> b.lone]
    BY <1>2, <2>1
  <2>4. SubSeq(Append(b.said, token), 1, Len(Append(b.said, token)) - 1) = b.said
    <3>1. Len(Append(b.said, token)) - 1 = Len(b.said)
      BY <1>2
    <3>2. b.said \in Seq(Vocabulary) /\ <<token>> \in Seq(Vocabulary)
      BY <1>2
    <3>3. SubSeq(b.said \o <<token>>, 1, Len(b.said)) = b.said
      BY <3>2, SubSeqOfConcat1, SubSeqFull, LenProperties
    <3>. QED
      BY <1>2, <3>1, <3>3, AppendIsConcat
  <2>5. Told(c) = b.prompt \o b.said /\ Told(b) = b.prompt \o b.said
    BY <2>2, <2>3, <2>4 DEF Told
  <2>6. c.lone => Follows(c.start, Told(c))'
    BY <1>3, <2>2, <2>3, <2>5 DEF TextOK, Follows
  <2>. QED
    BY <2>3, <2>6 DEF TextOK
<1>8. CASE ComesBack(t, c)
  <2>1. /\ b.at = "callback" /\ c = [b EXCEPT !.at = "feed"] /\ UNCHANGED <<memory, logits>>
    BY <1>8 DEF ComesBack, b, nativeVars
  <2>2. c = [at |-> "feed", prompt |-> b.prompt, fed |-> b.fed, said |-> b.said,
             start |-> b.start, lone |-> b.lone]
    BY <1>2, <2>1
  <2>3. Told(c) = Told(b)
    BY <2>1, <2>2 DEF Told
  <2>4. c.lone => Follows(c.start, Told(c))'
    BY <1>3, <2>1, <2>2, <2>3 DEF TextOK, Follows, EndsWith
  <2>. QED
    BY <2>2, <2>4 DEF TextOK
<1>9. CASE DecodesToken(t, c)
  <2> DEFINE n == Len(b.said)
             token == <<b.said[n]>>
  <2>1. b.at = "feed" /\ Decodes(token) /\ c = [b EXCEPT !.at = "sample"]
    BY <1>9 DEF DecodesToken, b
  <2>2. n \in Nat /\ n > 0 /\ b.said[n] \in Vocabulary
    BY <1>2, <1>3, <2>1 DEF CallOK
  <2>3. token \in Seq(Vocabulary) /\ Len(token) = 1 /\ token[1] = b.said[n]
    BY <2>2
  <2>. HIDE DEF token
  <2>4. memory' = memory \o token
    BY <2>1 DEF Decodes
  <2>5. /\ logits' \in 1..Len(memory') /\ logits' = Len(memory')
        /\ memory'[logits'] = b.said[n]
    BY <2>1, <2>3, BatchIsEvaluated
  <2>6. c = [at |-> "sample", prompt |-> b.prompt, fed |-> b.fed, said |-> b.said,
             start |-> b.start, lone |-> b.lone]
    BY <1>2, <2>1
  <2> DEFINE U == b.prompt \o b.said
             front == SubSeq(b.said, 1, n - 1)
             T == b.prompt \o front
  <2>7. /\ U \in Seq(Vocabulary) /\ Len(U) = Len(b.prompt) + n
        /\ \A i \in 1..Len(b.prompt) + n :
             U[i] = IF i =< Len(b.prompt) THEN b.prompt[i] ELSE b.said[i - Len(b.prompt)]
    BY <1>2, ConcatProperties
  <2>8. /\ front \in Seq(Vocabulary) /\ Len(front) = n - 1
        /\ \A i \in 1..n - 1 : front[i] = b.said[i]
    <3>1. \A i \in 1..n - 1 : b.said[i] \in Vocabulary
      BY <1>2
    <3>2. n - 1 \in Int /\ 1 =< n - 1 + 1
      BY <2>2
    <3>. QED
      BY <2>2, <3>1, <3>2, SubSeqProperties
  <2>9. /\ T \in Seq(Vocabulary) /\ Len(T) = Len(b.prompt) + (n - 1)
        /\ \A i \in 1..Len(b.prompt) + (n - 1) :
             T[i] = IF i =< Len(b.prompt) THEN b.prompt[i] ELSE front[i - Len(b.prompt)]
    <3>. HIDE DEF front
    <3>1. /\ T \in Seq(Vocabulary) /\ Len(T) = Len(b.prompt) + Len(front)
          /\ \A i \in 1..Len(b.prompt) + Len(front) :
               T[i] = IF i =< Len(b.prompt) THEN b.prompt[i] ELSE front[i - Len(b.prompt)]
      BY <1>2, <2>8, ConcatProperties
    <3>. QED
      BY <2>8, <3>1
  <2>. HIDE DEF U, T, front
  <2>10. U # <<>> /\ U[Len(U)] = b.said[n]
    <3>. HIDE DEF n
    <3>2. U[Len(b.prompt) + n] = b.said[n]
      <4> DEFINE last == Len(b.prompt) + n
      <4>1. last \in 1..Len(b.prompt) + n /\ ~(last =< Len(b.prompt)) /\ last - Len(b.prompt) = n
        BY <1>2, <2>2
      <4>. HIDE DEF last
      <4>. QED
        BY <2>7, <4>1 DEF last
    <3>3. Len(U) = Len(b.prompt) + n /\ Len(U) # 0
      BY <1>2, <2>2, <2>7
    <3>4. U # <<>>
      BY <2>7, <3>3
    <3>. QED
      BY <3>2, <3>3, <3>4
  <2>11. ASSUME NEW i \in 1..Len(T) PROVE U[i] = T[i]
    <3>1. i \in 1..Len(b.prompt) + n /\ i \in 1..Len(b.prompt) + (n - 1)
      BY <1>2, <2>2, <2>9
    <3>2. ~(i =< Len(b.prompt)) => i - Len(b.prompt) \in 1..n - 1
      BY <1>2, <2>2, <3>1
    <3>. QED
      BY <2>7, <2>8, <2>9, <3>1, <3>2
  <2>12. ASSUME b.lone PROVE EndsWith(memory', b.start, U)
    <3>1. EndsWith(memory, b.start, T)
      BY <1>3, <2>1, <2>12 DEF TextOK, Told, Follows, T, front
    <3>2. /\ Len(U) = Len(T) + Len(token) /\ Len(U) = Len(T) + 1
          /\ \A i \in 1..Len(T) : U[i] = T[i]
      BY <1>2, <2>2, <2>3, <2>7, <2>9, <2>11
    <3>3. \A i \in 1..Len(token) : U[Len(T) + i] = token[i]
      BY <2>3, <2>10, <3>2
    <3>4. EndsWith(memory \o token, b.start, U)
      <4>1. /\ memory \in Seq(Vocabulary) /\ token \in Seq(Vocabulary) /\ b.start \in Nat
            /\ T \in Seq(Vocabulary) /\ U \in Seq(Vocabulary)
        BY <1>2, <1>memory, <2>3, <2>7, <2>9
      <4>2. Grows(U, T, token)
        BY <3>2, <3>3 DEF Grows
      <4>. QED
        BY <3>1, <4>1, <4>2, TextGrows
    <3>. QED
      BY <2>4, <3>4
  <2>13. Told(c) = U /\ c.prompt \o c.said = U
    BY <2>6 DEF Told, U
  <2>14. c.lone => Follows(c.start, Told(c))'
    BY <2>6, <2>12, <2>13 DEF Follows
  <2>15. Evaluated((c.prompt \o c.said)[Len(c.prompt \o c.said)])'
    <3>1. (c.prompt \o c.said)[Len(c.prompt \o c.said)] = b.said[n]
      BY <2>10, <2>13
    <3>. QED
      BY <2>5, <3>1 DEF Evaluated
  <2>. QED
    BY <2>6, <2>14, <2>15 DEF TextOK
<1>10. CASE Frees(t, c)
  <2>1. c = [b EXCEPT !.at = "zero"]
    BY <1>10 DEF Frees, b
  <2>2. c.at = "zero"
    BY <1>2, <2>1
  <2>. QED
    BY <2>2 DEF TextOK
<1>. QED
  BY <1>4, <1>5, <1>6, <1>7, <1>8, <1>9, <1>10 DEF Moves

-----------------------------------------------------------------------------
(* The invariant is kept. *)

LEMMA BeginKeepsInv ==
  ASSUME LlamaInv, fault = "none", NEW t \in Threads,
         NEW at \in {"text", "address", "free"}, Begins(t, at)
  PROVE  LlamaInv'
<1>. USE DEF LlamaInv
<1>1. StacksOK' /\ SamplerInv' /\ LiveInv' /\ UseInv'
  BY BeginKeepsStacks, BeginKeepsSamplers, BeginKeepsUse
<1>2. /\ \A u \in Threads : u # t => stack'[u] = stack[u] /\ Top(u)' = Top(u)
      /\ stack'[t] # <<>> /\ (Top(t)').at = at
  BY TopsOfBegin
<1>3. /\ handle' = "set" /\ UNCHANGED <<opens, live, backend, samplers, memory, logits, fault>>
      /\ calls' = (IF at = "free" THEN calls ELSE calls + 1) /\ calls' =< MaxCalls
      /\ misused' = (misused \/ Overlaps(t) \/ (at = "free" /\ stack[t] # <<>>))
  BY DEF Begins, nativeVars
<1>4. TypeOK'
  <2>1. calls' \in 0..MaxCalls
    BY <1>3, StateNumbers, ConstantNumbers
  <2>2. misused' \in BOOLEAN
    BY <1>3 DEF TypeOK
  <2>. QED
    BY <1>1, <1>3, <2>1, <2>2 DEF TypeOK, StacksOK
<1>5. TextInv'
  <2>. SUFFICES ASSUME ~misused', NEW u \in Threads, stack'[u] # <<>>
                PROVE  TextOK(Top(u))'
    BY DEF TextInv
  <2>1. u = t
    BY <1>2, <1>3 DEF Overlaps
  <2>. QED
    BY <1>2, <2>1 DEF TextOK
<1>6. FaultsNeedMisuse'
  BY <1>3 DEF FaultsNeedMisuse
<1>. QED
  BY <1>1, <1>4, <1>5, <1>6 DEF StacksOK

LEMMA EndKeepsInv ==
  ASSUME LlamaInv, fault = "none", NEW t \in Threads, Ends(t)
  PROVE  LlamaInv'
<1>. USE DEF LlamaInv
<1>1. /\ stack[t] # <<>> /\ Return(t)
      /\ logits' \in {logits, 0}
      /\ handle' = (IF Top(t).at = "zero" THEN "zero" ELSE handle)
      /\ UNCHANGED <<opens, live, backend, memory, calls, fault, misused>>
  BY DEF Ends
<1>2. StacksOK' /\ SamplerInv' /\ LiveInv' /\ UseInv'
  BY <1>1, EndKeepsStacks, EndKeepsSamplers, EndKeepsUse
<1>3. /\ \A u \in Threads : u # t => stack'[u] = stack[u] /\ Top(u)' = Top(u)
      /\ stack'[t] # <<>> => (Top(t)').at = "callback" /\ ~(Top(t)').lone
  BY <1>1, TopsOfEnd
<1>4. TypeOK'
  <2>1. logits' \in 0..Len(memory)
    BY <1>1, StateNumbers
  <2>2. samplers' \in 0..MaxCalls
    <3>1. calls' \in Nat /\ calls' =< MaxCalls
      BY <1>1, StateNumbers
    <3>2. /\ Slots(SamplerPlaces)' \subseteq Slots(PredictPlaces)' /\ IsFiniteSet(Slots(PredictPlaces)')
          /\ samplers' = Cardinality(Slots(SamplerPlaces)')
          /\ Cardinality(Slots(PredictPlaces)') =< calls'
      BY <1>2 DEF SamplerInv, Slots, SamplerPlaces, PredictPlaces
    <3>. QED
      BY <3>1, <3>2, SamplersAreBounded
  <2>3. handle' \in {"none", "set", "zero"}
    BY <1>1 DEF TypeOK
  <2>. QED
    BY <1>1, <1>2, <2>1, <2>2, <2>3 DEF TypeOK, StacksOK
<1>5. TextInv'
  <2>. SUFFICES ASSUME ~misused', NEW u \in Threads, stack'[u] # <<>>
                PROVE  TextOK(Top(u))'
    BY DEF TextInv
  <2>1. u = t
    BY <1>1, <1>3 DEF UseInv
  <2>. QED
    BY <1>3, <2>1 DEF TextOK
<1>6. FaultsNeedMisuse'
  BY <1>1 DEF FaultsNeedMisuse
<1>. QED
  BY <1>2, <1>4, <1>5, <1>6 DEF StacksOK

LEMMA MoveKeepsInv ==
  ASSUME LlamaInv, fault = "none", NEW t \in Threads, NEW c, Moves(t, c)
  PROVE  LlamaInv'
<1>. USE DEF LlamaInv
<1>1. /\ \A u \in Threads : u # t => stack'[u] = stack[u] /\ Top(u)' = Top(u)
      /\ stack[t] # <<>> /\ stack'[t] # <<>> /\ Top(t)' = c
      /\ UNCHANGED <<handle, opens, calls, fault, misused>>
  BY TopsOfMove
<1>2. StacksOK' /\ SamplerInv' /\ LiveInv' /\ UseInv'
  BY MoveKeepsStacks, MoveKeepsSamplers, MoveKeepsUse
<1>3. CallOK(Top(t)) /\ Top(t) \in Calls
  BY <1>1, TopIsOK, TopIsCall
<1>4. memory' \in Seq(Vocabulary) /\ Len(memory') =< ContextSize /\ logits' \in 0..Len(memory')
  <2>1. CASE DecodesChunk(t, c)
    <3>1. Chunk(Top(t)) \in Seq(Vocabulary) /\ Len(Chunk(Top(t))) > 0
      BY <1>3, <2>1, ChunkIsNext DEF DecodesChunk
    <3>. QED
      BY <2>1, <3>1, BatchIsEvaluated DEF DecodesChunk
  <2>2. CASE DecodesToken(t, c)
    <3>1. Top(t).said \in Seq(Vocabulary) /\ Top(t).said # <<>>
      BY <1>3, <2>2 DEF DecodesToken, CallOK, Calls
    <3> DEFINE token == <<Top(t).said[Len(Top(t).said)]>>
    <3>2. token \in Seq(Vocabulary) /\ Len(token) > 0 /\ Decodes(token)
      BY <2>2, <3>1 DEF DecodesToken
    <3>. HIDE DEF token
    <3>. QED
      BY <3>2, BatchIsEvaluated
  <2>3. CASE Frees(t, c)
    <3>1. Len(<<>>) = 0 /\ <<>> \in Seq(Vocabulary)
      OBVIOUS
    <3>. QED
      BY <2>3, <3>1, ConstantNumbers DEF Frees
  <2>4. CASE Starts(t, c) \/ BeginsToSample(t, c) \/ Says(t, c) \/ ComesBack(t, c)
    <3>1. UNCHANGED <<memory, logits>>
      BY <2>4 DEF Starts, BeginsToSample, Says, ComesBack, nativeVars
    <3>. QED
      BY <3>1 DEF TypeOK
  <2>. QED
    BY <2>1, <2>2, <2>3, <2>4 DEF Moves
<1>5. TypeOK'
  <2>1. samplers' \in 0..MaxCalls
    <3>1. calls' \in Nat /\ calls' =< MaxCalls
      BY <1>1, StateNumbers
    <3>2. /\ Slots(SamplerPlaces)' \subseteq Slots(PredictPlaces)' /\ IsFiniteSet(Slots(PredictPlaces)')
          /\ samplers' = Cardinality(Slots(SamplerPlaces)')
          /\ Cardinality(Slots(PredictPlaces)') =< calls'
      BY <1>2 DEF SamplerInv, Slots, SamplerPlaces, PredictPlaces
    <3>. QED
      BY <3>1, <3>2, SamplersAreBounded
  <2>2. opens' \in 0..MaxOpens
    BY <1>1 DEF TypeOK
  <2>3. live' \subseteq Objects /\ backend' \in 0..MaxOpens
    BY <1>2, <2>2, ConstantNumbers DEF LiveInv
  <2>. QED
    BY <1>1, <1>2, <1>4, <2>1, <2>2, <2>3 DEF TypeOK, StacksOK
<1>6. TextInv'
  <2>. SUFFICES ASSUME ~misused', NEW u \in Threads, stack'[u] # <<>>
                PROVE  TextOK(Top(u))'
    BY DEF TextInv
  <2>1. u = t
    BY <1>1 DEF UseInv
  <2>2. TextOK(Top(t))
    BY <1>1 DEF TextInv
  <2>3. TextOK(c)'
    BY <1>3, <2>2, MovedText
  <2>. QED
    BY <1>1, <2>1, <2>3 DEF TextOK, Evaluated, Follows, Told
<1>7. FaultsNeedMisuse'
  BY <1>1 DEF FaultsNeedMisuse
<1>. QED
  BY <1>2, <1>5, <1>6, <1>7 DEF StacksOK

LEMMA OpenKeepsInv ==
  ASSUME LlamaInv, fault = "none", Open
  PROVE  LlamaInv'
<1>. USE DEF LlamaInv
<1>1. /\ LiveInv' /\ UseInv'
      /\ handle' \in {"none", "set"} /\ opens' \in 0..MaxOpens
      /\ \A t \in Threads : stack[t] = <<>> /\ stack'[t] = <<>>
  BY OpenKeepsUse
<1>2. UNCHANGED <<samplers, memory, logits, stack, calls, fault, misused>>
  BY DEF Open
<1>3. live' \subseteq Objects /\ backend' \in 0..MaxOpens
  BY <1>1, ConstantNumbers DEF LiveInv
<1>4. TypeOK'
  BY <1>1, <1>2, <1>3 DEF TypeOK
<1>5. NestInv' /\ CallInv'
  BY <1>2 DEF NestInv, CallInv
<1>6. SamplerInv'
  BY <1>2 DEF SamplerInv, Slots
<1>7. TextInv'
  BY <1>1 DEF TextInv
<1>8. FaultsNeedMisuse'
  BY <1>2 DEF FaultsNeedMisuse
<1>. QED
  BY <1>1, <1>4, <1>5, <1>6, <1>7, <1>8

LEMMA FaultKeepsInv ==
  ASSUME LlamaInv, NEW t \in Threads, NEW kind \in {"freed", "race", "no logits"}, Fails(t, kind)
  PROVE  LlamaInv'
<1>. USE DEF LlamaInv
<1>1. /\ fault' = kind /\ stack[t] # <<>> /\ Top(t).at \notin {"callback", "zero"}
      /\ UNCHANGED <<handle, opens, live, backend, samplers, memory, logits, stack, calls, misused>>
  BY DEF Fails, Faults, nativeVars
<1>2. FaultsNeedMisuse'
  <2>. SUFFICES ASSUME ~misused
                PROVE  /\ kind = "no logits"
                       /\ \E u \in Threads : At(u, "sample") /\ Top(u).prompt = <<>> /\ Top(u).said = <<>>
    BY <1>1 DEF FaultsNeedMisuse, At, Top
  <2>1. /\ handle = "set"
        /\ \A u \in Threads : u # t => stack[u] = <<>>
    BY <1>1 DEF UseInv
  <2>2. live = Objects
    BY <1>1, <2>1 DEF LiveInv, At
  <2>3. kind = "no logits" /\ At(t, "sample") /\ logits = 0
    BY <2>1, <2>2 DEF Fails
  <2>4. TextOK(Top(t)) /\ Top(t) \in Calls
    BY <1>1, TopIsCall DEF TextInv
  <2>5. Top(t).prompt \o Top(t).said = <<>>
    <3>1. \A token : ~Evaluated(token)
      BY <2>3, NothingIsEvaluated
    <3>. QED
      BY <2>3, <2>4, <3>1 DEF TextOK, At
  <2>6. Top(t).prompt \in Seq(Vocabulary) /\ Top(t).said \in Seq(Vocabulary)
    BY <2>4 DEF Calls
  <2>7. Top(t).prompt = <<>> /\ Top(t).said = <<>>
    BY <2>5, <2>6, EmptyConcat
  <2>. QED
    BY <2>3, <2>7
<1>3. TypeOK'
  BY <1>1 DEF TypeOK
<1>4. NestInv' /\ CallInv'
  BY <1>1 DEF NestInv, CallInv
<1>5. SamplerInv'
  BY <1>1 DEF SamplerInv, Slots
<1>6. LiveInv' /\ UseInv'
  BY <1>1 DEF LiveInv, UseInv, At, Top
<1>7. TextInv'
  BY <1>1 DEF TextInv, Top, TextOK, Evaluated, Follows, Told
<1>. QED
  BY <1>2, <1>3, <1>4, <1>5, <1>6, <1>7

LEMMA InitHasInv ==
  ASSUME Init
  PROVE  LlamaInv
<1>. USE DEF Init
<1>1. \A t \in Threads : stack[t] = <<>> /\ Len(stack[t]) = 0
  OBVIOUS
<1>2. \A places : Slots(places) = {}
  BY <1>1 DEF Slots
<1>3. TypeOK
  <2>1. <<>> \in Seq(Vocabulary) /\ <<>> \in Seq(Calls) /\ Len(<<>>) = 0
    OBVIOUS
  <2>2. \A t \in Threads : Len(stack[t]) =< MaxDepth
    <3>1. 0 =< MaxDepth
      BY ConstantNumbers
    <3>. HIDE DEF Init
    <3>. QED
      BY <1>1, <3>1
  <2>3. memory \in Seq(Vocabulary) /\ Len(memory) =< ContextSize /\ logits \in 0..Len(memory)
    BY <2>1, ConstantNumbers
  <2>4. stack \in [Threads -> Seq(Calls)]
    BY <2>1
  <2>5. opens \in 0..MaxOpens /\ backend \in 0..MaxOpens /\ samplers \in 0..MaxCalls /\ calls \in 0..MaxCalls
    BY ConstantNumbers
  <2>. QED
    BY <2>2, <2>3, <2>4, <2>5 DEF TypeOK
<1>4. SamplerInv
  BY <1>2, FS_EmptySet DEF SamplerInv
<1>5. NestInv /\ CallInv
  BY <1>1 DEF NestInv, CallInv
<1>6. LiveInv /\ UseInv /\ TextInv /\ FaultsNeedMisuse
  BY <1>1 DEF LiveInv, UseInv, TextInv, FaultsNeedMisuse, At
<1>. QED
  BY <1>3, <1>4, <1>5, <1>6 DEF LlamaInv

\* The invariant holds in every state of the model.
LEMMA LlamaInvHolds == Spec => []LlamaInv
<1>1. Init => LlamaInv
  BY InitHasInv
<1>2. LlamaInv /\ [Next]_vars => LlamaInv'
  <2>. SUFFICES ASSUME LlamaInv, [Next]_vars
                PROVE  LlamaInv'
    OBVIOUS
  <2>1. CASE Next
    <3>1. fault = "none" /\ TypeOK
      BY <2>1 DEF Next, LlamaInv
    <3>2. Open \/ \E t \in Threads : Outcome(t)
      BY <2>1, <3>1, NextOutcomes
    <3>3. CASE Open
      BY <3>1, <3>3, OpenKeepsInv
    <3>4. CASE \E t \in Threads : Outcome(t)
      <4>1. PICK t \in Threads : Outcome(t)
        BY <3>4
      <4>2. CASE \E at \in {"text", "address", "free"} : Begins(t, at)
        BY <3>1, <4>2, BeginKeepsInv
      <4>3. CASE Ends(t)
        BY <3>1, <4>3, EndKeepsInv
      <4>4. CASE \E kind \in {"freed", "race", "no logits"} : Fails(t, kind)
        BY <4>4, FaultKeepsInv
      <4>5. CASE \E c : Moves(t, c)
        BY <3>1, <4>5, MoveKeepsInv
      <4>. QED
        BY <4>1, <4>2, <4>3, <4>4, <4>5 DEF Outcome
    <3>. QED
      BY <3>2, <3>3, <3>4
  <2>2. CASE UNCHANGED vars
    <3>1. UNCHANGED <<handle, opens, live, backend, samplers, memory, logits, stack, calls, fault, misused>>
      BY <2>2 DEF vars
    <3>2. TypeOK' /\ NestInv' /\ CallInv' /\ SamplerInv'
      BY <3>1 DEF LlamaInv, TypeOK, NestInv, CallInv, SamplerInv, Slots
    <3>3. LiveInv' /\ UseInv'
      BY <3>1 DEF LlamaInv, LiveInv, UseInv, At, Top
    <3>4. TextInv'
      BY <3>1 DEF LlamaInv, TextInv, Top, TextOK, Evaluated, Follows, Told
    <3>5. FaultsNeedMisuse'
      BY <3>1 DEF LlamaInv, FaultsNeedMisuse, At, Top
    <3>. QED
      BY <3>2, <3>3, <3>4, <3>5 DEF LlamaInv
  <2>. QED
    BY <2>1, <2>2
<1>. QED
  BY <1>1, <1>2, PTL DEF Spec

-----------------------------------------------------------------------------
(* The theorems. *)

\* The variables have their types, and the memory fits the context.
THEOREM LlamaTypes == Spec => []TypeOK
<1>1. LlamaInv => TypeOK
  BY DEF LlamaInv
<1>. QED
  BY <1>1, LlamaInvHolds, PTL

(***************************************************************************)
(* A fault of the native code needs misuse, or a prompt without tokens:    *)
(* calls of one thread at a time, with close() outside the callbacks,      *)
(* never meet freed memory or a race (FastAIModel.java's tests of the      *)
(* handle; nativeFree before handle = 0).                                  *)
(***************************************************************************)
THEOREM FaultsOnlyByMisuse == Spec => []FaultsNeedMisuse
<1>1. LlamaInv => FaultsNeedMisuse
  BY DEF LlamaInv
<1>. QED
  BY <1>1, LlamaInvHolds, PTL

(***************************************************************************)
(* Between calls only an open model's objects are allocated: every way out *)
(* of the native predict functions has freed its sampler, every failed     *)
(* nativeInit its model, and nativeFree everything.                        *)
(***************************************************************************)
THEOREM NothingIsLeaked == Spec => []NothingLeaks
<1>1. LlamaInv => NothingLeaks
  <2>. SUFFICES ASSUME LlamaInv, \A t \in Threads : stack[t] = <<>>
                PROVE  /\ samplers = 0
                       /\ live = IF handle = "set" THEN Objects ELSE {}
                       /\ backend = IF handle = "zero" THEN opens - 1 ELSE opens
    BY DEF NothingLeaks
  <2>1. Slots(SamplerPlaces) = {}
    <3>1. Len(<<>>) = 0
      OBVIOUS
    <3>. QED
      BY <3>1 DEF Slots
  <2>2. samplers = 0
    BY <2>1, FS_EmptySet DEF LlamaInv, SamplerInv
  <2>3. \A t \in Threads : ~At(t, "zero")
    BY DEF At
  <2>4. handle \in {"none", "set", "zero"}
    BY DEF LlamaInv, TypeOK
  <2>. QED
    BY <2>2, <2>3, <2>4 DEF LlamaInv, LiveInv
<1>. QED
  BY <1>1, LlamaInvHolds, PTL

(***************************************************************************)
(* Without misuse every sampled token continues the call's own text: the   *)
(* prompt chunk by chunk, then every token said, evaluated behind what the *)
(* context held.                                                           *)
(***************************************************************************)
THEOREM TextContinues == Spec => []SampledAfterOwnText
<1>1. LlamaInv => SampledAfterOwnText
  <2>. SUFFICES ASSUME LlamaInv, NEW t \in Threads, At(t, "sample"), ~misused,
                       Top(t).prompt \o Top(t).said # <<>>
                PROVE  LET own == Top(t).prompt \o Top(t).said IN
                       /\ logits = Len(memory)
                       /\ memory[logits] = own[Len(own)]
                       /\ Top(t).lone => SubSeq(memory, Top(t).start + 1, logits) = own
    BY DEF SampledAfterOwnText
  <2> DEFINE own == Top(t).prompt \o Top(t).said
  <2>1. TextOK(Top(t)) /\ Top(t).at = "sample" /\ Top(t) \in Calls
    BY TopIsCall DEF LlamaInv, TextInv, At
  <2>2. /\ Top(t).prompt \in Seq(Vocabulary) /\ Top(t).said \in Seq(Vocabulary)
        /\ Top(t).start \in Nat
    BY <2>1 DEF Calls
  <2>3. own \in Seq(Vocabulary)
    BY <2>2, ConcatProperties
  <2>4. logits = Len(memory) /\ memory[logits] = own[Len(own)]
    BY <2>1 DEF TextOK, Evaluated
  <2>5. ASSUME Top(t).lone PROVE SubSeq(memory, Top(t).start + 1, logits) = own
    <3>1. EndsWith(memory, Top(t).start, own)
      BY <2>1, <2>5 DEF TextOK, Follows, Told
    <3>2. memory \in Seq(Vocabulary) /\ Len(memory) \in Nat
      <4>1. memory \in Seq(Vocabulary)
        BY DEF LlamaInv, TypeOK
      <4>. QED
        BY <4>1
    <3>. HIDE DEF own
    <3>. QED
      BY <2>2, <2>3, <2>4, <3>1, <3>2, EndIsSubSeq
  <2>. QED
    BY <2>4, <2>5
<1>. QED
  BY <1>1, LlamaInvHolds, PTL
================================================================================
