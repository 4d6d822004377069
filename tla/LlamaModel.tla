----------------------------- MODULE LlamaModel -----------------------------
(***************************************************************************)
(* FastAIModel over llama.cpp: the Java object with its native handle, the *)
(* JNI functions behind it and what llama.h promises of the calls they     *)
(* make.  Threads of the program call predict(),                           *)
(* predictFromMemoryAddress() and close() on one object; the TokenCallback *)
(* is Java code and may call the object again.  Nothing in the class       *)
(* synchronizes.                                                           *)
(*                                                                         *)
(* One action is one call into llama.cpp, or the Java code between two     *)
(* native calls.  The two predict functions are one loop written twice;    *)
(* they differ in where the prompt text lives.  The context's memory is    *)
(* never cleared: a call continues the text of the calls before it.        *)
(*                                                                         *)
(* llama.h promises nothing for two threads in one context, nor for a      *)
(* freed one: such an access is a fault, after which nothing is said.      *)
(***************************************************************************)
EXTENDS Naturals, Sequences

CONSTANTS
  Threads,      \* threads that share the object
  Words,        \* tokens that have a piece of at most 256 bytes
  Wide,         \* tokens whose piece does not fit the 256 byte buffer
  Prompts,      \* token sequences the prompt texts stand for
  ContextSize,  \* n_ctx, in tokens
  ChunkSize,    \* tokens of the prompt per llama_decode (512 in the code)
  MaxTokens,    \* maxTokens of a predict call
  MaxCalls,     \* bound: predict calls
  MaxDepth,     \* bound: calls on one thread's stack
  MaxOpens      \* bound: attempts to open

Vocabulary == Words \cup Wide

ASSUME LlamaAssumption ==
  /\ Words \cap Wide = {}
  /\ Prompts \subseteq Seq(Vocabulary)
  /\ {ContextSize, ChunkSize} \subseteq Nat \ {0}
  /\ {MaxTokens, MaxCalls, MaxDepth, MaxOpens} \subseteq Nat

VARIABLES
  handle,    \* "none" before the object exists; its field: "set", or "zero"
  opens,     \* nativeInit calls made
  live,      \* native objects allocated: "model", "ctx", "box" (the handle struct)
  backend,   \* llama_backend_init calls minus llama_backend_free calls
  samplers,  \* samplers allocated
  memory,    \* tokens the context holds, by position
  logits,    \* position whose logits the context holds, 0 when none
  stack,     \* [Threads -> the calls the thread is in, innermost last]
  calls,     \* predict calls made
  fault,     \* "none", or the undefined behaviour that was met
  misused    \* a call overlapped another thread's, or close() ran in a callback

vars == <<handle, opens, live, backend, samplers, memory, logits, stack,
          calls, fault, misused>>

nativeVars == <<live, backend, samplers, memory, logits>>

Objects == {"model", "ctx", "box"}

(***************************************************************************)
(* A call in progress.  fed counts the prompt tokens decoded, said lists   *)
(* the tokens sampled, start is the length of the memory the call found,   *)
(* and lone says that no call was nested in it.                            *)
(***************************************************************************)
NewCall(at) ==
  [at |-> at, prompt |-> <<>>, fed |-> 0, said |-> <<>>, start |-> 0, lone |-> TRUE]

Init ==
  /\ handle = "none"
  /\ opens = 0
  /\ live = {}
  /\ backend = 0
  /\ samplers = 0
  /\ memory = <<>>
  /\ logits = 0
  /\ stack = [t \in Threads |-> <<>>]
  /\ calls = 0
  /\ fault = "none"
  /\ misused = FALSE

-----------------------------------------------------------------------------
(***************************************************************************)
(* The constructor.  Until it returns no other thread has the object; when *)
(* it throws there is none, and the program may try again.  A failure      *)
(* gives the backend's initialization back in neither case.                *)
(***************************************************************************)
OpenFindsNoModel == UNCHANGED <<handle, live>>

\* Mistake: the return for a missing context forgets the model.
OpenLeavesModel ==
  /\ live' = live \cup {"model"}
  /\ UNCHANGED handle

OpenFindsNoContext ==
  /\ live' = (live \cup {"model"}) \ {"model"}
  /\ UNCHANGED handle

OpenSucceeds ==
  /\ handle' = "set"
  /\ live' = Objects

Open ==
  /\ handle = "none"
  /\ opens < MaxOpens
  /\ opens' = opens + 1
  /\ backend' = backend + 1
  /\ OpenFindsNoModel \/ OpenFindsNoContext \/ OpenSucceeds
  /\ UNCHANGED <<samplers, memory, logits, stack, calls, fault, misused>>

-----------------------------------------------------------------------------
(* The calls of a thread. *)

Top(t) == stack[t][Len(stack[t])]

At(t, where) == stack[t] # <<>> /\ Top(t).at = where

\* The thread runs Java code of the caller: outside every call, or in a callback.
InJava(t) == stack[t] = <<>> \/ At(t, "callback")

\* The thread is inside a native function.
InNative(t) == stack[t] # <<>> /\ Top(t).at \in {"prompt", "sample", "feed"}

SetTop(t, call) == stack' = [stack EXCEPT ![t][Len(stack[t])] = call]

Return(t) == stack' = [stack EXCEPT ![t] = SubSeq(@, 1, Len(@) - 1)]

Overlaps(t) == \E u \in Threads \ {t} : stack[u] # <<>>

Enter(t, call) ==
  /\ InJava(t) /\ Len(stack[t]) < MaxDepth
  /\ stack' = [stack EXCEPT ![t] =
                 Append([i \in DOMAIN @ |-> [@[i] EXCEPT !.lone = FALSE]], call)]

\* Mistake: predict passes its handle on without the test.
HandleUntested == handle # "none"

HandleIsSet == handle = "set"

\* predict() and predictFromMemoryAddress() test the handle and pass its value on.
PredictBegins(t, at) ==
  /\ HandleIsSet
  /\ calls < MaxCalls
  /\ Enter(t, NewCall(at))
  /\ calls' = calls + 1
  /\ misused' = (misused \/ Overlaps(t))
  /\ UNCHANGED <<handle, opens, nativeVars, fault>>

Predict(t) == PredictBegins(t, "text")

PredictFromMemoryAddress(t) == PredictBegins(t, "address")

CloseBegins(t) ==
  /\ handle = "set"
  /\ Enter(t, NewCall("free"))
  /\ misused' = (misused \/ Overlaps(t) \/ stack[t] # <<>>)
  /\ UNCHANGED <<handle, opens, nativeVars, calls, fault>>

-----------------------------------------------------------------------------
(* Native code. *)

FreedFault == IF live # Objects THEN "freed" ELSE "none"

\* What an access to the context by thread t meets.
ContextFault(t) ==
  IF live = Objects /\ \E u \in Threads \ {t} : InNative(u) THEN "race" ELSE FreedFault

Faults(t, kind) ==
  /\ fault' = kind
  /\ UNCHANGED <<handle, opens, nativeVars, stack, calls, misused>>

\* A native step of the call the thread is in: it faults, or Step happens.
Accesses(t, kind, Step) ==
  \/ kind # "none" /\ Faults(t, kind)
  \/ kind = "none" /\ Step /\ UNCHANGED <<handle, opens, live, backend,
                                           calls, fault, misused>>

UsesVocabulary(t, Step) ==
  Accesses(t, FreedFault, Step /\ UNCHANGED <<samplers, memory, logits>>)

UsesContext(t, Step) == Accesses(t, ContextFault(t), Step)

StartsWith(t, prompt) ==
  SetTop(t, [Top(t) EXCEPT !.at = "prompt", !.prompt = prompt, !.start = Len(memory)])

\* The prompt is a copy of a Java string: it is counted and tokenized alike.
Tokenize(t) ==
  /\ At(t, "text")
  /\ UsesVocabulary(t, \E prompt \in Prompts : StartsWith(t, prompt))

(***************************************************************************)
(* The prompt is memory that others may write between the call that counts *)
(* the tokens and the call that stores them: when there are more than were *)
(* counted llama_tokenize stores none and returns a negative number.       *)
(***************************************************************************)
TokenizeShared(t) ==
  /\ At(t, "address")
  /\ UsesVocabulary(t, \E counted, found \in Prompts :
       IF Len(found) > Len(counted) THEN Return(t) ELSE StartsWith(t, found))

\* Mistake: one token more than the context has cells for.
FitsOneMore(batch) == Len(memory) + Len(batch) <= ContextSize + 1

Fits(batch) == Len(memory) + Len(batch) <= ContextSize

\* llama_decode returns 0: the batch follows what the memory holds.
Decodes(batch) ==
  /\ Fits(batch)
  /\ memory' = memory \o batch
  /\ logits' = Len(memory')

(***************************************************************************)
(* llama_decode returns another value: no room, or an error of the         *)
(* backend.  The memory is what it was: after a fatal error or an abort    *)
(* llama.h keeps the ubatches already processed, but a chunk of 512 tokens *)
(* is one ubatch (n_ubatch is 2048), so none was.  llama.h does not say    *)
(* whether the logits are still what they were.                            *)
(***************************************************************************)
DecodeFails ==
  /\ UNCHANGED memory
  /\ logits' \in {logits, 0}

\* Mistake: every chunk is taken from the first token on.
ChunkFromStart(call) ==
  SubSeq(call.prompt, 1,
         IF Len(call.prompt) - call.fed < ChunkSize
         THEN Len(call.prompt) - call.fed ELSE ChunkSize)

Chunk(call) ==
  SubSeq(call.prompt, call.fed + 1,
         IF Len(call.prompt) - call.fed < ChunkSize
         THEN Len(call.prompt) ELSE call.fed + ChunkSize)

\* One turn of the prompt loop; a failure returns without a word to the caller.
DecodePrompt(t) ==
  /\ At(t, "prompt")
  /\ Top(t).fed < Len(Top(t).prompt)
  /\ LET chunk == Chunk(Top(t)) IN
     UsesContext(t,
       /\ \/ /\ Decodes(chunk)
             /\ SetTop(t, [Top(t) EXCEPT !.fed = @ + Len(chunk)])
          \/ DecodeFails /\ Return(t)
       /\ UNCHANGED samplers)

CreateSampler(t) ==
  /\ At(t, "prompt")
  /\ Top(t).fed = Len(Top(t).prompt)
  /\ SetTop(t, [Top(t) EXCEPT !.at = "sample"])
  /\ samplers' = samplers + 1
  /\ UNCHANGED <<handle, opens, live, backend, memory, logits, calls, fault, misused>>

FreeSampler(t) ==
  /\ Return(t)
  /\ samplers' = samplers - 1

LoopEnds(t) ==
  /\ At(t, "sample") /\ Len(Top(t).said) = MaxTokens
  /\ FreeSampler(t)
  /\ UNCHANGED <<handle, opens, live, backend, memory, logits, calls, fault, misused>>

\* llama_sampler_sample reads the logits of the last evaluation, whatever it was.
Sample(t) ==
  /\ At(t, "sample") /\ Len(Top(t).said) < MaxTokens
  /\ IF ContextFault(t) = "none" /\ logits = 0 THEN Faults(t, "no logits")
     ELSE UsesContext(t,
       /\ \/ FreeSampler(t)        \* the end of sequence token
          \/ \E token \in Vocabulary :
               /\ SetTop(t, [Top(t) EXCEPT
                               !.said = Append(@, token),
                               !.at = IF token \in Words THEN "callback" ELSE "feed"])
               /\ UNCHANGED samplers
       /\ UNCHANGED <<memory, logits>>)

\* The callback returns or throws: the loop goes on without asking which.
CallbackReturns(t) ==
  /\ At(t, "callback")
  /\ SetTop(t, [Top(t) EXCEPT !.at = "feed"])
  /\ UNCHANGED <<handle, opens, nativeVars, calls, fault, misused>>

\* Mistake: the loop is left by a return, past the end of the function.
LeaveLoopByReturn(t) == Return(t) /\ UNCHANGED samplers

LeaveLoop(t) == FreeSampler(t)

Feed(t) ==
  /\ At(t, "feed")
  /\ LET token == <<Top(t).said[Len(Top(t).said)]>> IN
     UsesContext(t,
       \/ /\ Decodes(token)
          /\ SetTop(t, [Top(t) EXCEPT !.at = "sample"])
          /\ UNCHANGED samplers
       \/ DecodeFails /\ LeaveLoop(t))

\* nativeFree: a second one of the same handle, or one during a native call, faults.
Free(t) ==
  /\ At(t, "free")
  /\ IF ContextFault(t) # "none" THEN Faults(t, ContextFault(t))
     ELSE /\ live' = {}
          /\ memory' = <<>> /\ logits' = 0
          /\ backend' = backend - 1
          /\ SetTop(t, [Top(t) EXCEPT !.at = "zero"])
          /\ UNCHANGED <<handle, opens, samplers, calls, fault, misused>>

\* close() ends: the field is written after the native objects are gone.
ZeroHandle(t) ==
  /\ At(t, "zero")
  /\ handle' = "zero"
  /\ Return(t)
  /\ UNCHANGED <<opens, nativeVars, calls, fault, misused>>

-----------------------------------------------------------------------------
JavaStep(t) == Predict(t) \/ PredictFromMemoryAddress(t) \/ CloseBegins(t)
                 \/ CallbackReturns(t) \/ ZeroHandle(t)

NativeStep(t) == Tokenize(t) \/ TokenizeShared(t) \/ DecodePrompt(t)
                   \/ CreateSampler(t) \/ Sample(t) \/ Feed(t) \/ LoopEnds(t) \/ Free(t)

Next ==
  /\ fault = "none"
  /\ Open \/ \E t \in Threads : JavaStep(t) \/ NativeStep(t)

Spec == Init /\ [][Next]_vars

-----------------------------------------------------------------------------
Places == {"text", "address", "prompt", "sample", "callback", "feed", "free", "zero"}

Calls ==
  [at : Places, prompt : Seq(Vocabulary), fed : Nat, said : Seq(Vocabulary),
   start : Nat, lone : BOOLEAN]

(***************************************************************************)
(* The variables have their types; the memory never holds more tokens than *)
(* the context has cells, however calls are nested or interleaved.         *)
(***************************************************************************)
TypeOK ==
  /\ handle \in {"none", "set", "zero"}
  /\ opens \in 0..MaxOpens
  /\ live \subseteq Objects
  /\ backend \in 0..MaxOpens
  /\ samplers \in 0..MaxCalls
  /\ memory \in Seq(Vocabulary) /\ Len(memory) <= ContextSize
  /\ logits \in 0..Len(memory)
  /\ stack \in [Threads -> Seq(Calls)]
  /\ \A t \in Threads : Len(stack[t]) <= MaxDepth
  /\ calls \in 0..MaxCalls
  /\ fault \in {"none", "freed", "race", "no logits"}
  /\ misused \in BOOLEAN

(***************************************************************************)
(* A program whose calls do not overlap those of other threads and that    *)
(* does not close the model in a callback never touches freed memory,      *)
(* frees nothing twice and has no two threads in one context; it may nest  *)
(* predictions and call after close().  Such a program samples logits that *)
(* do not exist only for a prompt without tokens.  (The check of the       *)
(* handle in predict and close, the order of nativeFree and handle = 0.)   *)
(***************************************************************************)
FaultsNeedMisuse ==
  fault # "none" =>
    \/ misused
    \/ /\ fault = "no logits"
       /\ \E t \in Threads : At(t, "sample") /\ Top(t).prompt = <<>> /\ Top(t).said = <<>>

(***************************************************************************)
(* A sampled token continues the call's own text: when a call that is      *)
(* alone samples, the memory holds, after what it held when the call       *)
(* began, the whole prompt in order and every token said since, long       *)
(* pieces included, and the logits are those of the last of them.  With    *)
(* predictions nested in its callbacks a call's own last token still is    *)
(* the last in the memory.  (The chunk loop, and the llama_decode after    *)
(* the callback.)                                                          *)
(***************************************************************************)
SampledAfterOwnText ==
  \A t \in Threads :
    (At(t, "sample") /\ ~misused) =>
      LET own == Top(t).prompt \o Top(t).said IN
      own # <<>> =>
        /\ logits = Len(memory)
        /\ memory[logits] = own[Len(own)]
        /\ Top(t).lone => SubSeq(memory, Top(t).start + 1, logits) = own

(***************************************************************************)
(* When no call is in progress nothing is left allocated but the objects   *)
(* of an open model: every way out of a prediction frees its sampler, a    *)
(* constructor that throws frees the model, and close() frees all.  The    *)
(* backend keeps one initialization per constructor that threw.            *)
(***************************************************************************)
NothingLeaks ==
  (fault = "none" /\ \A t \in Threads : stack[t] = <<>>) =>
    /\ samplers = 0
    /\ live = IF handle = "set" THEN Objects ELSE {}
    /\ backend = IF handle = "zero" THEN opens - 1 ELSE opens
=============================================================================
