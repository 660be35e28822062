---------------------------- MODULE ToolAgentLoop ----------------------------
(***************************************************************************)
(* ToolAgentLoop.run: one rollout as a state machine.  It generates with   *)
(* the server, calls the tools the model asked for (or the interaction),   *)
(* appends their answers as an observation and generates again, until a    *)
(* limit, an answer without tool calls, a timeout or an exception.         *)
(*                                                                         *)
(* A token is the turn it comes from: 0 in the prompt, k > 0 when turn k   *)
(* generated it, -k in the observation after turn k.  The log-probability  *)
(* of a token of turn k is k, the filler 0.0 of an observation is 0.       *)
(* Images, messages, tool rewards and turn scores are left out: they are   *)
(* handed on and change no decision.                                       *)
(***************************************************************************)
EXTENDS Integers, Sequences

CONSTANTS
    PromptLength,       \* rollout.prompt_length
    ResponseLength,     \* rollout.response_length
    PadToken,           \* tokenizer.pad_token_id
    MaxParallelCalls,   \* multi_turn.max_parallel_calls
    MaxCalls,           \* bound: tool calls the parser finds in one turn
    MaxObservation,     \* bound: tokens of one observation
    Settings            \* the settings a rollout may run under

(* One choice of settings: whether an interaction_config_path is set,       *)
(* whether generate_timeout_s is (it bounds a tool phase too), whether the  *)
(* server may return no token (an aborted request), the limits on the       *)
(* turns, 0 for None, the tokens of the rollout's prompt and the server's   *)
(* max_model_len.                                                           *)
Setting ==
    [interactive: BOOLEAN, phaseTimeout: BOOLEAN, emptyGenerations: BOOLEAN,
     maxAssistantTurns: Nat, maxUserTurns: Nat, promptTokens: Nat, maxModelLen: Nat]

ASSUME ConstantsAssumption ==
    /\ PromptLength \in Nat /\ ResponseLength \in Nat \ {0}
    /\ PadToken \in Int
    /\ MaxParallelCalls \in Nat \ {0} /\ MaxCalls \in Nat
    /\ MaxObservation \in Nat \ {0}
    /\ Settings \subseteq Setting

VARIABLES
    settings,        \* one of Settings, the same throughout
    phase,           \* AgentState, with "cancelling", "terminated" and "raised"
    promptIds,       \* agent_data.prompt_ids: the prompt and all that follows
    mask,            \* agent_data.response_mask
    logprobs,        \* agent_data.response_logprobs
    assistantTurns,
    userTurns,
    calls,           \* state of each tool call of the turn
    instances        \* tool instances created and not released, <<turn, call>>

vars == <<settings, phase, promptIds, mask, logprobs, assistantTurns, userTurns, calls, instances>>

Prompt == 0
Tokens(n, t) == [j \in 1..n |-> t]
Least(a, b) == IF a <= b THEN a ELSE b
Greatest(a, b) == IF a <= b THEN b ELSE a

Init ==
    /\ settings \in Settings
    /\ phase = "pending"
    /\ promptIds = <<>> /\ mask = <<>> /\ logprobs = <<>>
    /\ assistantTurns = 0 /\ userTurns = 0
    /\ calls = <<>> /\ instances = {}

(* _handle_pending_state: the chat template of the prompt.                  *)
Start ==
    /\ phase = "pending"
    /\ promptIds' = Tokens(settings.promptTokens, Prompt)
    /\ phase' = "generating"
    /\ UNCHANGED <<settings, mask, logprobs, assistantTurns, userTurns, calls, instances>>

-----------------------------------------------------------------------------
(* max_tokens of the server's generate: what the configured lengths leave,  *)
(* clamped to the room in the model's context.  A prompt longer than the    *)
(* context raises, and so does the engine on max_tokens of 0.               *)
Budget ==
    LET room == settings.maxModelLen - Len(promptIds)
        configured == Least(ResponseLength, PromptLength + ResponseLength - Len(promptIds))
    IN  Greatest(0, Least(configured, room))

(* The limits that end the rollout, after turn t made the response n long.  *)
LimitReached(n, t) ==
    \/ n >= ResponseLength
    \/ settings.maxAssistantTurns > 0 /\ t >= settings.maxAssistantTurns
    \/ settings.maxUserTurns > 0 /\ userTurns >= settings.maxUserTurns

(* The state after k tool calls were found in the turn.                     *)
AfterTurn(k) ==
    IF k > 0 THEN "tools" ELSE IF settings.interactive THEN "interacting" ELSE "terminated"

(* _handle_generating_state, from the server's answer of n tokens on.       *)
Generate ==
    /\ phase = "generating"
    /\ Budget > 0
    /\ \E n \in 0..Budget :
           /\ n = 0 => settings.emptyGenerations
           /\ LET t == assistantTurns + 1
              IN  /\ promptIds' = promptIds \o Tokens(n, t)
                  /\ mask' = mask \o Tokens(n, 1)
                  /\ logprobs' = logprobs \o Tokens(n, t)
                  /\ assistantTurns' = t
                  /\ \/ /\ LimitReached(Len(mask) + n, t)
                        /\ phase' = "terminated"
                        /\ calls' = <<>>
                     \/ /\ ~LimitReached(Len(mask) + n, t)
                        /\ \E k \in 0..(IF n = 0 THEN 0 ELSE MaxCalls) :
                               /\ phase' = AfterTurn(k)
                               /\ calls' = Tokens(Least(k, MaxParallelCalls), "new")
    /\ UNCHANGED <<settings, userTurns, instances>>

(* A timeout, no room in the model's context or a failing server: generate  *)
(* raises and so does run.                                                  *)
GenerateRaises ==
    /\ phase = "generating"
    /\ phase' = "raised"
    /\ UNCHANGED <<settings, promptIds, mask, logprobs, assistantTurns, userTurns, calls, instances>>

-----------------------------------------------------------------------------
(* _call_tool, call c of the turn: unknown tools and malformed arguments    *)
(* are answered without an instance; otherwise one is created.              *)
Instance(c) == <<assistantTurns, c>>

CallMalformed(c) ==
    /\ phase = "tools"
    /\ calls[c] = "new"
    /\ calls' = [calls EXCEPT ![c] = "done"]
    /\ UNCHANGED <<settings, phase, promptIds, mask, logprobs, assistantTurns, userTurns, instances>>

CreateInstance(c) ==
    /\ phase = "tools"
    /\ calls[c] = "new"
    /\ calls' = [calls EXCEPT ![c] = "executing"]
    /\ instances' = instances \cup {Instance(c)}
    /\ UNCHANGED <<settings, phase, promptIds, mask, logprobs, assistantTurns, userTurns>>

(* execute returns, raises, exceeds tool_call_timeout_s or is cancelled:    *)
(* the finally clause releases the instance.                                *)
Mut_ReleaseUnlessCancelled(c) ==
    /\ phase \in {"tools", "cancelling"}
    /\ calls[c] = "executing"
    /\ calls' = [calls EXCEPT ![c] = "done"]
    /\ instances' = IF phase = "tools" THEN instances \ {Instance(c)} ELSE instances
    /\ UNCHANGED <<settings, phase, promptIds, mask, logprobs, assistantTurns, userTurns>>
ExecuteEnds(c) ==
    /\ phase \in {"tools", "cancelling"}
    /\ calls[c] = "executing"
    /\ calls' = [calls EXCEPT ![c] = "done"]
    /\ instances' = instances \ {Instance(c)}
    /\ UNCHANGED <<settings, phase, promptIds, mask, logprobs, assistantTurns, userTurns>>

AllDone == \A c \in DOMAIN calls : calls[c] = "done"

(* The wait on the gathered calls times out: they are cancelled, and it     *)
(* returns when the last one has ended.                                     *)
ToolPhaseTimesOut ==
    /\ phase = "tools"
    /\ settings.phaseTimeout
    /\ ~AllDone
    /\ calls' = [c \in DOMAIN calls |-> IF calls[c] = "new" THEN "done" ELSE calls[c]]
    /\ phase' = "cancelling"
    /\ UNCHANGED <<settings, promptIds, mask, logprobs, assistantTurns, userTurns, instances>>

ToolPhaseCancelled ==
    /\ phase = "cancelling"
    /\ AllDone
    /\ phase' = "terminated"
    /\ UNCHANGED <<settings, promptIds, mask, logprobs, assistantTurns, userTurns, calls, instances>>

-----------------------------------------------------------------------------
(* The observation of n tokens is appended to the rollout.                  *)
Mut_ObservationMarkedGenerated(n) ==
    /\ promptIds' = promptIds \o Tokens(n, -assistantTurns)
    /\ mask' = mask \o Tokens(n, 1)
    /\ logprobs' = IF logprobs = <<>> THEN logprobs ELSE logprobs \o Tokens(n, 0)
    /\ userTurns' = userTurns + 1
Mut_ObservationNotInPrompt(n) ==
    /\ promptIds' = promptIds
    /\ mask' = mask \o Tokens(n, 0)
    /\ logprobs' = IF logprobs = <<>> THEN logprobs ELSE logprobs \o Tokens(n, 0)
    /\ userTurns' = userTurns + 1
Mut_ObservationWithoutLogprobs(n) ==
    /\ promptIds' = promptIds \o Tokens(n, -assistantTurns)
    /\ mask' = mask \o Tokens(n, 0)
    /\ logprobs' = logprobs
    /\ userTurns' = userTurns + 1
Mut_ObservationDropped(n) ==
    /\ promptIds' = promptIds
    /\ mask' = mask
    /\ logprobs' = logprobs
    /\ userTurns' = userTurns + 1
Observe(n) ==
    /\ promptIds' = promptIds \o Tokens(n, -assistantTurns)
    /\ mask' = mask \o Tokens(n, 0)
    /\ logprobs' = IF logprobs = <<>> THEN logprobs ELSE logprobs \o Tokens(n, 0)
    /\ userTurns' = userTurns + 1

(* _handle_processing_tools_state, from the calls' answers on: an           *)
(* observation that does not fit ends the rollout instead.                  *)
Mut_ObservationMayFill ==
    /\ phase = "tools"
    /\ AllDone
    /\ \E n \in 1..MaxObservation :
           \/ /\ Len(mask) + n > ResponseLength
              /\ phase' = "terminated"
              /\ UNCHANGED <<promptIds, mask, logprobs, userTurns>>
           \/ /\ Len(mask) + n <= ResponseLength
              /\ Observe(n)
              /\ phase' = "generating"
    /\ UNCHANGED <<settings, assistantTurns, calls, instances>>
Mut_ObserveThenCheck ==
    /\ phase = "tools"
    /\ AllDone
    /\ \E n \in 1..MaxObservation :
           /\ Observe(n)
           /\ phase' = IF Len(mask) + n >= ResponseLength THEN "terminated" ELSE "generating"
    /\ UNCHANGED <<settings, assistantTurns, calls, instances>>
Mut_RetryTools ==
    /\ phase = "tools"
    /\ AllDone
    /\ \E n \in 1..MaxObservation :
           \/ /\ Len(mask) + n >= ResponseLength
              /\ phase' = "tools"
              /\ UNCHANGED <<promptIds, mask, logprobs, userTurns>>
           \/ /\ Len(mask) + n < ResponseLength
              /\ Observe(n)
              /\ phase' = "generating"
    /\ UNCHANGED <<settings, assistantTurns, calls, instances>>
ToolsAnswered ==
    /\ phase = "tools"
    /\ AllDone
    /\ \E n \in 1..MaxObservation :
           \/ /\ Len(mask) + n >= ResponseLength
              /\ phase' = "terminated"
              /\ UNCHANGED <<promptIds, mask, logprobs, userTurns>>
           \/ /\ Len(mask) + n < ResponseLength
              /\ Observe(n)
              /\ phase' = "generating"
    /\ UNCHANGED <<settings, assistantTurns, calls, instances>>

(* An answer with an image for a model without a processor, or with a       *)
(* video: the loop over the answers raises.                                 *)
ToolPhaseRaises ==
    /\ phase = "tools"
    /\ AllDone
    /\ phase' = "raised"
    /\ UNCHANGED <<settings, promptIds, mask, logprobs, assistantTurns, userTurns, calls, instances>>

(* _handle_interacting_state.                                               *)
Interact ==
    /\ phase = "interacting"
    /\ \E n \in 1..MaxObservation : Observe(n)
    /\ phase' \in {"generating", "terminated"}
    /\ UNCHANGED <<settings, assistantTurns, calls, instances>>

InteractionRaises ==
    /\ phase = "interacting"
    /\ phase' = "raised"
    /\ UNCHANGED <<settings, promptIds, mask, logprobs, assistantTurns, userTurns, calls, instances>>

Finished == phase \in {"terminated", "raised"} /\ UNCHANGED vars

(* The loop's own steps, and all of them with what an answer may break.     *)
Step ==
    \/ Start
    \/ Generate \/ GenerateRaises
    \/ \E c \in DOMAIN calls : CallMalformed(c) \/ CreateInstance(c) \/ ExecuteEnds(c)
    \/ ToolPhaseTimesOut \/ ToolPhaseCancelled
    \/ ToolsAnswered
    \/ Interact \/ InteractionRaises

Next == Step \/ ToolPhaseRaises \/ Finished

Spec == Init /\ [][Next]_vars

(* Every await of the loop returns: a tool call has a timeout, the server   *)
(* and the interaction answer or fail.  No answer need be one that raises.  *)
FairSpec == Spec /\ WF_vars(Step)

-----------------------------------------------------------------------------
(* What run returns and _agent_loop_postprocess pads to ResponseLength.     *)
Truncated(s) == SubSeq(s, 1, Least(Len(s), ResponseLength))
Padded(s, pad) == [j \in 1..ResponseLength |-> IF j <= Len(s) THEN s[j] ELSE pad]

(* prompt_ids[-n:], which is the whole list when n is 0.                    *)
LastTokens(n) == IF n = 0 THEN promptIds ELSE SubSeq(promptIds, Len(promptIds) - n + 1, Len(promptIds))

OutputPrompt == SubSeq(promptIds, 1, Len(promptIds) - Len(mask))
OutputResponse == Truncated(LastTokens(Len(mask)))
Attention == [j \in 1..ResponseLength |-> IF j <= Len(OutputResponse) THEN 1 ELSE 0]
OutputMask ==
    [j \in 1..ResponseLength |-> Padded(Truncated(mask), PadToken)[j] * Attention[j]]
OutputLogprobs == Padded(Truncated(logprobs), 0)

(* The rollout reaches the trainer: without any response token the padding  *)
(* of the empty mask raises.                                                *)
Returned == phase = "terminated" /\ mask # <<>>

-----------------------------------------------------------------------------
TypeOK ==
    /\ settings \in Settings
    /\ phase \in {"pending", "generating", "tools", "cancelling", "interacting",
                  "terminated", "raised"}
    /\ promptIds \in Seq(Int)
    /\ mask \in Seq({0, 1})
    /\ logprobs \in Seq(Nat)
    /\ assistantTurns \in Nat /\ userTurns \in Nat
    /\ calls \in Seq({"new", "executing", "done"})
    /\ instances \subseteq Nat \X Nat

(* The mask the trainer receives is 1 at exactly the response tokens the    *)
(* model generated, in spite of truncation, padding and empty turns.        *)
MaskMarksGenerated ==
    Returned =>
        \A j \in 1..ResponseLength :
            OutputMask[j] = 1 <=> j <= Len(OutputResponse) /\ OutputResponse[j] > 0

(* The prompt and the response the trainer receives are cut where the       *)
(* response begins, whatever was truncated or left empty.                   *)
ResponseHasNoPrompt ==
    Returned =>
        /\ \A j \in DOMAIN OutputPrompt : OutputPrompt[j] = Prompt
        /\ \A j \in DOMAIN OutputResponse : OutputResponse[j] # Prompt

(* A log-probability the trainer uses is that of the token it stands next   *)
(* to, if the server never answers with no token.                           *)
LogprobsBelongToTokens ==
    Returned /\ ~settings.emptyGenerations =>
        \A j \in 1..ResponseLength :
            OutputMask[j] = 1 => OutputLogprobs[j] = OutputResponse[j]

(* get_assistant_turn_ranges may take every run of 1s for one assistant     *)
(* turn: two generations never touch, and they stand in order.              *)
RunsAreTurns ==
    Returned =>
        /\ \A j \in 1..(ResponseLength - 1) :
               OutputMask[j] = 1 /\ OutputMask[j + 1] = 1 =>
                   OutputResponse[j] = OutputResponse[j + 1]
        /\ \A j, k \in 1..ResponseLength :
               j < k /\ OutputMask[j] = 1 /\ OutputMask[k] = 1 =>
                   OutputResponse[j] <= OutputResponse[k]

(* With tools only and a server that never answers with no token, the last  *)
(* token of the response is generated, so that the terminal reward on it    *)
(* reaches the model.                                                       *)
EndsWithGenerated ==
    phase = "terminated" /\ ~settings.interactive /\ ~settings.emptyGenerations =>
        OutputResponse # <<>> /\ OutputResponse[Len(OutputResponse)] > 0

(* With tools only, a generation is requested only when the response has    *)
(* room for a token the trainer will see; and when the prompt and the       *)
(* context have the configured lengths, the server has a budget for it.     *)
RoomToGenerate ==
    phase = "generating" /\ ~settings.interactive =>
        /\ Len(mask) < ResponseLength
        /\ settings.promptTokens <= PromptLength /\ PromptLength + ResponseLength <= settings.maxModelLen =>
               Budget > 0

(* Whatever ended the tool calls, no instance outlives its tool phase.      *)
ToolsReleased ==
    phase \notin {"tools", "cancelling"} => instances = {}

(* Every rollout ends, also with no limit on the turns.                     *)
Terminates == <>(phase \in {"terminated", "raised"})
==============================================================================
