------------------------- MODULE ToolAgentLoopProofs -------------------------
(***************************************************************************)
(* For any lengths, limits and numbers of turns: the response, its mask    *)
(* and the log-probabilities stay aligned with the prompt, the runs of the *)
(* mask are the turns, there is room for what is generated, a response ends*)
(* with a generated token and no tool instance is left behind.             *)
(***************************************************************************)
EXTENDS ToolAgentLoop, SequenceTheorems, TLAPS

(* Where the response begins in promptIds.                                  *)
Offset == Len(promptIds) - Len(mask)

(* The prompt is in front, what follows it is the model's or the tools',    *)
(* and the mask tells which.                                                *)
Aligned ==
    /\ Len(mask) <= Len(promptIds)
    /\ \A j \in 1..Offset : promptIds[j] = Prompt
    /\ \A j \in 1..Len(mask) :
           /\ promptIds[Offset + j] # Prompt
           /\ mask[j] = 1 <=> promptIds[Offset + j] > 0

Progress ==
    /\ phase = "pending" => promptIds = <<>> /\ mask = <<>>
    /\ phase \in {"tools", "cancelling", "interacting", "terminated"} =>
           assistantTurns > 0

IInv == TypeOK /\ Aligned /\ Progress

(* A run of equal tokens.                                                   *)
LEMMA TokensProperties ==
    ASSUME NEW S, NEW n \in Nat, NEW t \in S
    PROVE  /\ Tokens(n, t) \in Seq(S)
           /\ Len(Tokens(n, t)) = n
           /\ \A j \in 1..n : Tokens(n, t)[j] = t
BY DEF Tokens

(* Both lists grow by the same number of tokens, marked as what they are.   *)
LEMMA GrowAligned ==
    ASSUME promptIds \in Seq(Int), mask \in Seq({0, 1}), Aligned,
           NEW n \in Nat, NEW t \in Int, t # 0, NEW b \in {0, 1}, b = 1 <=> t > 0,
           promptIds' = promptIds \o Tokens(n, t), mask' = mask \o Tokens(n, b)
    PROVE  /\ Aligned'
           /\ promptIds' \in Seq(Int) /\ mask' \in Seq({0, 1})
           /\ Len(mask') = Len(mask) + n
<1>1. /\ promptIds' \in Seq(Int)
      /\ Len(promptIds') = Len(promptIds) + n
      /\ \A j \in 1..Len(promptIds) : promptIds'[j] = promptIds[j]
      /\ \A j \in (Len(promptIds) + 1)..(Len(promptIds) + n) : promptIds'[j] = t
  <2>1. promptIds' \in Seq(Int) /\ Len(promptIds') = Len(promptIds) + n
      BY DEF Tokens
  <2>2. \A j \in 1..Len(promptIds) : promptIds'[j] = promptIds[j]
      BY DEF Tokens
  <2>3. \A j \in (Len(promptIds) + 1)..(Len(promptIds) + n) : promptIds'[j] = t
      BY DEF Tokens
  <2> QED
      BY <2>1, <2>2, <2>3
<1>2. /\ mask' \in Seq({0, 1})
      /\ Len(mask') = Len(mask) + n
      /\ \A j \in 1..Len(mask) : mask'[j] = mask[j]
      /\ \A j \in (Len(mask) + 1)..(Len(mask) + n) : mask'[j] = b
  <2>1. mask' \in Seq({0, 1}) /\ Len(mask') = Len(mask) + n
      BY DEF Tokens
  <2>2. \A j \in 1..Len(mask) : mask'[j] = mask[j]
      BY DEF Tokens
  <2>3. \A j \in (Len(mask) + 1)..(Len(mask) + n) : mask'[j] = b
      BY DEF Tokens
  <2> QED
      BY <2>1, <2>2, <2>3
<1>3. Len(promptIds) \in Nat /\ Len(mask) \in Nat /\ Len(mask) <= Len(promptIds)
    BY LenProperties DEF Aligned
<1>4. Offset' = Offset /\ Offset \in Nat
    BY <1>1, <1>2, <1>3 DEF Offset
<1>5. \A j \in 1..Offset' : promptIds'[j] = Prompt
    BY <1>1, <1>3, <1>4 DEF Aligned, Offset
<1>6. ASSUME NEW j \in 1..Len(mask')
      PROVE  /\ promptIds'[Offset' + j] # Prompt
             /\ (mask'[j] = 1 <=> promptIds'[Offset' + j] > 0)
  <2>1. CASE j \in 1..Len(mask)
    <3>1. Offset + j \in 1..Len(promptIds)
        BY <2>1, <1>3, <1>4 DEF Offset
    <3> QED
        BY <2>1, <3>1, <1>1, <1>2, <1>4 DEF Aligned
  <2>2. CASE j \in (Len(mask) + 1)..(Len(mask) + n)
    <3>1. Offset + j \in (Len(promptIds) + 1)..(Len(promptIds) + n)
        BY <2>2, <1>3, <1>4 DEF Offset
    <3> QED
        BY <2>2, <3>1, <1>1, <1>2, <1>4 DEF Prompt
  <2>3. j \in 1..(Len(mask) + n)
      BY <1>2
  <2>4. j \in 1..Len(mask) \/ j \in (Len(mask) + 1)..(Len(mask) + n)
      BY <2>3, <1>3
  <2> QED
      BY <2>1, <2>2, <2>4, Zenon
<1>7. Len(mask') <= Len(promptIds')
    BY <1>1, <1>2, <1>3
<1>8. Aligned'
    BY <1>5, <1>6, <1>7 DEF Aligned
<1> QED
    BY <1>1, <1>2, <1>8

USE ConstantsAssumption

LEMMA InitInv == Init => IInv
<1> SUFFICES ASSUME Init PROVE IInv
    OBVIOUS
<1>1. promptIds = <<>> /\ mask = <<>> /\ phase = "pending"
    BY DEF Init
<1>2. Len(promptIds) = 0 /\ Len(mask) = 0
    BY <1>1
<1>3. Aligned
    BY <1>2 DEF Aligned, Offset
<1>4. TypeOK /\ Progress
    BY <1>1 DEF Init, TypeOK, Progress
<1> QED
    BY <1>3, <1>4 DEF IInv

(* What the arithmetic uses of the settings.                                *)
LEMMA SettingTyped ==
    ASSUME IInv
    PROVE  settings.promptTokens \in Nat /\ settings.maxModelLen \in Nat
BY DEF IInv, TypeOK, Setting

(* The budget is a number of tokens.                                        *)
LEMMA BudgetTyped == ASSUME IInv PROVE Budget \in Nat
<1>1. Len(promptIds) \in Nat /\ settings.maxModelLen \in Nat
    BY SettingTyped, LenProperties DEF IInv, TypeOK
<1> QED
    BY <1>1 DEF Budget, Least, Greatest

LEMMA StartInv == ASSUME IInv, Start PROVE IInv'
<1> USE DEF IInv
<1>1. /\ mask = <<>> /\ mask' = <<>> /\ phase' = "generating"
      /\ promptIds' = Tokens(settings.promptTokens, Prompt)
    BY DEF Start, Progress
<1>2. /\ promptIds' \in Seq(Int) /\ Len(promptIds') = settings.promptTokens
      /\ \A j \in 1..settings.promptTokens : promptIds'[j] = Prompt
  <2>1. Prompt \in Int /\ settings.promptTokens \in Nat
      BY SettingTyped DEF Prompt
  <2>2. /\ Tokens(settings.promptTokens, Prompt) \in Seq(Int)
        /\ Len(Tokens(settings.promptTokens, Prompt)) = settings.promptTokens
        /\ \A j \in 1..settings.promptTokens : Tokens(settings.promptTokens, Prompt)[j] = Prompt
      BY <2>1, TokensProperties
  <2> QED
      BY <1>1, <2>2
<1>3. Len(mask') = 0
    BY <1>1
<1>4. Aligned'
    BY <1>2, <1>3 DEF Aligned, Offset
<1>5. TypeOK'
    BY <1>1, <1>2 DEF Start, TypeOK
<1>6. Progress'
    BY <1>1 DEF Progress
<1> QED
    BY <1>4, <1>5, <1>6

(* A generated turn.                                                        *)
LEMMA GenerateInv == ASSUME IInv, Generate PROVE IInv'
<1> USE DEF IInv
<1>0. Len(mask) \in Nat /\ Len(promptIds) \in Nat
    BY LenProperties DEF TypeOK
<1>1. PICK n \in 0..Budget :
          /\ n = 0 => settings.emptyGenerations
          /\ promptIds' = promptIds \o Tokens(n, assistantTurns + 1)
          /\ mask' = mask \o Tokens(n, 1)
          /\ logprobs' = logprobs \o Tokens(n, assistantTurns + 1)
          /\ assistantTurns' = assistantTurns + 1
          /\ \/ phase' = "terminated" /\ calls' = <<>>
             \/ \E k \in 0..(IF n = 0 THEN 0 ELSE MaxCalls) :
                    /\ phase' = AfterTurn(k)
                    /\ calls' = Tokens(Least(k, MaxParallelCalls), "new")
    BY DEF Generate
<1>2. n \in Nat /\ assistantTurns \in Nat
    BY <1>1, BudgetTyped DEF TypeOK
<1>3. /\ Aligned' /\ promptIds' \in Seq(Int) /\ mask' \in Seq({0, 1})
      /\ Len(mask') = Len(mask) + n
  <2>1. /\ assistantTurns + 1 \in Int /\ assistantTurns + 1 # 0 /\ 1 \in {0, 1}
        /\ 1 = 1 <=> assistantTurns + 1 > 0
      BY <1>2
  <2>2. promptIds \in Seq(Int) /\ mask \in Seq({0, 1})
      BY DEF TypeOK
  <2> HIDE DEF IInv
  <2> QED
      BY <2>1, <2>2, <1>1, <1>2, GrowAligned DEF IInv
<1>4. logprobs' \in Seq(Nat)
    BY <1>1, <1>2, TokensProperties DEF TypeOK
<1>5. phase' \in {"tools", "interacting", "terminated"}
    BY <1>1 DEF AfterTurn
<1>6. calls' \in Seq({"new", "executing", "done"})
  <2>1. CASE calls' = <<>>
      BY <2>1
  <2>2. ASSUME NEW k \in 0..(IF n = 0 THEN 0 ELSE MaxCalls),
               calls' = Tokens(Least(k, MaxParallelCalls), "new")
        PROVE  calls' \in Seq({"new", "executing", "done"})
    <3>1. Least(k, MaxParallelCalls) \in Nat
        BY DEF Least
    <3> QED
        BY <2>2, <3>1, TokensProperties
  <2> QED
      BY <1>1, <2>1, <2>2
<1>7. TypeOK'
    BY <1>1, <1>2, <1>3, <1>4, <1>5, <1>6, SMTT(20) DEF TypeOK, Generate
<1>8. Progress'
    BY <1>0, <1>1, <1>2, <1>3, <1>5 DEF Progress
<1> QED
    BY <1>3, <1>7, <1>8

(* An observation, for both its callers.                                    *)
LEMMA ObserveInv ==
    ASSUME IInv, assistantTurns > 0, NEW n \in 1..MaxObservation, Observe(n),
           phase' \in {"generating", "terminated"},
           UNCHANGED <<settings, assistantTurns, calls, instances>>
    PROVE  IInv'
<1> USE DEF IInv
<1>1. n \in Nat /\ -assistantTurns \in Int /\ -assistantTurns # 0 /\ assistantTurns \in Nat /\ n > 0
    BY DEF TypeOK
<1>2. /\ promptIds' = promptIds \o Tokens(n, -assistantTurns)
      /\ mask' = mask \o Tokens(n, 0)
    BY DEF Observe
<1>3. /\ Aligned' /\ promptIds' \in Seq(Int) /\ mask' \in Seq({0, 1})
      /\ Len(mask') = Len(mask) + n
  <2>1. 0 \in {0, 1} /\ (0 = 1 <=> -assistantTurns > 0)
      BY <1>1
  <2>2. promptIds \in Seq(Int) /\ mask \in Seq({0, 1})
      BY DEF TypeOK
  <2> QED
      BY <2>1, <2>2, <1>1, <1>2, GrowAligned
<1>4. logprobs' \in Seq(Nat)
    BY <1>1, TokensProperties DEF TypeOK, Observe
<1>5. TypeOK'
    BY <1>1, <1>3, <1>4 DEF TypeOK, Observe
<1>6. Len(mask) \in Nat
    BY LenProperties DEF TypeOK
<1>7. Progress'
    BY <1>1, <1>3, <1>6 DEF Progress
<1> QED
    BY <1>3, <1>5, <1>7

LEMMA ToolsAnsweredInv == ASSUME IInv, ToolsAnswered PROVE IInv'
<1> USE DEF IInv
<1>1. assistantTurns > 0 /\ phase = "tools"
    BY DEF ToolsAnswered, Progress
<1>2. CASE phase' = "terminated" /\ UNCHANGED <<promptIds, mask, logprobs, userTurns>>
    BY <1>1, <1>2 DEF ToolsAnswered, TypeOK, Aligned, Offset, Progress
<1>3. CASE \E n \in 1..MaxObservation : Observe(n) /\ phase' = "generating"
    BY <1>1, <1>3, ObserveInv DEF ToolsAnswered
<1> QED
    BY <1>2, <1>3 DEF ToolsAnswered

LEMMA InteractInv == ASSUME IInv, Interact PROVE IInv'
BY ObserveInv DEF IInv, Interact, Progress

(* A step of the tool calls, or one that only changes the phase.            *)
LEMMA CallInv ==
    ASSUME IInv, NEW c \in DOMAIN calls, CallMalformed(c) \/ CreateInstance(c) \/ ExecuteEnds(c)
    PROVE  IInv'
<1> USE DEF IInv
<1>1. /\ UNCHANGED <<settings, phase, promptIds, mask, logprobs, assistantTurns, userTurns>>
      /\ calls' = [calls EXCEPT ![c] = "done"] \/ calls' = [calls EXCEPT ![c] = "executing"]
      /\ instances' \subseteq instances \cup {<<assistantTurns, c>>}
    BY DEF CallMalformed, CreateInstance, ExecuteEnds, Instance
<1>2. calls' \in Seq({"new", "executing", "done"}) /\ c \in Nat
  <2> DEFINE States == {"new", "executing", "done"}
  <2>1. calls \in Seq(States) /\ "done" \in States /\ "executing" \in States
      BY DEF TypeOK
  <2> HIDE DEF States
  <2>2. c \in 1..Len(calls) /\ Len(calls) \in Nat
      BY <2>1, LenProperties
  <2>3. /\ [calls EXCEPT ![c] = "done"] \in Seq(States)
        /\ [calls EXCEPT ![c] = "executing"] \in Seq(States)
      BY <2>1, <2>2, ExceptSeq
  <2>4. calls' \in Seq(States)
      BY <1>1, <2>3, Zenon
  <2>5. c \in Nat
      BY <2>2
  <2> QED
      BY <2>4, <2>5 DEF States
<1> QED
    BY <1>1, <1>2, SMTT(20) DEF TypeOK, Aligned, Offset, Progress

LEMMA PhaseInv ==
    ASSUME IInv,
           \/ GenerateRaises \/ ToolPhaseTimesOut \/ ToolPhaseCancelled
           \/ ToolPhaseRaises \/ InteractionRaises
    PROVE  IInv'
<1> USE DEF IInv
<1>1. /\ UNCHANGED <<settings, promptIds, mask, logprobs, assistantTurns, userTurns, instances>>
      /\ \/ phase' = "raised"
         \/ phase = "tools" /\ phase' = "cancelling"
         \/ phase = "cancelling" /\ phase' = "terminated"
    BY DEF GenerateRaises, ToolPhaseTimesOut, ToolPhaseCancelled, ToolPhaseRaises, InteractionRaises
<1>2. calls' \in Seq({"new", "executing", "done"})
  <2>1. CASE UNCHANGED calls
      BY <2>1 DEF TypeOK
  <2>2. CASE ToolPhaseTimesOut
    <3>1. PICK m \in Nat : DOMAIN calls = 1..m
        BY LenProperties DEF TypeOK
    <3>2. calls' = [c \in 1..m |-> IF calls[c] = "new" THEN "done" ELSE calls[c]]
        BY <2>2, <3>1 DEF ToolPhaseTimesOut
    <3>3. \A c \in 1..m : calls[c] \in {"new", "executing", "done"}
        BY <3>1, ElementOfSeq, LenProperties DEF TypeOK
    <3> QED
        BY <3>2, <3>3
  <2> QED
      BY <2>1, <2>2 DEF GenerateRaises, ToolPhaseCancelled, ToolPhaseRaises, InteractionRaises
<1> QED
    BY <1>1, <1>2 DEF TypeOK, Aligned, Offset, Progress

(* The inductive invariant: prompt, response and mask are aligned.          *)
THEOREM Alignment == Spec => []IInv
<1>1. IInv /\ [Next]_vars => IInv'
  <2> SUFFICES ASSUME IInv, [Next]_vars PROVE IInv'
      OBVIOUS
  <2>1. CASE UNCHANGED vars
      BY <2>1 DEF vars, IInv, TypeOK, Aligned, Offset, Progress
  <2>2. CASE \E c \in DOMAIN calls : CallMalformed(c) \/ CreateInstance(c) \/ ExecuteEnds(c)
      BY <2>2, CallInv
  <2>3. CASE \/ GenerateRaises \/ ToolPhaseTimesOut \/ ToolPhaseCancelled
             \/ ToolPhaseRaises \/ InteractionRaises
      BY <2>3, PhaseInv
  <2> QED
      BY <2>1, <2>2, <2>3, StartInv, GenerateInv, ToolsAnsweredInv, InteractInv
      DEF Next, Step, Finished
<1> QED
    BY <1>1, InitInv, PTL DEF Spec

-----------------------------------------------------------------------------
(* What is cut from the front of a list.                                    *)
LEMMA TruncatedProperties ==
    ASSUME NEW S, NEW s \in Seq(S)
    PROVE  /\ Truncated(s) \in Seq(S)
           /\ Len(Truncated(s)) = Least(Len(s), ResponseLength)
           /\ \A j \in 1..Least(Len(s), ResponseLength) : Truncated(s)[j] = s[j]
<1> DEFINE m == Least(Len(s), ResponseLength)
<1>1. m \in Nat /\ m <= Len(s) /\ Len(s) \in Nat
    BY LenProperties DEF Least
<1>2. \A j \in 1..m : s[j] \in S
    BY <1>1, ElementOfSeq
<1>3. /\ SubSeq(s, 1, m) \in Seq(S)
      /\ Len(SubSeq(s, 1, m)) = IF 1 <= m THEN m - 1 + 1 ELSE 0
      /\ \A j \in 1..(m - 1 + 1) : SubSeq(s, 1, m)[j] = s[1 + j - 1]
    BY <1>1, <1>2, SubSeqProperties
<1> HIDE DEF m
<1>4. Len(SubSeq(s, 1, m)) = m /\ \A j \in 1..m : SubSeq(s, 1, m)[j] = s[j]
    BY <1>1, <1>3
<1> QED
    BY <1>3, <1>4 DEF Truncated, m

(* The response that run returns: the last tokens, or all when the mask is  *)
(* empty.                                                                   *)
LEMMA LastTokensProperties ==
    ASSUME IInv
    PROVE  /\ LastTokens(Len(mask)) \in Seq(Int)
           /\ mask # <<>> =>
                  /\ Len(LastTokens(Len(mask))) = Len(mask)
                  /\ \A j \in 1..Len(mask) : LastTokens(Len(mask))[j] = promptIds[Offset + j]
           /\ mask = <<>> => LastTokens(Len(mask)) = promptIds
<1> USE DEF IInv
<1>1. /\ Len(promptIds) \in Nat /\ Len(mask) \in Nat /\ Len(mask) <= Len(promptIds)
      /\ \A j \in 1..Len(promptIds) : promptIds[j] \in Int
    BY LenProperties, ElementOfSeq DEF TypeOK, Aligned
<1>2. mask # <<>> <=> Len(mask) # 0
    BY EmptySeq DEF TypeOK
<1>3. CASE mask = <<>>
    BY <1>2, <1>3 DEF LastTokens, TypeOK
<1>4. CASE mask # <<>>
  <2>1. LastTokens(Len(mask)) = SubSeq(promptIds, Offset + 1, Len(promptIds))
      BY <1>1, <1>2, <1>4 DEF LastTokens, Offset
  <2>2. /\ Offset + 1 \in Int /\ Offset \in Nat
        /\ \A j \in (Offset + 1)..Len(promptIds) : promptIds[j] \in Int
      BY <1>1 DEF Offset
  <2> DEFINE a == Offset + 1
             z == Len(promptIds)
  <2>3. /\ SubSeq(promptIds, a, z) \in Seq(Int)
        /\ Len(SubSeq(promptIds, a, z)) = IF a <= z THEN z - a + 1 ELSE 0
        /\ \A j \in 1..(z - a + 1) : SubSeq(promptIds, a, z)[j] = promptIds[a + j - 1]
    <3>1. a \in Int /\ z \in Int /\ \A j \in a..z : promptIds[j] \in Int
        BY <1>1, <2>2
    <3> HIDE DEF a, z
    <3> QED
        BY <3>1, SubSeqProperties
  <2>4. z - a + 1 = Len(mask) /\ a <= z
      BY <1>1, <1>2, <1>4 DEF Offset
  <2>5. \A j \in 1..Len(mask) : a + j - 1 = Offset + j
      BY <1>1, <2>2
  <2> QED
      BY <1>4, <2>1, <2>3, <2>4, <2>5
<1> QED
    BY <1>3, <1>4

(* A returned rollout: the output's response is the last tokens, and its    *)
(* mask the rollout's own, whatever token pads it.                          *)
LEMMA OutputProperties ==
    ASSUME IInv, mask # <<>>, NEW j \in 1..ResponseLength
    PROVE  /\ Len(mask) \in Nat
           /\ Len(OutputResponse) = Least(Len(mask), ResponseLength)
           /\ j <= Len(mask) =>
                  OutputResponse[j] = promptIds[Offset + j] /\ OutputMask[j] = mask[j]
           /\ ~(j <= Len(mask)) => OutputMask[j] = 0
<1> DEFINE r == LastTokens(Len(mask))
<1>1. /\ r \in Seq(Int) /\ Len(r) = Len(mask) /\ Len(mask) \in Nat
      /\ \A k \in 1..Len(mask) : r[k] = promptIds[Offset + k]
    BY LastTokensProperties, LenProperties DEF IInv, TypeOK
<1> HIDE DEF r
<1>2. /\ Len(Truncated(r)) = Least(Len(r), ResponseLength)
      /\ \A k \in 1..Least(Len(r), ResponseLength) : Truncated(r)[k] = r[k]
    BY <1>1, TruncatedProperties
<1>3. OutputResponse = Truncated(r)
    BY DEF OutputResponse, r
<1>4. /\ Len(Truncated(mask)) = Least(Len(mask), ResponseLength)
      /\ \A k \in 1..Least(Len(mask), ResponseLength) : Truncated(mask)[k] = mask[k]
    BY TruncatedProperties DEF IInv, TypeOK
<1>5. OutputMask[j] = Padded(Truncated(mask), PadToken)[j] * (IF j <= Len(OutputResponse) THEN 1 ELSE 0)
    BY DEF OutputMask, Attention
<1>6. CASE j <= Len(mask)
  <2>1. j \in 1..Least(Len(mask), ResponseLength) /\ j <= Len(OutputResponse)
      BY <1>1, <1>2, <1>3, <1>6 DEF Least
  <2>2. Padded(Truncated(mask), PadToken)[j] = mask[j] /\ mask[j] \in Int
      BY <1>1, <1>4, <1>6, <2>1, ElementOfSeq DEF Padded, Least, IInv, TypeOK
  <2>3. OutputMask[j] = mask[j]
      BY <1>5, <2>1, <2>2
  <2> QED
      BY <1>1, <1>2, <1>3, <1>6, <2>1, <2>3
<1>7. CASE ~(j <= Len(mask))
  <2>1. ~(j <= Len(OutputResponse))
      BY <1>1, <1>2, <1>3, <1>7 DEF Least
  <2>2. Padded(Truncated(mask), PadToken)[j] = PadToken
      BY <1>1, <1>4, <1>7 DEF Padded, Least
  <2>3. OutputMask[j] = 0
      BY <1>5, <2>1, <2>2
  <2> QED
      BY <1>1, <1>2, <1>3, <1>7, <2>3
<1> QED
    BY <1>6, <1>7

(* The mask of the output is 1 at exactly the generated tokens, for every   *)
(* rollout that is returned and any pad token: the mask the policy loss and *)
(* the turn ranges are computed from.                                       *)
THEOREM MaskMarksGeneratedAlways == Spec => []MaskMarksGenerated
<1>1. IInv => MaskMarksGenerated
  <2> SUFFICES ASSUME IInv, mask # <<>>, NEW j \in 1..ResponseLength
               PROVE  OutputMask[j] = 1 <=> j <= Len(OutputResponse) /\ OutputResponse[j] > 0
      BY DEF MaskMarksGenerated, Returned
  <2>1. /\ Len(mask) \in Nat
        /\ Len(OutputResponse) = Least(Len(mask), ResponseLength)
        /\ j <= Len(mask) =>
               OutputResponse[j] = promptIds[Offset + j] /\ OutputMask[j] = mask[j]
        /\ ~(j <= Len(mask)) => OutputMask[j] = 0
      BY OutputProperties
  <2>2. j <= Len(mask) => (mask[j] = 1 <=> promptIds[Offset + j] > 0)
      BY <2>1 DEF IInv, Aligned
  <2>3. j <= Len(OutputResponse) <=> j <= Len(mask)
      BY <2>1 DEF Least
  <2> QED
      BY <2>1, <2>2, <2>3
<1> QED
    BY <1>1, Alignment, PTL

(* The response begins where the prompt ends, in every rollout with a       *)
(* response.                                                                *)
THEOREM ResponseFollowsPrompt == Spec => []ResponseHasNoPrompt
<1>1. IInv => ResponseHasNoPrompt
  <2> SUFFICES ASSUME IInv, mask # <<>> PROVE ResponseHasNoPrompt
      BY DEF ResponseHasNoPrompt, Returned
  <2> DEFINE r == LastTokens(Len(mask))
  <2>1. Len(mask) > 0 /\ mask # <<>> /\ Len(mask) \in Nat
      BY LenProperties, EmptySeq DEF IInv, Progress, TypeOK
  <2>2. r \in Seq(Int) /\ Len(r) = Len(mask) /\ \A k \in 1..Len(mask) : r[k] = promptIds[Offset + k]
      BY <2>1, LastTokensProperties
  <2>3. \A k \in 1..Len(mask) : r[k] # Prompt
      BY <2>2 DEF IInv, Aligned
  <2>4. \A j \in DOMAIN OutputResponse : OutputResponse[j] # Prompt
    <3> HIDE DEF r
    <3>1. /\ Truncated(r) \in Seq(Int)
          /\ Len(Truncated(r)) = Least(Len(r), ResponseLength)
          /\ \A k \in 1..Least(Len(r), ResponseLength) : Truncated(r)[k] = r[k]
        BY <2>2, TruncatedProperties
    <3>2. DOMAIN Truncated(r) = 1..Len(Truncated(r))
        BY <3>1, LenProperties
    <3>3. OutputResponse = Truncated(r)
        BY DEF OutputResponse, r
    <3> QED
        BY <3>1, <3>2, <3>3, <2>1, <2>2, <2>3 DEF Least
  <2>5. \A j \in DOMAIN OutputPrompt : OutputPrompt[j] = Prompt
    <3>1. Offset \in Nat /\ Len(promptIds) \in Nat /\ Offset <= Len(promptIds)
        BY LenProperties DEF IInv, Aligned, TypeOK, Offset
    <3>2. \A j \in 1..Offset : promptIds[j] \in Int
        BY <3>1, ElementOfSeq DEF IInv, TypeOK
    <3> DEFINE d == Offset
    <3>3. /\ d \in Int
          /\ SubSeq(promptIds, 1, d) \in Seq(Int)
          /\ Len(SubSeq(promptIds, 1, d)) = IF 1 <= d THEN d - 1 + 1 ELSE 0
          /\ \A j \in 1..(d - 1 + 1) : SubSeq(promptIds, 1, d)[j] = promptIds[1 + j - 1]
      <4>1. d \in Int /\ \A j \in 1..d : promptIds[j] \in Int
          BY <3>1, <3>2
      <4> HIDE DEF d
      <4> QED
          BY <4>1, SubSeqProperties
    <3>4. DOMAIN SubSeq(promptIds, 1, d) = 1..Len(SubSeq(promptIds, 1, d))
        BY <3>3, LenProperties
    <3>5. \A j \in 1..d : promptIds[j] = Prompt
        BY DEF IInv, Aligned
    <3>6. OutputPrompt = SubSeq(promptIds, 1, d)
        BY DEF OutputPrompt, Offset
    <3> HIDE DEF d
    <3> QED
        BY <3>3, <3>4, <3>5, <3>6
  <2> QED
      BY <2>4, <2>5 DEF ResponseHasNoPrompt
<1> QED
    BY <1>1, Alignment, PTL

-----------------------------------------------------------------------------
(* A created instance is that of a call of this turn still executing, and   *)
(* a call executes only in a tool phase.                                    *)
Executing == {c \in DOMAIN calls : calls[c] = "executing"}

InstancesTracked ==
    /\ phase \notin {"tools", "cancelling"} => Executing = {}
    /\ instances = {Instance(c) : c \in Executing}

LEMMA GenerateTracked == ASSUME IInv, InstancesTracked, Generate PROVE InstancesTracked'
<1>1. phase = "generating" /\ Executing = {} /\ instances = {}
    BY DEF InstancesTracked, Generate
<1>2. \A c \in DOMAIN calls' : calls'[c] # "executing"
  <2>1. CASE calls' = <<>>
      BY <2>1
  <2>2. ASSUME NEW k \in Nat, calls' = Tokens(k, "new")
        PROVE  \A c \in DOMAIN calls' : calls'[c] # "executing"
      BY <2>2 DEF Tokens
  <2>3. \A k \in 0..MaxCalls : Least(k, MaxParallelCalls) \in Nat
      BY DEF Least
  <2>4. \/ calls' = <<>>
        \/ \E k \in 0..MaxCalls : calls' = Tokens(Least(k, MaxParallelCalls), "new")
      BY DEF Generate
  <2> QED
      BY <2>1, <2>2, <2>3, <2>4
<1>3. Executing' = {} /\ instances' = {}
    BY <1>1, <1>2 DEF Executing, Generate
<1> QED
    BY <1>3 DEF InstancesTracked

LEMMA CallTracked ==
    ASSUME IInv, InstancesTracked, NEW c \in DOMAIN calls,
           CallMalformed(c) \/ CreateInstance(c) \/ ExecuteEnds(c)
    PROVE  InstancesTracked'
<1>1. phase \in {"tools", "cancelling"} /\ UNCHANGED <<phase, assistantTurns>>
    BY DEF CallMalformed, CreateInstance, ExecuteEnds
<1>2. DOMAIN calls' = DOMAIN calls /\ \A d \in DOMAIN calls : d # c => calls'[d] = calls[d]
    BY DEF CallMalformed, CreateInstance, ExecuteEnds
<1>3. \A d : Instance(d)' = Instance(d)
    BY <1>1 DEF Instance
<1>4. CASE CallMalformed(c)
  <2>1. Executing' = Executing /\ instances' = instances
      BY <1>2, <1>4 DEF CallMalformed, Executing
  <2> QED
      BY <1>1, <1>3, <2>1 DEF InstancesTracked
<1>5. CASE CreateInstance(c)
  <2>1. Executing' = Executing \cup {c} /\ instances' = instances \cup {Instance(c)}
      BY <1>2, <1>5 DEF CreateInstance, Executing
  <2> QED
      BY <1>1, <1>3, <2>1 DEF InstancesTracked
<1>6. CASE ExecuteEnds(c)
  <2>1. Executing' = Executing \ {c} /\ instances' = instances \ {Instance(c)}
      BY <1>2, <1>6 DEF ExecuteEnds, Executing
  <2>2. \A d : d # c => Instance(d) # Instance(c)
      BY DEF Instance
  <2> QED
      BY <1>1, <1>3, <2>1, <2>2 DEF InstancesTracked
<1> QED
    BY <1>4, <1>5, <1>6

(* A step that only waits for the calls, or is of another phase.            *)
LEMMA WaitTracked ==
    ASSUME IInv, InstancesTracked,
           \/ Start \/ GenerateRaises \/ ToolPhaseTimesOut \/ ToolPhaseCancelled
           \/ ToolsAnswered \/ ToolPhaseRaises \/ Interact \/ InteractionRaises \/ UNCHANGED vars
    PROVE  InstancesTracked'
<1>1. UNCHANGED <<assistantTurns, instances>> /\ Executing' = Executing
  <2>1. CASE ToolPhaseTimesOut
      BY <2>1 DEF ToolPhaseTimesOut, Executing
  <2>2. CASE UNCHANGED <<assistantTurns, instances, calls>>
      BY <2>2 DEF Executing
  <2> QED
      BY <2>1, <2>2 DEF Start, GenerateRaises, ToolPhaseCancelled, ToolsAnswered,
                        ToolPhaseRaises, Interact, InteractionRaises, vars
<1>2. phase' \notin {"tools", "cancelling"} => Executing = {}
  <2>1. CASE AllDone
      BY <2>1 DEF AllDone, Executing
  <2>2. CASE phase \notin {"tools", "cancelling"} \/ phase' \in {"tools", "cancelling"}
      BY <2>2 DEF InstancesTracked
  <2> QED
      BY <2>1, <2>2 DEF Start, GenerateRaises, ToolPhaseTimesOut, ToolPhaseCancelled,
                        ToolsAnswered, ToolPhaseRaises, Interact, InteractionRaises, vars
<1> QED
    BY <1>1, <1>2 DEF InstancesTracked, Instance

(* No tool instance outlives its tool phase, whether its call answered,     *)
(* raised, timed out or was cancelled: the finally clause of _call_tool     *)
(* releases every instance the turn created.                                *)
THEOREM ToolsReleasedAlways == Spec => []ToolsReleased
<1>1. Init => InstancesTracked
    BY DEF Init, InstancesTracked, Executing
<1>2. IInv /\ InstancesTracked /\ [Next]_vars => InstancesTracked'
  <2> SUFFICES ASSUME IInv, InstancesTracked, [Next]_vars PROVE InstancesTracked'
      OBVIOUS
  <2> QED
      BY GenerateTracked, CallTracked, WaitTracked DEF Next, Step, Finished
<1>3. InstancesTracked => ToolsReleased
    BY DEF InstancesTracked, ToolsReleased
<1> QED
    BY <1>1, <1>2, <1>3, Alignment, PTL DEF Spec

-----------------------------------------------------------------------------
(* The steps as the lists see them: a generated turn, an observation, or    *)
(* neither.                                                                 *)
Generated(n) ==
    /\ phase = "generating" /\ n \in 0..Budget
    /\ n = 0 => settings.emptyGenerations
    /\ promptIds' = promptIds \o Tokens(n, assistantTurns + 1)
    /\ mask' = mask \o Tokens(n, 1)
    /\ logprobs' = logprobs \o Tokens(n, assistantTurns + 1)
    /\ assistantTurns' = assistantTurns + 1
    /\ settings' = settings
    /\ \/ phase' = "terminated"
       \/ /\ phase' \in {"tools", "interacting"} /\ Len(mask) + n < ResponseLength
          /\ phase' = "interacting" => settings.interactive

Observed(n) ==
    /\ n \in 1..MaxObservation
    /\ Observe(n)
    /\ UNCHANGED <<settings, assistantTurns>>
    /\ \/ phase = "tools" /\ phase' = "generating" /\ Len(mask) + n < ResponseLength
       \/ phase = "interacting" /\ phase' \in {"generating", "terminated"}

ListsKept ==
    /\ UNCHANGED <<settings, promptIds, mask, logprobs, assistantTurns>>
    /\ \/ phase' = phase
       \/ phase # "pending" /\ phase' = "raised"
       \/ phase = "tools" /\ phase' \in {"cancelling", "terminated"}
       \/ phase = "cancelling" /\ phase' = "terminated"

LEMMA Steps ==
    ASSUME IInv, [Next]_vars
    PROVE  Start \/ (\E n \in Nat : Generated(n)) \/ (\E n \in Nat : Observed(n)) \/ ListsKept
<1>1. CASE Generate
  <2>1. PICK n \in 0..Budget :
            /\ n = 0 => settings.emptyGenerations
            /\ promptIds' = promptIds \o Tokens(n, assistantTurns + 1)
            /\ mask' = mask \o Tokens(n, 1)
            /\ logprobs' = logprobs \o Tokens(n, assistantTurns + 1)
            /\ assistantTurns' = assistantTurns + 1
            /\ \/ phase' = "terminated"
               \/ /\ ~LimitReached(Len(mask) + n, assistantTurns + 1)
                  /\ \E k \in 0..(IF n = 0 THEN 0 ELSE MaxCalls) : phase' = AfterTurn(k)
      BY <1>1 DEF Generate
  <2>2. Budget \in Int /\ n \in Nat /\ Len(mask) \in Nat
      BY BudgetTyped, LenProperties DEF IInv, TypeOK
  <2>3. \/ phase' = "terminated"
        \/ /\ phase' \in {"tools", "interacting"} /\ Len(mask) + n < ResponseLength
           /\ phase' = "interacting" => settings.interactive
      BY <2>1, <2>2 DEF LimitReached, AfterTurn
  <2>4. Generated(n)
      BY <1>1, <2>1, <2>2, <2>3 DEF Generated, Generate
  <2> QED
      BY <2>2, <2>4
<1>2. CASE ToolsAnswered \/ Interact
  <2>1. UNCHANGED <<settings, assistantTurns>>
      BY <1>2 DEF ToolsAnswered, Interact
  <2>2. ASSUME NEW n \in 1..MaxObservation, Observe(n),
               \/ phase = "tools" /\ phase' = "generating" /\ Len(mask) + n < ResponseLength
               \/ phase = "interacting" /\ phase' \in {"generating", "terminated"}
        PROVE  \E m \in Nat : Observed(m)
      BY <2>1, <2>2 DEF Observed
  <2>3. CASE phase = "tools" /\ phase' = "terminated" /\ UNCHANGED <<promptIds, mask, logprobs, userTurns>>
      BY <2>1, <2>3 DEF ListsKept
  <2> QED
      BY <1>2, <2>2, <2>3 DEF ToolsAnswered, Interact
<1>3. CASE \/ \E c \in DOMAIN calls : CallMalformed(c) \/ CreateInstance(c) \/ ExecuteEnds(c)
           \/ GenerateRaises \/ ToolPhaseTimesOut \/ ToolPhaseCancelled
           \/ ToolPhaseRaises \/ InteractionRaises \/ UNCHANGED vars
    BY <1>3 DEF CallMalformed, CreateInstance, ExecuteEnds, GenerateRaises, ToolPhaseTimesOut,
                ToolPhaseCancelled, ToolPhaseRaises, InteractionRaises, vars, ListsKept
<1> QED
    BY <1>1, <1>2, <1>3 DEF Next, Step, Finished

(* What a list r holds when n equal tokens were appended to s.              *)
Extends(r, s, n, t) ==
    /\ Len(r) = Len(s) + n
    /\ \A j \in 1..Len(s) : r[j] = s[j]
    /\ \A j \in (Len(s) + 1)..(Len(s) + n) : r[j] = t

LEMMA Appended ==
    ASSUME NEW S, NEW s \in Seq(S), NEW n \in Nat, NEW t \in S
    PROVE  Extends(s \o Tokens(n, t), s, n, t)
<1>1. /\ Tokens(n, t) \in Seq(S) /\ Len(Tokens(n, t)) = n
      /\ \A j \in 1..n : Tokens(n, t)[j] = t
    BY TokensProperties
<1> DEFINE w == Tokens(n, t)
<1> HIDE DEF w
<1>2. w \in Seq(S) /\ Len(w) = n /\ \A j \in 1..n : w[j] = t
    BY <1>1 DEF w
<1>3. s \o w \in Seq(S) /\ Len(s \o w) = Len(s) + n /\ Len(s) \in Nat
    BY <1>2
<1>4. \A j \in 1..Len(s) : (s \o w)[j] = s[j]
    BY <1>2
<1>5. \A j \in (Len(s) + 1)..(Len(s) + n) : (s \o w)[j] = t
  <2> SUFFICES ASSUME NEW j \in (Len(s) + 1)..(Len(s) + n) PROVE (s \o w)[j] = t
      OBVIOUS
  <2>1. j \in 1..(Len(s) + n) /\ j > Len(s) /\ j - Len(s) \in 1..n
      BY <1>3
  <2>2. (s \o w)[j] = w[j - Len(s)]
      BY <1>2, <2>1
  <2> QED
      BY <1>2, <2>1, <2>2
<1> QED
    BY <1>3, <1>4, <1>5 DEF w, Extends

-----------------------------------------------------------------------------
(* What is left of the response when only tools answer: every observation   *)
(* was refused that would have filled it.                                   *)
RoomLeft ==
    /\ phase # "pending" => Offset = settings.promptTokens
    /\ ~settings.interactive =>
           /\ phase # "interacting"
           /\ phase \in {"pending", "generating", "tools", "cancelling"} => Len(mask) < ResponseLength

LEMMA RoomLeftStep == ASSUME IInv, RoomLeft, [Next]_vars PROVE RoomLeft'
<1>0. /\ promptIds \in Seq(Int) /\ mask \in Seq({0, 1}) /\ assistantTurns \in Nat
      /\ Len(promptIds) \in Nat /\ Len(mask) \in Nat
    BY LenProperties DEF IInv, TypeOK
<1>1. CASE Start
  <2>1. mask = <<>> /\ mask' = <<>> /\ promptIds' = Tokens(settings.promptTokens, Prompt)
      BY <1>1 DEF Start, IInv, Progress
  <2>2. Len(promptIds') = settings.promptTokens
      BY <2>1, SettingTyped DEF Tokens
  <2> QED
      BY <1>1, <2>1, <2>2 DEF Start, RoomLeft, Offset
<1>2. ASSUME NEW n \in Nat, Generated(n) PROVE RoomLeft'
  <2>1. Len(promptIds') = Len(promptIds) + n /\ Len(mask') = Len(mask) + n
    <3>1. /\ promptIds' = promptIds \o Tokens(n, assistantTurns + 1)
          /\ mask' = mask \o Tokens(n, 1)
          /\ assistantTurns + 1 \in Int /\ 1 \in {0, 1}
        BY <1>0, <1>2 DEF Generated
    <3>2. Extends(promptIds', promptIds, n, assistantTurns + 1) /\ Extends(mask', mask, n, 1)
        BY <1>0, <3>1, Appended, Zenon
    <3> QED
        BY <3>2 DEF Extends
  <2>2. Offset' = Offset
      BY <1>0, <2>1 DEF Offset
  <2> QED
      BY <1>2, <2>1, <2>2 DEF Generated, RoomLeft
<1>3. ASSUME NEW n \in Nat, Observed(n) PROVE RoomLeft'
  <2>1. Len(promptIds') = Len(promptIds) + n /\ Len(mask') = Len(mask) + n
      BY <1>0, <1>3, Appended DEF Observed, Observe, Extends
  <2>2. Offset' = Offset
      BY <1>0, <2>1 DEF Offset
  <2> QED
      BY <1>3, <2>1, <2>2 DEF Observed, RoomLeft
<1>4. CASE ListsKept
    BY <1>4 DEF ListsKept, RoomLeft, Offset
<1> QED
    BY <1>1, <1>2, <1>3, <1>4, Steps

(* With tools only, generate is never asked for a token that the trainer    *)
(* would cut off, because an observation is checked before it is appended;  *)
(* and where prompt and context have the configured lengths, the same check *)
(* leaves a budget after the server's own clamp to the model's context.     *)
THEOREM RoomToGenerateAlways == Spec => []RoomToGenerate
<1>1. Init => RoomLeft
    BY DEF Init, RoomLeft
<1>2. IInv /\ RoomLeft /\ [Next]_vars => RoomLeft'
    BY RoomLeftStep
<1>3. IInv /\ RoomLeft => RoomToGenerate
  <2> SUFFICES ASSUME IInv, RoomLeft, phase = "generating", ~settings.interactive
               PROVE  /\ Len(mask) < ResponseLength
                      /\ (/\ settings.promptTokens <= PromptLength
                          /\ PromptLength + ResponseLength <= settings.maxModelLen) => Budget > 0
      BY DEF RoomToGenerate
  <2>1. /\ Len(promptIds) \in Nat /\ Len(mask) \in Nat
        /\ settings.promptTokens \in Nat /\ settings.maxModelLen \in Nat
      BY SettingTyped, LenProperties DEF IInv, TypeOK
  <2>2. Len(mask) < ResponseLength /\ Len(promptIds) = settings.promptTokens + Len(mask)
      BY <2>1 DEF RoomLeft, Offset
  <2> QED
      BY <2>1, <2>2 DEF Budget, Least, Greatest
<1> QED
    BY <1>1, <1>2, <1>3, Alignment, PTL DEF Spec

-----------------------------------------------------------------------------
(* Where the new tokens of a step are, in the rollout and in the mask.      *)
GrownBy(n, t, b) ==
    /\ Len(mask) \in Nat /\ Len(mask') = Len(mask) + n
    /\ Offset \in Nat /\ Offset' = Offset
    /\ \A j \in 1..Len(mask) :
           mask'[j] = mask[j] /\ promptIds'[Offset + j] = promptIds[Offset + j]
    /\ \A j \in (Len(mask) + 1)..(Len(mask) + n) :
           mask'[j] = b /\ promptIds'[Offset + j] = t

LEMMA Grown ==
    ASSUME IInv, NEW n \in Nat, NEW t \in Int, NEW b \in {0, 1},
           promptIds' = promptIds \o Tokens(n, t), mask' = mask \o Tokens(n, b)
    PROVE  GrownBy(n, t, b)
<1>1. /\ promptIds \in Seq(Int) /\ mask \in Seq({0, 1})
      /\ Len(promptIds) \in Nat /\ Len(mask) \in Nat /\ Len(mask) <= Len(promptIds)
    BY LenProperties DEF IInv, TypeOK, Aligned
<1>2. Extends(promptIds', promptIds, n, t)
    BY <1>1, Appended
<1>3. Extends(mask', mask, n, b)
    BY <1>1, Appended
<1>4. Offset \in Nat /\ Offset' = Offset
    BY <1>1, <1>2, <1>3 DEF Offset, Extends
<1>5. /\ \A j \in 1..Len(mask) : Offset + j \in 1..Len(promptIds)
      /\ \A j \in (Len(mask) + 1)..(Len(mask) + n) :
             Offset + j \in (Len(promptIds) + 1)..(Len(promptIds) + n)
    BY <1>1, <1>4 DEF Offset
<1> QED
    BY <1>1, <1>2, <1>3, <1>4, <1>5 DEF Extends, GrownBy

(* What the trainer reads at a position the output's mask marks.            *)
LEMMA OutputMarked ==
    ASSUME IInv, mask # <<>>, NEW j \in 1..ResponseLength, OutputMask[j] = 1
    PROVE  /\ j \in 1..Len(mask) /\ mask[j] = 1
           /\ OutputResponse[j] = promptIds[Offset + j]
BY OutputProperties

-----------------------------------------------------------------------------
(* The log-probabilities keep up with the tokens while every generation     *)
(* brings one, so that the list is never empty when an observation comes.   *)
Logged ==
    ~settings.emptyGenerations =>
        /\ Len(logprobs) = Len(mask)
        /\ \A j \in 1..Len(mask) : mask[j] = 1 => logprobs[j] = promptIds[Offset + j]
        /\ phase \in {"tools", "cancelling", "interacting"} => Len(mask) > 0

LEMMA LoggedStep == ASSUME IInv, Logged, [Next]_vars PROVE Logged'
<1> SUFFICES ASSUME ~settings'.emptyGenerations PROVE Logged'
    BY DEF Logged
<1>0. /\ logprobs \in Seq(Nat) /\ mask \in Seq({0, 1}) /\ assistantTurns \in Nat
      /\ Len(mask) \in Nat
    BY LenProperties DEF IInv, TypeOK
<1>1. CASE Start
  <2>1. Len(mask) = 0 /\ UNCHANGED <<mask, logprobs, settings>> /\ phase' = "generating"
      BY <1>1 DEF Start, IInv, Progress
  <2> QED
      BY <2>1 DEF Logged
<1>2. ASSUME NEW n \in Nat, Generated(n) PROVE Logged'
  <2>1. n > 0 /\ Len(logprobs) = Len(mask)
      BY <1>2 DEF Generated, Logged
  <2>2. GrownBy(n, assistantTurns + 1, 1)
    <3>1. assistantTurns + 1 \in Int /\ 1 \in {0, 1}
        BY <1>0
    <3>2. /\ promptIds' = promptIds \o Tokens(n, assistantTurns + 1)
          /\ mask' = mask \o Tokens(n, 1)
        BY <1>2 DEF Generated
    <3> QED
        BY <3>1, <3>2, Grown, Zenon
  <2>3. Extends(logprobs', logprobs, n, assistantTurns + 1)
      BY <1>0, <1>2, Appended DEF Generated
  <2>4. \A j \in 1..Len(mask) : mask[j] = 1 => logprobs[j] = promptIds[Offset + j]
      BY <1>2 DEF Generated, Logged
  <2> QED
      BY <1>0, <2>1, <2>2, <2>3, <2>4 DEF Logged, GrownBy, Extends
<1>3. ASSUME NEW n \in Nat, Observed(n) PROVE Logged'
  <2>1. n > 0 /\ Len(logprobs) = Len(mask) /\ Len(mask) > 0 /\ UNCHANGED assistantTurns
      BY <1>3 DEF Observed, Logged
  <2>2. GrownBy(n, -assistantTurns, 0)
    <3>1. -assistantTurns \in Int /\ 0 \in {0, 1}
        BY <1>0
    <3>2. /\ promptIds' = promptIds \o Tokens(n, -assistantTurns)
          /\ mask' = mask \o Tokens(n, 0)
        BY <1>3 DEF Observed, Observe
    <3> QED
        BY <3>1, <3>2, Grown, Zenon
  <2>3. logprobs' = logprobs \o Tokens(n, 0)
      BY <1>3, <2>1 DEF Observed, Observe
  <2>4. Extends(logprobs', logprobs, n, 0)
      BY <1>0, <2>3, Appended
  <2>5. \A j \in 1..Len(mask) : mask[j] = 1 => logprobs[j] = promptIds[Offset + j]
      BY <1>3 DEF Observed, Logged
  <2>6. ASSUME NEW j \in 1..Len(mask'), mask'[j] = 1
        PROVE  logprobs'[j] = promptIds'[Offset' + j]
    <3>1. j \in 1..Len(mask)
        BY <1>0, <2>2, <2>6 DEF GrownBy
    <3> QED
        BY <2>1, <2>2, <2>4, <2>5, <2>6, <3>1 DEF GrownBy, Extends
  <2>7. Len(logprobs') = Len(mask') /\ Len(mask') > 0
      BY <1>0, <2>1, <2>2, <2>4 DEF GrownBy, Extends
  <2> QED
      BY <2>6, <2>7 DEF Logged
<1>4. CASE ListsKept
    BY <1>4 DEF ListsKept, Logged, Offset
<1> QED
    BY <1>1, <1>2, <1>3, <1>4, Steps

(* The rollout log-probability that the trainer pairs with a generated      *)
(* token is that token's, whatever was truncated, padded or observed in     *)
(* between, unless the server answers with no token at all.                 *)
THEOREM LogprobsAligned == Spec => []LogprobsBelongToTokens
<1>1. Init => Logged
    BY DEF Init, Logged
<1>2. IInv /\ Logged /\ [Next]_vars => Logged'
    BY LoggedStep
<1>3. IInv /\ Logged => LogprobsBelongToTokens
  <2> SUFFICES ASSUME IInv, Logged, mask # <<>>, ~settings.emptyGenerations,
                      NEW j \in 1..ResponseLength, OutputMask[j] = 1
               PROVE  OutputLogprobs[j] = OutputResponse[j]
      BY DEF LogprobsBelongToTokens, Returned
  <2>1. /\ j \in 1..Len(mask) /\ mask[j] = 1
        /\ OutputResponse[j] = promptIds[Offset + j]
      BY OutputMarked
  <2>2. Len(logprobs) = Len(mask) /\ logprobs[j] = promptIds[Offset + j]
      BY <2>1 DEF Logged
  <2>3. /\ Len(Truncated(logprobs)) = Least(Len(logprobs), ResponseLength)
        /\ \A k \in 1..Least(Len(logprobs), ResponseLength) : Truncated(logprobs)[k] = logprobs[k]
        /\ Len(logprobs) \in Nat
      BY TruncatedProperties, LenProperties DEF IInv, TypeOK
  <2>4. OutputLogprobs[j] = logprobs[j]
      BY <2>1, <2>2, <2>3 DEF OutputLogprobs, Padded, Least
  <2> QED
      BY <2>1, <2>2, <2>4
<1> QED
    BY <1>1, <1>2, <1>3, Alignment, PTL DEF Spec

-----------------------------------------------------------------------------
(* A generation starts behind the prompt or behind an observation, and its  *)
(* turn is above all that came before.                                      *)
Turned ==
    /\ phase = "generating" /\ Len(mask) > 0 => mask[Len(mask)] = 0
    /\ \A j \in 1..Len(mask) : promptIds[Offset + j] <= assistantTurns
    /\ \A j, k \in 1..Len(mask) :
           j < k /\ mask[j] = 1 /\ mask[k] = 1 =>
               /\ promptIds[Offset + j] <= promptIds[Offset + k]
               /\ k = j + 1 => promptIds[Offset + j] = promptIds[Offset + k]

LEMMA TurnedStep == ASSUME IInv, Turned, [Next]_vars PROVE Turned'
<1>0. /\ promptIds \in Seq(Int) /\ mask \in Seq({0, 1}) /\ assistantTurns \in Nat
      /\ Len(mask) \in Nat /\ Len(promptIds) \in Nat /\ Offset \in Nat
      /\ Offset + Len(mask) = Len(promptIds)
    BY LenProperties DEF IInv, TypeOK, Aligned, Offset
<1>t. \A j \in 1..Len(mask) : promptIds[Offset + j] \in Int
  <2>1. \A j \in 1..Len(mask) : Offset + j \in 1..Len(promptIds)
      BY <1>0
  <2> QED
      BY <1>0, <2>1, ElementOfSeq
<1>1. CASE Start
  <2>1. Len(mask') = 0
      BY <1>1 DEF Start, IInv, Progress
  <2> QED
      BY <2>1 DEF Turned
<1>2. ASSUME NEW n \in Nat, Generated(n) PROVE Turned'
  <2>1. /\ assistantTurns + 1 \in Int /\ 1 \in {0, 1}
        /\ promptIds' = promptIds \o Tokens(n, assistantTurns + 1)
        /\ mask' = mask \o Tokens(n, 1)
        /\ phase = "generating" /\ phase' # "generating" /\ assistantTurns' = assistantTurns + 1
      BY <1>0, <1>2 DEF Generated
  <2>2. GrownBy(n, assistantTurns + 1, 1)
      BY <2>1, Grown, Zenon
  <2>3. \A j \in 1..Len(mask') : j \in 1..Len(mask) \/ j \in (Len(mask) + 1)..(Len(mask) + n)
      BY <1>0, <2>2 DEF GrownBy
  <2>4. ASSUME NEW j \in 1..Len(mask') PROVE promptIds'[Offset' + j] <= assistantTurns'
    <3>0. assistantTurns \in Nat /\ assistantTurns' = assistantTurns + 1
        BY <1>0, <2>1
    <3>1. CASE j \in 1..Len(mask)
      <4>1. /\ promptIds'[Offset' + j] = promptIds[Offset + j]
            /\ promptIds[Offset + j] <= assistantTurns /\ promptIds[Offset + j] \in Int
          BY <1>t, <2>2, <3>1 DEF GrownBy, Turned
      <4> QED
          BY <3>0, <4>1
    <3>2. CASE j \in (Len(mask) + 1)..(Len(mask) + n)
      <4>1. promptIds'[Offset' + j] = assistantTurns + 1
          BY <2>2, <3>2 DEF GrownBy
      <4> QED
          BY <3>0, <4>1
    <3> QED
        BY <2>3, <3>1, <3>2
  <2>5. ASSUME NEW j \in 1..Len(mask'), NEW k \in 1..Len(mask'), j < k, mask'[j] = 1, mask'[k] = 1
        PROVE  /\ promptIds'[Offset' + j] <= promptIds'[Offset' + k]
               /\ k = j + 1 => promptIds'[Offset' + j] = promptIds'[Offset' + k]
    <3>1. CASE k \in 1..Len(mask)
      <4>1. j \in 1..Len(mask)
          BY <1>0, <2>5, <3>1
      <4>2. /\ promptIds'[Offset' + j] = promptIds[Offset + j] /\ mask'[j] = mask[j]
            /\ promptIds'[Offset' + k] = promptIds[Offset + k] /\ mask'[k] = mask[k]
          BY <2>2, <3>1, <4>1 DEF GrownBy
      <4> QED
          BY <2>5, <3>1, <4>1, <4>2 DEF Turned
    <3>2. CASE k \in (Len(mask) + 1)..(Len(mask) + n) /\ j \in 1..Len(mask)
      <4>1. k # j + 1
        <5>1. SUFFICES ASSUME j = Len(mask) PROVE FALSE
            BY <1>0, <3>2
        <5>2. mask[j] = 0
            BY <1>0, <2>1, <3>2, <5>1 DEF Turned
        <5> QED
            BY <2>2, <2>5, <3>2, <5>2 DEF GrownBy
      <4>2. promptIds'[Offset' + k] = assistantTurns + 1
          BY <2>2, <3>2 DEF GrownBy
      <4>3. promptIds'[Offset' + j] = promptIds[Offset + j] /\ promptIds[Offset + j] <= assistantTurns
          BY <2>2, <3>2 DEF GrownBy, Turned
      <4> QED
          BY <1>0, <1>t, <3>2, <4>1, <4>2, <4>3
    <3>3. CASE k \in (Len(mask) + 1)..(Len(mask) + n) /\ j \in (Len(mask) + 1)..(Len(mask) + n)
        BY <1>0, <2>2, <3>3 DEF GrownBy
    <3> QED
        BY <2>3, <3>1, <3>2, <3>3
  <2> QED
      BY <2>1, <2>4, <2>5 DEF Turned
<1>3. ASSUME NEW n \in Nat, Observed(n) PROVE Turned'
  <2>1. /\ -assistantTurns \in Int /\ 0 \in {0, 1}
        /\ promptIds' = promptIds \o Tokens(n, -assistantTurns)
        /\ mask' = mask \o Tokens(n, 0)
        /\ n > 0 /\ assistantTurns' = assistantTurns
      BY <1>0, <1>3 DEF Observed, Observe
  <2>2. GrownBy(n, -assistantTurns, 0)
      BY <2>1, Grown, Zenon
  <2>3. \A j \in 1..Len(mask') : j \in 1..Len(mask) \/ j \in (Len(mask) + 1)..(Len(mask) + n)
      BY <1>0, <2>2 DEF GrownBy
  <2>4. mask'[Len(mask')] = 0
    <3>1. Len(mask') \in (Len(mask) + 1)..(Len(mask) + n)
        BY <1>0, <2>1, <2>2 DEF GrownBy
    <3> QED
        BY <2>2, <3>1 DEF GrownBy
  <2>5. ASSUME NEW j \in 1..Len(mask') PROVE promptIds'[Offset' + j] <= assistantTurns'
    <3>0. assistantTurns \in Nat /\ assistantTurns' = assistantTurns
        BY <1>0, <2>1
    <3>1. CASE j \in 1..Len(mask)
      <4>1. /\ promptIds'[Offset' + j] = promptIds[Offset + j]
            /\ promptIds[Offset + j] <= assistantTurns /\ promptIds[Offset + j] \in Int
          BY <1>t, <2>2, <3>1 DEF GrownBy, Turned
      <4> QED
          BY <3>0, <4>1
    <3>2. CASE j \in (Len(mask) + 1)..(Len(mask) + n)
      <4>1. promptIds'[Offset' + j] = -assistantTurns
          BY <2>2, <3>2 DEF GrownBy
      <4> QED
          BY <3>0, <4>1
    <3> QED
        BY <2>3, <3>1, <3>2
  <2>6. ASSUME NEW j \in 1..Len(mask'), NEW k \in 1..Len(mask'), j < k, mask'[j] = 1, mask'[k] = 1
        PROVE  /\ promptIds'[Offset' + j] <= promptIds'[Offset' + k]
               /\ k = j + 1 => promptIds'[Offset' + j] = promptIds'[Offset' + k]
    <3>1. j \in 1..Len(mask) /\ k \in 1..Len(mask)
        BY <2>2, <2>3, <2>6 DEF GrownBy
    <3>2. /\ promptIds'[Offset' + j] = promptIds[Offset + j] /\ mask'[j] = mask[j]
          /\ promptIds'[Offset' + k] = promptIds[Offset + k] /\ mask'[k] = mask[k]
        BY <2>2, <3>1 DEF GrownBy
    <3> QED
        BY <2>6, <3>1, <3>2 DEF Turned
  <2> QED
      BY <2>4, <2>5, <2>6 DEF Turned
<1>4. CASE ListsKept
    BY <1>4 DEF ListsKept, Turned, Offset
<1> QED
    BY <1>1, <1>2, <1>3, <1>4, Steps

(* Every run of 1s in the mask the trainer receives is one assistant turn,  *)
(* and the runs stand in the order of the turns, for any lengths, limits    *)
(* and timeouts, with empty generations and interactions too: the premise   *)
(* of get_assistant_turn_ranges.                                            *)
THEOREM RunsAreTurnsAlways == Spec => []RunsAreTurns
<1>1. Init => Turned
    BY DEF Init, Turned
<1>2. IInv /\ Turned /\ [Next]_vars => Turned'
    BY TurnedStep
<1>3. IInv /\ Turned => RunsAreTurns
  <2> SUFFICES ASSUME IInv, Turned, mask # <<>>
               PROVE  /\ \A j \in 1..(ResponseLength - 1) :
                             OutputMask[j] = 1 /\ OutputMask[j + 1] = 1 =>
                                 OutputResponse[j] = OutputResponse[j + 1]
                      /\ \A j, k \in 1..ResponseLength :
                             j < k /\ OutputMask[j] = 1 /\ OutputMask[k] = 1 =>
                                 OutputResponse[j] <= OutputResponse[k]
      BY DEF RunsAreTurns, Returned
  <2>1. ASSUME NEW j \in 1..ResponseLength, NEW k \in 1..ResponseLength, j < k,
               OutputMask[j] = 1, OutputMask[k] = 1
        PROVE  /\ OutputResponse[j] <= OutputResponse[k]
               /\ k = j + 1 => OutputResponse[j] = OutputResponse[k]
    <3>1. /\ j \in 1..Len(mask) /\ mask[j] = 1 /\ OutputResponse[j] = promptIds[Offset + j]
          /\ k \in 1..Len(mask) /\ mask[k] = 1 /\ OutputResponse[k] = promptIds[Offset + k]
        BY <2>1, OutputMarked
    <3> QED
        BY <2>1, <3>1 DEF Turned
  <2>2. \A j \in 1..(ResponseLength - 1) :
            j \in 1..ResponseLength /\ j + 1 \in 1..ResponseLength /\ j < j + 1
      OBVIOUS
  <2> QED
      BY <2>1, <2>2
<1> QED
    BY <1>1, <1>2, <1>3, Alignment, PTL DEF Spec

-----------------------------------------------------------------------------
(* When tools only answer and no generation is empty, the response ends in  *)
(* a generation from the first turn on, also where it is cut off.           *)
Ended ==
    ~settings.interactive /\ ~settings.emptyGenerations
        /\ phase \in {"tools", "cancelling", "terminated"} =>
            Len(mask) > 0 /\ mask[Least(Len(mask), ResponseLength)] = 1

LEMMA EndedStep == ASSUME IInv, RoomLeft, Ended, [Next]_vars PROVE Ended'
<1>0. mask \in Seq({0, 1}) /\ Len(mask) \in Nat /\ assistantTurns \in Nat
    BY LenProperties DEF IInv, TypeOK
<1>1. CASE Start
    BY <1>1 DEF Start, Ended
<1>2. ASSUME NEW n \in Nat, Generated(n), ~settings'.interactive, ~settings'.emptyGenerations
      PROVE  Len(mask') > 0 /\ mask'[Least(Len(mask'), ResponseLength)] = 1
  <2>1. n > 0 /\ Len(mask) < ResponseLength
      BY <1>2 DEF Generated, RoomLeft
  <2>2. GrownBy(n, assistantTurns + 1, 1)
    <3>1. /\ assistantTurns + 1 \in Int /\ 1 \in {0, 1}
          /\ promptIds' = promptIds \o Tokens(n, assistantTurns + 1)
          /\ mask' = mask \o Tokens(n, 1)
        BY <1>0, <1>2 DEF Generated
    <3> QED
        BY <3>1, Grown, Zenon
  <2>3. Least(Len(mask'), ResponseLength) \in (Len(mask) + 1)..(Len(mask) + n)
      BY <1>0, <2>1, <2>2 DEF GrownBy, Least
  <2> QED
      BY <1>0, <2>1, <2>2, <2>3 DEF GrownBy
<1>3. ASSUME NEW n \in Nat, Observed(n) PROVE Ended'
    BY <1>3 DEF Observed, Ended, RoomLeft
<1>4. CASE ListsKept
    BY <1>4 DEF ListsKept, Ended
<1> QED
    BY <1>1, <1>2, <1>3, <1>4, Steps DEF Ended

(* The terminal reward, placed on the last token of the response, lands on  *)
(* a generated token, when tools only answer and the server never answers   *)
(* with no token.                                                           *)
THEOREM ResponseEndsGenerated == Spec => []EndsWithGenerated
<1>1. Init => RoomLeft /\ Ended
    BY DEF Init, RoomLeft, Ended
<1>2. IInv /\ RoomLeft /\ Ended /\ [Next]_vars => RoomLeft' /\ Ended'
    BY RoomLeftStep, EndedStep
<1>3. IInv /\ Ended => EndsWithGenerated
  <2> SUFFICES ASSUME IInv, Ended, phase = "terminated",
                      ~settings.interactive, ~settings.emptyGenerations
               PROVE  OutputResponse # <<>> /\ OutputResponse[Len(OutputResponse)] > 0
      BY DEF EndsWithGenerated
  <2> DEFINE r == LastTokens(Len(mask))
             m == Least(Len(mask), ResponseLength)
  <2>1. Len(mask) \in Nat /\ Len(mask) > 0 /\ mask[m] = 1 /\ mask # <<>>
      BY LenProperties DEF IInv, TypeOK, Ended
  <2>2. m \in 1..Len(mask)
      BY <2>1 DEF Least
  <2>3. /\ r \in Seq(Int) /\ Len(r) = Len(mask)
        /\ \A k \in 1..Len(mask) : r[k] = promptIds[Offset + k]
      BY <2>1, LastTokensProperties
  <2>4. Len(OutputResponse) = m /\ OutputResponse[m] = r[m]
    <3>1. /\ Len(Truncated(r)) = Least(Len(r), ResponseLength)
          /\ \A k \in 1..Least(Len(r), ResponseLength) : Truncated(r)[k] = r[k]
        BY <2>3, TruncatedProperties
    <3> HIDE DEF r, m
    <3>2. Len(Truncated(r)) = m /\ m \in 1..m
        BY <2>2, <2>3, <3>1 DEF m
    <3> QED
        BY <2>3, <3>1, <3>2 DEF OutputResponse, m, r
  <2>5. promptIds[Offset + m] > 0
      BY <2>1, <2>2 DEF IInv, Aligned
  <2> HIDE DEF r, m
  <2>6. OutputResponse # <<>>
      BY <2>2, <2>4
  <2> QED
      BY <2>2, <2>3, <2>4, <2>5, <2>6
<1> QED
    BY <1>1, <1>2, <1>3, Alignment, PTL DEF Spec
==============================================================================
