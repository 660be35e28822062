--------------------------- MODULE MCToolAgentLoop ---------------------------
(* TLC instance of ToolAgentLoop.                                           *)
EXTENDS ToolAgentLoop

(* Tools only, with both turn limits; the same after a prompt longer than   *)
(* prompt_length, in a context that ends before the response does; and an   *)
(* interaction, without limits and with a server that may answer nothing.   *)
ToolsOnly ==
    [interactive |-> FALSE, phaseTimeout |-> TRUE, emptyGenerations |-> FALSE,
     maxAssistantTurns |-> 3, maxUserTurns |-> 2, promptTokens |-> 1, maxModelLen |-> 12]
ShortContext ==
    [ToolsOnly EXCEPT !.promptTokens = 3, !.maxModelLen = 9]
Interaction ==
    [interactive |-> TRUE, phaseTimeout |-> TRUE, emptyGenerations |-> TRUE,
     maxAssistantTurns |-> 0, maxUserTurns |-> 0, promptTokens |-> 1, maxModelLen |-> 12]
AllSettings == {ToolsOnly, ShortContext, Interaction}
==============================================================================
