--------------------------- MODULE MCToolRuntime ----------------------------
(* TLC instance of ToolRuntime: call ids are interchangeable, a read-only    *)
(* tool has a limit of its own in the agent's definition, and any tool may   *)
(* be run once (the default of ToolSpec).                                    *)
EXTENDS ToolRuntime, TLC

Identifiers == Permutations(Ids)
MCMaxByTool == [t \in ReadOnly |-> 1]
MCMaxPerRun == [t \in Registered |-> 1]
=============================================================================
