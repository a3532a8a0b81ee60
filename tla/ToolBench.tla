------------------------------ MODULE ToolBench ------------------------------
(***************************************************************************)
(* One call of one tool: a tool is asked for, then given one input. The    *)
(* modules that extend this one say which inputs, and relate what the tool *)
(* computes from its input to an independent definition of what it should. *)
(***************************************************************************)
VARIABLES tool,      \* the tool that was given its input, or "none"
          in         \* its input; before, the name of the tool asked for

vars == <<tool, in>>

AskFor(Tools) == tool = "none" /\ in \in Tools

Give(t, S) == tool = "none" /\ in = t /\ tool' = t /\ in' \in S
=============================================================================
