---------------------------- MODULE MCToolJournal ----------------------------
(***************************************************************************)
(* Instances of ToolJournal for TLC.                                       *)
(***************************************************************************)
EXTENDS ToolJournal

CONSTANTS w1, w2

\* two executions that may overlap
MCWorkers == {w1, w2}

\* The calls of a turn.  A built-in behaves as an MCP call that cannot fail in
\* transport, so that the run over all kinds leaves it out; the two instances
\* below are those of the README's findings about single kinds.
MCAllKinds     == <<"advisor", "coordinator", "skill", "mcp">>
MCSkillKinds   == <<"skill", "mcp">>
MCBuiltinKinds == <<"builtin">>
=============================================================================
