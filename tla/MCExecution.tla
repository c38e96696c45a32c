---------------------------- MODULE MCExecution -----------------------------
(* An instance of module Execution for TLC.                                 *)
EXTENDS ProgramLines, Execution

(* The lines that compile and what they compile to, computed once, as in    *)
(* module MCVM.                                                             *)
MCCorpus == LET linked == Typeable IN linked.texts
MCLibrary == LET linked == Typeable IN linked.library
MCFunctions == LET linked == Typeable IN linked.origins
MCScript == LET linked == Typeable IN linked.scripts
MCScripts == LET linked == Typeable IN ToSet(linked.scripts)

(* A line of several statements is the only one of its session.             *)
MCNextLines(lines) ==
  LET one == DOMAIN Simple
  IN  CASE lines = << >> -> DOMAIN Corpus
        [] Len(lines) \in 1 .. 2 /\ ToSet(lines) \subseteq one -> one
        [] OTHER -> {}
=============================================================================
