----------------------------- MODULE WholeLines -----------------------------
(***************************************************************************)
(* The compiler of module Compiler, from a line's first token to its last  *)
(* in one step: what TLC compiles a line with where it is the result that  *)
(* matters.                                                                *)
(***************************************************************************)
EXTENDS Compiler

(* At most 2^n steps.                                                      *)
RECURSIVE Run(_, _)
Run(c, n) == IF Ended(c) THEN c ELSE IF n = 0 THEN DoTask(c) ELSE Run(Run(c, n - 1), n - 1)

(* The compiler when compile has returned, or never will.  The functions   *)
(* of the line are in its field of that name; the line's own is the last.  *)
Compile(source) == Run(Start(source), 16)
=============================================================================
