-------------------------------- MODULE MCVM --------------------------------
(***************************************************************************)
(* Instances of module VMSafety for TLC.                                   *)
(*                                                                         *)
(* The library is what module Compiler emits for the lines of module       *)
(* Sources.  Each configuration picks the lines that may be typed.         *)
(***************************************************************************)
EXTENDS VMSafety, Sources, Verifier

(* TLC computes a definition once, but not the one a constant is replaced  *)
(* by: hence the two of each, and LETs that keep what they hold.           *)
Emitted == FoldLeft(Load, << >>, Lines)
EmittedHeights == HeightsOf(Emitted)

MCLibrary == LET emitted == Emitted IN emitted
MCHeights == LET heights == EmittedHeights IN heights
MCLocals == LET locals == LocalsOf(Emitted, EmittedHeights) IN locals

(* The function of the k-th line: the last of those it compiles to.        *)
Script(k) == Len(FoldLeft(Load, << >>, SubSeq(Lines, 1, k)))

-----------------------------------------------------------------------------
(* The lines of each configuration.                                        *)

(* Never fail, do not call clock(), and let no closure outlive the call    *)
(* that made it.                                                           *)
CleanScripts == {Script(k) : k \in {1, 2, 3}}

(* A recursion that ends, if there are frames left for it, one that a      *)
(* limit stops, a call of clock(), a closure that outlives the call that   *)
(* made it, its call by a later line, at whatever height calls of clock()  *)
(* and failed lines have left the stack, and by a loop: without the        *)
(* closure the call fails, and a later line goes on with the loop, once    *)
(* for each time that the loop comes to the call.                          *)
EscapeScripts == {Script(k) : k \in {1, 4, 5, 6, 7, 9}}

NativeScripts == {Script(5)}
RecursionScripts == {Script(8)}
=============================================================================
