----------------------------- MODULE VectorLog -----------------------------
(***************************************************************************)
(* What the segment store promises about vectors, whatever files hold      *)
(* them: a set of vectors that only grows, one id at a time.  LsmStore     *)
(* implements it, and its flush is the only step that is not a stutter.    *)
(***************************************************************************)
EXTENDS Integers

CONSTANT NumBase    \* vectors the log starts with

VARIABLES stored, next

vars == <<stored, next>>

Init == stored = 0..NumBase - 1 /\ next = NumBase

Append ==
  /\ stored' = stored \cup {next}
  /\ next' = next + 1

Spec == Init /\ [][Append]_vars
=============================================================================
