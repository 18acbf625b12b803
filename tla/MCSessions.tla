---------------------------- MODULE MCSessions ----------------------------
(***************************************************************************)
(* Sessions on small instances: one user with three pairs of tokens, and   *)
(* the two requests that an interference takes.                            *)
(***************************************************************************)
EXTENDS Sessions, TLC

Symmetry == Permutations(Requests)

ResetEndpoints == {"verify-otp", "reset-password"}

(***************************************************************************)
(* What a document says of the sessions, and the code does not do.         *)
(***************************************************************************)

(* documentation/api.md:29: a password reset "signs out all existing       *)
(* sessions".  The refresh tokens of those sessions go on working.         *)
ResetEndsSessions == \A t \in Tokens : Live(t) => root[t] \notin voided

=============================================================================
