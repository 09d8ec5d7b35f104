-------------------------- MODULE MCStackRegistry --------------------------
(***************************************************************************)
(* StackRegistry with one text that parses as each of the contents a file  *)
(* can have, and one that does not parse.                                  *)
(***************************************************************************)
EXTENDS StackRegistry

CONSTANTS fa, fb, bad, a, b, odd, alice, bob, front, back, agent

Parses ==
    [f \in Files \cup {NoFile} |-> CASE f = fa -> a [] f = fb -> b [] OTHER -> None]
=============================================================================
