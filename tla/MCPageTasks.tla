---------------------------- MODULE MCPageTasks -----------------------------
(*
Pages of one host that link two stylesheets, which import each other.
*)
EXTENDS PageTasks

CONSTANTS s1, s2

CircularImport == [r \in {s1, s2} |-> {s1, s2} \ {r}]

=============================================================================
