------------------------------ MODULE MCDashboard ------------------------------
(***************************************************************************)
(* The dashboard for TLC: two requests of a kind at once, two of what is   *)
(* selected, two posts, three entries in a list of two.                    *)
(***************************************************************************)
EXTENDS Dashboard, TLC

CONSTANTS small, large

MCPagesOf == small :> 1 @@ large :> 2

\* No property names a request.
RequestSymmetry == Permutations(Slots)

==============================================================================
