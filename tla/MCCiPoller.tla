------------------------------ MODULE MCCiPoller ------------------------------
(* Two polls overlap over one run, whose line is wide, while the backend   *)
(* and the dashboard write other lines.  The file has room for three, or   *)
(* for a line of the run that another spoils and a second line of the run. *)
EXTENDS CiPoller, TLC

CONSTANTS r1, q1, q2, client

MCRuns    == {r1}
MCPolls   == {q1, q2}
MCDocs    == {}
MCClients == {client}

Symmetry == Permutations(MCPolls)

==============================================================================
