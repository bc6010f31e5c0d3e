---------------------------- MODULE MCReferenceApp ----------------------------
(* Two users at one page, and two scripts beside it.                       *)
EXTENDS ReferenceApp

CONSTANTS s1, t1, t2

MCSends   == {s1}
MCScripts == {t1, t2}
MCBuilds  == MCSends \cup MCScripts

==============================================================================
