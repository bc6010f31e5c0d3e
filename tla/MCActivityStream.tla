--------------------------- MODULE MCActivityStream ---------------------------
(* The backend, the dashboard and a document's watcher write three lines   *)
(* at most, and a client comes and goes.  The lines of the backend are     *)
(* wide, those of the dashboard are not.                                   *)
EXTENDS ActivityStream, TLC

CONSTANTS inbox, client

MCRuns    == {}
MCDocs    == {inbox}
MCClients == {client}
MCWide    == {"backend"}

==============================================================================
