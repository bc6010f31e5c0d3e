------------------------------- MODULE CiPoller -------------------------------
(***************************************************************************)
(* The CI poller of the dashboard (dashboard/server.js, pollCIRuns) beside *)
(* the live stream: every five minutes it asks GitHub for the latest       *)
(* workflow runs and appends a line for each completed one that it has not *)
(* seen.  Polls overlap when an answer is late.  An answer is taken up in  *)
(* one callback, which other processes' writes may fall into and nothing   *)
(* else of the dashboard's (looping).  A restart reads the runs it has     *)
(* seen back from the log.                                                 *)
(***************************************************************************)
EXTENDS ActivityStream

CONSTANTS Polls     \* calls of pollCIRuns that are under way at a time

VARIABLES
    github,     \* github[r] = what GitHub knows of run r
    seenRunIds,
    poll,       \* poll[q] = where poll q stands, and the runs it was told of
                \* and has not yet handled, by the status it was told
    looping,    \* the polls whose callback runs: one at most
    shown       \* history: shown[r] = whether a poll was told r is completed

vars == <<streamVars, github, seenRunIds, poll, looping, shown>>
ciVars == <<github, seenRunIds, poll, looping, shown>>

RunStatus == {"unknown", "in_progress", "completed", "in_progress_again"}

TypeOK ==
    /\ StreamTypeOK
    /\ github \in [Runs -> RunStatus]
    /\ seenRunIds \in SUBSET Runs
    /\ poll \in [Polls -> [pc : {"idle", "asking", "answered"},
                           unfinished : SUBSET Runs, completed : SUBSET Runs]]
    /\ looping \in SUBSET Polls
    /\ shown \in [Runs -> {"no", "yes", "append_failed"}]

Idle == [pc |-> "idle", unfinished |-> {}, completed |-> {}]

Init ==
    /\ StreamInit
    /\ github = [r \in Runs |-> "unknown"]
    /\ seenRunIds = {}
    /\ poll = [q \in Polls |-> Idle]
    /\ looping = {}
    /\ shown = [r \in Runs |-> "no"]

(* A run starts, completes, and may be run again under its id. *)
Advance(r) ==
    /\ \/ github[r] = "unknown" /\ github' = [github EXCEPT ![r] = "in_progress"]
       \/ /\ github[r] \in {"in_progress", "in_progress_again"}
          /\ github' = [github EXCEPT ![r] = "completed"]
       \/ github[r] = "completed" /\ github' = [github EXCEPT ![r] = "in_progress_again"]
    /\ UNCHANGED <<streamVars, seenRunIds, poll, looping, shown>>

Ask(q) ==
    /\ looping = {}
    /\ poll[q].pc = "idle"
    /\ poll' = [poll EXCEPT ![q].pc = "asking"]
    /\ UNCHANGED <<streamVars, github, seenRunIds, looping, shown>>

(* GitHub's answer: some of the runs it knows, as they are now.  An answer *)
(* without runs, or none, ends the poll.                                   *)
AnswerPoll(q) ==
    /\ poll[q].pc = "asking"
    /\ \E told \in SUBSET {r \in Runs : github[r] # "unknown"} :
           poll' = [poll EXCEPT ![q] =
               IF told = {} THEN Idle
               ELSE [pc         |-> "answered",
                     unfinished |-> {r \in told : github[r] # "completed"},
                     completed  |-> {r \in told : github[r] = "completed"}]]
    /\ UNCHANGED <<streamVars, github, seenRunIds, looping, shown>>

(* The poll without the run; it is over with its last one. *)
Handled(q, r) ==
    LET rest == [pc         |-> "answered",
                 unfinished |-> poll[q].unfinished \ {r},
                 completed  |-> poll[q].completed \ {r}]
        over == rest.unfinished \cup rest.completed = {}
    IN  /\ r \in poll[q].unfinished \cup poll[q].completed
        /\ looping \subseteq {q}
        /\ poll' = [poll EXCEPT ![q] = IF over THEN Idle ELSE rest]
        /\ looping' = IF over THEN {} ELSE {q}
        /\ shown' = IF r \in poll[q].completed /\ shown[r] = "no"
                    THEN [shown EXCEPT ![r] = "yes"] ELSE shown

(* Mutant: the status is not looked at. *)
HandleRun_AnyStatus(q, r) ==
    /\ Handled(q, r)
    /\ seenRunIds' = seenRunIds \cup {r}
    /\ IF r \in seenRunIds THEN UNCHANGED streamVars ELSE appendActivity(r)
    /\ UNCHANGED github

(* One turn of the loop.  (The line is wide: its detail has dashes.) *)
HandleRun(q, r) ==
    /\ Handled(q, r)
    /\ seenRunIds' = seenRunIds \cup {r}
    /\ IF r \in poll[q].completed \ seenRunIds
       THEN appendActivity(r)
       ELSE UNCHANGED streamVars
    /\ UNCHANGED github

(* The append fails: the run is marked, and the poll gives up silently. *)
FailRun(q, r) ==
    /\ r \in poll[q].completed \ seenRunIds
    /\ looping \subseteq {q}
    /\ seenRunIds' = seenRunIds \cup {r}
    /\ poll' = [poll EXCEPT ![q] = Idle]
    /\ looping' = {}
    /\ shown' = [shown EXCEPT ![r] = "append_failed"]
    /\ UNCHANGED <<streamVars, github>>

LoggedRuns == {r \in Runs : \E p \in DOMAIN file : file[p] = r /\ Readable(p)}

(* Mutant: a new process knows nothing of the old one's lines. *)
Restart_Unseeded ==
    /\ StreamRestart
    /\ seenRunIds' = {}
    /\ poll' = [q \in Polls |-> Idle]
    /\ looping' = {}
    /\ UNCHANGED <<github, shown>>

(* The dashboard ends, also amid a loop, and starts again: it forgets its  *)
(* polls and takes the runs it has seen from the log.                      *)
Restart ==
    /\ StreamRestart
    /\ seenRunIds' = LoggedRuns
    /\ poll' = [q \in Polls |-> Idle]
    /\ looping' = {}
    /\ UNCHANGED <<github, shown>>

CiStep(q) ==
    \/ Ask(q) \/ AnswerPoll(q)
    \/ \E r \in Runs : HandleRun(q, r) \/ FailRun(q, r)

Next ==
    \/ OthersStep /\ UNCHANGED ciVars
    \/ looping = {} /\ StreamStep /\ UNCHANGED ciVars
    \/ \E r \in Runs : Advance(r)
    \/ \E q \in Polls : CiStep(q)
    \/ Restart

Spec == Init /\ [][Next]_vars

-----------------------------------------------------------------------------
(* Properties                                                              *)

(* No run has two lines in the log that can be read, although polls        *)
(* overlap, answers are stale, lines are spoilt by other writers and the   *)
(* dashboard restarts between any two writes.                              *)
RunLoggedOnce ==
    \A p, q \in DOMAIN file :
        file[p] = file[q] /\ file[p] \in Runs
        /\ Readable(p) /\ Readable(q) => p = q

(* A run in the log has been completed, though it may be running again. *)
LoggedIsCompleted ==
    \A p \in DOMAIN file :
        file[p] \in Runs => github[file[p]] \in {"completed", "in_progress_again"}

(* "write a ci entry for each newly-completed run" (server.js): a run that *)
(* a poll was told is completed is in the log, unless its append failed.   *)
(* It does not hold: see the README, known divergences.                    *)
RunReported ==
    \A r \in Runs : shown[r] = "yes" => \E p \in DOMAIN file : file[p] = r

-----------------------------------------------------------------------------
(* The inductive invariant                                                 *)

(* A run whose line can be read has been seen. *)
SeenInv ==
    \A p \in DOMAIN file : file[p] \in Runs /\ Readable(p) => file[p] \in seenRunIds

(* What a poll was told is completed has been completed. *)
ToldInv ==
    \A q \in Polls : \A r \in poll[q].completed :
        github[r] \in {"completed", "in_progress_again"}

CiInv == TypeOK /\ SeenInv /\ ToldInv /\ RunLoggedOnce /\ LoggedIsCompleted

==============================================================================
