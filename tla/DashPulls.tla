------------------------------- MODULE DashPulls -------------------------------
(***************************************************************************)
(* The open pull requests of the overview (App.tsx: PRPanel), their checks *)
(* and the merge button (dashboard/server.js: /api/github/prs,             *)
(* /pr/:number/checks, /pr/:number/merge).  The button is offered on what  *)
(* two reads told, and the merge is asked for by number alone.             *)
(*                                                                         *)
(* One pull request is followed; of the others only that merging one sets  *)
(* and clears the same flag.  The overview can be mounted anew at any      *)
(* moment (auto-refresh): what was asked of GitHub stays under way.        *)
(***************************************************************************)
EXTENDS Integers

CONSTANTS
    Slots,      \* bound: loads under way at once
    Clicks,     \* bound: merge requests under way at once
    MaxChanges  \* bound: changes of the pull request at GitHub

PullsAssumption == MaxChanges \in Nat

VARIABLES
    pr,      \* the pull request at GitHub
    panel,   \* the page's panel
    lists,   \* its loads under way
    merges   \* the merge requests under way

pullsVars == <<pr, panel, lists, merges>>

(* What was read of a pull request: No, or the state it was fit to merge   *)
(* in, as a number that its changes count.                                 *)
No == -1

Read == {No} \cup 0..MaxChanges

(* It is ready when it goes to dev and is no draft; its checks are green   *)
(* when there are some, all have completed, and none has failed or was     *)
(* cancelled: those of the first 50, for which the server asks, and which  *)
(* are taken to be all there are.                                          *)
Pull(ready, green, rev) ==
    [ready |-> ready, green |-> green, rev |-> rev, merged |-> FALSE]

Panel(on) ==
    [mounted |-> on, listed |-> No, checks |-> No, loading |-> on,
     merging |-> "none", others |-> FALSE, mergedNums |-> FALSE]

PanelStart == Panel(TRUE)
PanelOff   == Panel(FALSE)

Load(state, listed, checks) == [state |-> state, listed |-> listed, checks |-> checks]

Free == Load("free", No, No)
Sent == Load("sent", No, No)

(* mine: its answer goes to the panel that is mounted.  History: basis,    *)
(* the older of what the list and the checks told of, and disturbed, that  *)
(* the panel's flag was lost since the click.                              *)
NoMerge == [state |-> "free", basis |-> No, disturbed |-> TRUE, mine |-> FALSE]

PullsTypeOK ==
    /\ pr \in [ready : BOOLEAN, green : BOOLEAN, rev : 0..MaxChanges, merged : BOOLEAN]
    /\ panel \in [mounted : BOOLEAN, listed : Read, checks : Read, loading : BOOLEAN,
                  merging : {"none", "this", "other"}, others : BOOLEAN,
                  mergedNums : BOOLEAN]
    /\ lists \in [Slots -> [state : {"free", "sent", "read", "checking", "checked"},
                            listed : Read, checks : Read]]
    /\ merges \in [Clicks -> [state : {"free", "sent", "merged", "refused"},
                              basis : Read, disturbed : BOOLEAN, mine : BOOLEAN]]

PullsInit ==
    /\ pr = Pull(TRUE, TRUE, 0)
    /\ panel = PanelOff
    /\ lists = [s \in Slots |-> Free]
    /\ merges = [c \in Clicks |-> NoMerge]

FirstLoad ==
    \E first \in Slots, second \in Slots :
       lists' = [s \in Slots |-> IF s \in {first, second} THEN Sent ELSE Free]

PullsMount ==
    /\ \E ready, green \in BOOLEAN : pr' = Pull(ready, green, 0)
    /\ panel' = PanelStart
    /\ FirstLoad
    /\ merges' = [c \in Clicks |-> NoMerge]

(* The overview under a new key. *)
PullsRemount ==
    /\ panel.mounted
    /\ panel' = PanelStart
    /\ FirstLoad
    /\ merges' = [c \in Clicks |-> [merges[c] EXCEPT !.mine = FALSE, !.disturbed = TRUE]]
    /\ UNCHANGED pr

PullsUnmount ==
    /\ pr' = Pull(TRUE, TRUE, 0)
    /\ panel' = PanelOff
    /\ lists' = [s \in Slots |-> Free]
    /\ merges' = [c \in Clicks |-> NoMerge]

-----------------------------------------------------------------------------
(* The list and the checks                                                 *)

(* The button, or the timer that is set after a merge. *)
load ==
    /\ panel.mounted
    /\ \E s \in Slots :
          /\ lists[s].state = "free"
          /\ lists' = [lists EXCEPT ![s] = Sent]
    /\ panel' = [panel EXCEPT !.loading = TRUE]
    /\ UNCHANGED <<pr, merges>>

(* GitHub lists what is open, or refuses: not a list is an empty one. *)
GitHubLists(s) ==
    /\ lists[s].state = "sent"
    /\ \E listed \in {No} \cup (IF pr.ready /\ ~pr.merged THEN {pr.rev} ELSE {}) :
          lists' = [lists EXCEPT ![s] = Load("read", listed, No)]
    /\ UNCHANGED <<pr, panel, merges>>

(* The list is shown, and the checks of what it lists are asked for. *)
ListAnswered(s) ==
    /\ lists[s].state = "read"
    /\ panel' = [panel EXCEPT !.listed = lists[s].listed, !.loading = FALSE]
    /\ lists' = [lists EXCEPT ![s] = Load("checking", No, No)]
    /\ UNCHANGED <<pr, merges>>

ListFails(s) ==
    /\ lists[s].state \in {"sent", "read"}
    /\ panel' = [panel EXCEPT !.loading = FALSE]
    /\ lists' = [lists EXCEPT ![s] = Free]
    /\ UNCHANGED <<pr, merges>>

(* The runs of the head; none when GitHub or the server fails. *)
GitHubChecks(s) ==
    /\ lists[s].state = "checking"
    /\ \E checks \in {No} \cup (IF pr.green THEN {pr.rev} ELSE {}) :
          lists' = [lists EXCEPT ![s] = Load("checked", No, checks)]
    /\ UNCHANGED <<pr, panel, merges>>

(* setChecks, with those of all that were listed, whichever load it was. *)
ChecksAnswered(s) ==
    /\ lists[s].state = "checked"
    /\ panel' = [panel EXCEPT !.checks = lists[s].checks]
    /\ lists' = [lists EXCEPT ![s] = Free]
    /\ UNCHANGED <<pr, merges>>

-----------------------------------------------------------------------------
(* The merge button                                                        *)

(* prCheckSummary *)
allGreen == panel.checks # No

(* Mutant: the checks are shown, and not asked. *)
canMerge_AnyChecks == panel.listed # No /\ ~panel.mergedNums

canMerge == allGreen /\ panel.listed # No /\ ~panel.mergedNums

Older(m, n) == IF m < n THEN m ELSE n

Click ==
    /\ \E c \in Clicks :
          /\ merges[c].state = "free"
          /\ merges' = [merges EXCEPT ![c] =
                [state |-> "sent", basis |-> Older(panel.listed, panel.checks),
                 disturbed |-> FALSE, mine |-> TRUE]]
    /\ panel' = [panel EXCEPT !.merging = "this"]
    /\ UNCHANGED <<pr, lists>>

(* Mutant: the button is not disabled while its request is under way. *)
mergePr_NotDisabled == panel.mounted /\ canMerge /\ Click

mergePr == panel.mounted /\ canMerge /\ panel.merging # "this" /\ Click

Disturb == merges' = [c \in Clicks |-> [merges[c] EXCEPT !.disturbed = TRUE]]

(* Another pull request is merged: its click takes the flag, its finally   *)
(* drops it.                                                               *)
MergeOther ==
    /\ panel.mounted /\ ~panel.others
    /\ panel' = [panel EXCEPT !.merging = "other", !.others = TRUE]
    /\ Disturb
    /\ UNCHANGED <<pr, lists>>

OtherMerged ==
    /\ panel.others
    /\ panel' = [panel EXCEPT !.merging = "none", !.others = FALSE]
    /\ Disturb
    /\ UNCHANGED <<pr, lists>>

(* GitHub merges an open pull request, or refuses (a draft, a rule of the  *)
(* branch, a conflict, no token on the server: 403).                       *)
GitHubMerges(c) ==
    /\ merges[c].state = "sent"
    /\ \/ /\ ~pr.merged
          /\ pr' = [pr EXCEPT !.merged = TRUE]
          /\ merges' = [merges EXCEPT ![c].state = "merged"]
       \/ /\ merges' = [merges EXCEPT ![c].state = "refused"]
          /\ UNCHANGED pr
    /\ UNCHANGED <<panel, lists>>

(* A click's answer drops the flag, whichever click it was set for. *)
Finish(c) ==
    merges' = [d \in Clicks |->
                 IF d = c THEN NoMerge
                 ELSE [merges[d] EXCEPT !.disturbed = @ \/ merges[c].mine]]

(* r.ok: merged, and a load in 1500 ms (load may come at any time).  An    *)
(* answer that is lost is as good as a refusal.  finally: the flag drops.  *)
MergeAnswered(c) ==
    /\ merges[c].state \in {"merged", "refused"}
    /\ Finish(c)
    /\ \E told \in {merges[c].state, "refused"} :
          panel' = IF ~merges[c].mine THEN panel
                   ELSE [panel EXCEPT !.merging = "none",
                           !.mergedNums = @ \/ told = "merged"]
    /\ UNCHANGED <<pr, lists>>

-----------------------------------------------------------------------------
(* A push, a re-run, a new base, a draft that is marked ready. *)
PullChanges ==
    /\ panel.mounted /\ ~pr.merged /\ pr.rev < MaxChanges
    /\ \E ready, green \in BOOLEAN : pr' = Pull(ready, green, pr.rev + 1)
    /\ UNCHANGED <<panel, lists, merges>>

PullsNext ==
    \/ load \/ mergePr \/ MergeOther \/ OtherMerged \/ PullChanges
    \/ \E s \in Slots : GitHubLists(s) \/ ListAnswered(s) \/ ListFails(s)
                        \/ GitHubChecks(s) \/ ChecksAnswered(s)
    \/ \E c \in Clicks : GitHubMerges(c) \/ MergeAnswered(c)

-----------------------------------------------------------------------------

(* What the button merged goes to dev with checks that have all completed  *)
(* without a failure, unless the pull request changed at GitHub after the  *)
(* page read it so: no commit is named in the request (PRPanel: canMerge;     *)
(* server.js: pr/:number/merge).                                           *)
NothingRedUnlessMoved ==
    \A c \in Clicks :
       merges[c].state = "merged" =>
          (pr.ready /\ pr.green) \/ merges[c].basis \in 0 .. pr.rev - 1

(* Who waits for the list or for a merge waits for a request of the panel. *)
WaitingIsTrue ==
    /\ panel.loading => \E s \in Slots : lists[s].state \in {"sent", "read"}
    /\ panel.merging = "this" => \E c \in Clicks : merges[c].mine

(* "merged" is said of a pull request that GitHub has merged. *)
BadgeIsTrue == panel.mergedNums => pr.merged

(* A merge of one pull request is asked for again while it is under way    *)
(* only when the overview was mounted anew or another's answer took the    *)
(* flag (PRPanel: merging is one number, and every finally clears it).     *)
OneMergeAtATime ==
    \A c, d \in Clicks :
       c # d /\ merges[c].state # "free" /\ merges[d].state # "free"
          => merges[c].disturbed \/ merges[d].disturbed

==============================================================================
