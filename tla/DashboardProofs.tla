--------------------------- MODULE DashboardProofs ---------------------------
(* The properties of the dashboard's panels, for any number of requests,   *)
(* clicks, tables and entries.  A panel's variables are its own:   *)
(* each has an invariant of its own, which the steps of the others leave   *)
(* alone.                                                                  *)
EXTENDS Dashboard, FiniteSets, SequenceTheorems, TLAPS

-----------------------------------------------------------------------------
(* Pull requests.  What was read is of a state the pull request was fit    *)
(* in, the present one only if it is fit now; of the merges under way the  *)
(* one that was not disturbed holds the panel's flag.                      *)
Fit(n, ok) == n = P!No \/ (n \in 0 .. pr.rev /\ (n = pr.rev => ok))

PullsFit ==
    /\ Fit(panel.listed, pr.ready) /\ Fit(panel.checks, pr.green)
    /\ \A s \in PullSlots : Fit(lists[s].listed, pr.ready) /\ Fit(lists[s].checks, pr.green)

MergesFit ==
    \A c \in Clicks : merges[c].state # "free" =>
       /\ merges[c].basis \in 0 .. pr.rev
       /\ merges[c].basis = pr.rev => pr.ready /\ pr.green
       /\ merges[c].state = "merged" => pr.merged
       /\ merges[c].disturbed \/ (merges[c].mine /\ panel.merging = "this")

PullsInv ==
    /\ P!PullsTypeOK /\ P!WaitingIsTrue /\ PullsFit /\ MergesFit
    /\ P!BadgeIsTrue /\ P!OneMergeAtATime

LEMMA PullsGoals ==
    PullsInv => P!NothingRedUnlessMoved /\ P!BadgeIsTrue /\ P!OneMergeAtATime /\ P!WaitingIsTrue
<1> SUFFICES ASSUME PullsInv, NEW c \in Clicks, merges[c].state = "merged"
    PROVE  (pr.ready /\ pr.green) \/ merges[c].basis \in 0 .. pr.rev - 1
  BY DEF PullsInv, P!NothingRedUnlessMoved
<1>1. merges[c].basis \in 0 .. pr.rev /\ (merges[c].basis = pr.rev => pr.ready /\ pr.green)
  BY DEF PullsInv, MergesFit
<1>2. pr.rev \in Nat
  BY DEF PullsInv, P!PullsTypeOK
<1> QED BY <1>1, <1>2

PullsConstants == MaxPulls \in Nat

LEMMA PullsConstantsOK == PullsConstants
BY DashboardAssumption DEF DashboardAssumption, P!PullsAssumption, PullsConstants

LEMMA FreeTyped ==
    /\ P!Free \in [state : {"free", "sent", "read", "checking", "checked"},
                   listed : P!Read, checks : P!Read]
    /\ P!Sent \in [state : {"free", "sent", "read", "checking", "checked"},
                   listed : P!Read, checks : P!Read]
    /\ P!Free.state = "free" /\ P!Free.listed = P!No /\ P!Free.checks = P!No
    /\ P!Sent.state = "sent" /\ P!Sent.listed = P!No /\ P!Sent.checks = P!No
    /\ P!NoMerge \in [state : {"free", "sent", "merged", "refused"},
                      basis : P!Read, disturbed : BOOLEAN, mine : BOOLEAN]
    /\ P!NoMerge.state = "free" /\ ~P!NoMerge.mine
BY DEF P!Free, P!Sent, P!Load, P!Read, P!NoMerge

(* load, GitHubLists, ... : the steps of the list and the checks. *)
LEMMA LoadKeeps == ASSUME PullsInv, P!load PROVE PullsInv'
<1>1. PICK s \in PullSlots : lists[s].state = "free" /\ lists' = [lists EXCEPT ![s] = P!Sent]
  BY DEF P!load
<1>2. panel' = [panel EXCEPT !.loading = TRUE] /\ UNCHANGED <<pr, merges>>
  BY DEF P!load
<1>3. P!PullsTypeOK'
  BY <1>1, <1>2, FreeTyped DEF PullsInv, P!PullsTypeOK
<1>4. P!WaitingIsTrue'
  BY <1>1, <1>2, FreeTyped DEF PullsInv, P!PullsTypeOK, P!WaitingIsTrue
<1>5. PullsFit'
  BY <1>1, <1>2, FreeTyped DEF PullsInv, P!PullsTypeOK, PullsFit, Fit
<1>6. MergesFit' /\ P!BadgeIsTrue' /\ P!OneMergeAtATime'
  BY <1>2 DEF PullsInv, P!PullsTypeOK, MergesFit, P!BadgeIsTrue, P!OneMergeAtATime
<1> QED BY <1>3, <1>4, <1>5, <1>6 DEF PullsInv


LEMMA GitHubListsKeeps ==
    ASSUME PullsInv, NEW s \in PullSlots, P!GitHubLists(s) PROVE PullsInv'
<1>1. PICK n \in {P!No} \cup (IF pr.ready /\ ~pr.merged THEN {pr.rev} ELSE {}) :
        lists' = [lists EXCEPT ![s] = P!Load("read", n, P!No)]
  BY DEF P!GitHubLists
<1>2. UNCHANGED <<pr, panel, merges>> /\ lists[s].state = "sent"
  BY DEF P!GitHubLists
<1>a. n \in P!Read /\ Fit(n, pr.ready)
  BY <1>1, PullsConstantsOK DEF PullsInv, P!PullsTypeOK, P!Read, Fit, P!No, PullsConstants
<1>t. lists \in [PullSlots -> [state : {"free", "sent", "read", "checking", "checked"},
                                listed : P!Read, checks : P!Read]]
  BY DEF PullsInv, P!PullsTypeOK
<1>b. lists' \in [PullSlots -> [state : {"free", "sent", "read", "checking", "checked"},
                                listed : P!Read, checks : P!Read]]
  BY <1>1, <1>a, <1>t DEF P!Load, P!Read
<1>3. P!PullsTypeOK'
  BY <1>b, <1>2 DEF PullsInv, P!PullsTypeOK
<1>4. P!WaitingIsTrue'
  BY <1>1, <1>2 DEF PullsInv, P!PullsTypeOK, P!WaitingIsTrue, P!Load
<1>5. PullsFit'
  BY <1>1, <1>2, <1>a DEF PullsInv, P!PullsTypeOK, PullsFit, Fit, P!Load
<1>6. MergesFit' /\ P!BadgeIsTrue' /\ P!OneMergeAtATime'
  BY <1>2 DEF PullsInv, P!PullsTypeOK, MergesFit, P!BadgeIsTrue, P!OneMergeAtATime
<1> QED BY <1>3, <1>4, <1>5, <1>6 DEF PullsInv

LEMMA ListAnsweredKeeps ==
    ASSUME PullsInv, NEW s \in PullSlots, P!ListAnswered(s) PROVE PullsInv'
<1>1. /\ panel' = [panel EXCEPT !.listed = lists[s].listed, !.loading = FALSE]
      /\ lists' = [lists EXCEPT ![s] = P!Load("checking", P!No, P!No)]
      /\ UNCHANGED <<pr, merges>>
  BY DEF P!ListAnswered
<1>a. P!No \in P!Read
  BY DEF P!Read
<1>t. lists \in [PullSlots -> [state : {"free", "sent", "read", "checking", "checked"},
                                listed : P!Read, checks : P!Read]]
  BY DEF PullsInv, P!PullsTypeOK
<1>3. P!PullsTypeOK'
  BY <1>1, <1>a, <1>t DEF PullsInv, P!PullsTypeOK, P!Load
<1>4. P!WaitingIsTrue'
  BY <1>1 DEF PullsInv, P!PullsTypeOK, P!WaitingIsTrue, P!Load
<1>5. PullsFit'
  BY <1>1 DEF PullsInv, P!PullsTypeOK, PullsFit, Fit, P!Load
<1>6. MergesFit' /\ P!BadgeIsTrue' /\ P!OneMergeAtATime'
  BY <1>1 DEF PullsInv, P!PullsTypeOK, MergesFit, P!BadgeIsTrue, P!OneMergeAtATime
<1> QED BY <1>3, <1>4, <1>5, <1>6 DEF PullsInv

LEMMA ListFailsKeeps ==
    ASSUME PullsInv, NEW s \in PullSlots, P!ListFails(s) PROVE PullsInv'
<1>1. /\ panel' = [panel EXCEPT !.loading = FALSE]
      /\ lists' = [lists EXCEPT ![s] = P!Free]
      /\ UNCHANGED <<pr, merges>>
  BY DEF P!ListFails
<1>3. P!PullsTypeOK'
  BY <1>1, FreeTyped DEF PullsInv, P!PullsTypeOK
<1>4. P!WaitingIsTrue'
  BY <1>1 DEF PullsInv, P!PullsTypeOK, P!WaitingIsTrue, P!Load
<1>5. PullsFit'
  BY <1>1, FreeTyped DEF PullsInv, P!PullsTypeOK, PullsFit, Fit, P!Load
<1>6. MergesFit' /\ P!BadgeIsTrue' /\ P!OneMergeAtATime'
  BY <1>1 DEF PullsInv, P!PullsTypeOK, MergesFit, P!BadgeIsTrue, P!OneMergeAtATime
<1> QED BY <1>3, <1>4, <1>5, <1>6 DEF PullsInv

LEMMA GitHubChecksKeeps ==
    ASSUME PullsInv, NEW s \in PullSlots, P!GitHubChecks(s) PROVE PullsInv'
<1>1. PICK n \in {P!No} \cup (IF pr.green THEN {pr.rev} ELSE {}) :
        lists' = [lists EXCEPT ![s] = P!Load("checked", P!No, n)]
  BY DEF P!GitHubChecks
<1>2. UNCHANGED <<pr, panel, merges>> /\ lists[s].state = "checking"
  BY DEF P!GitHubChecks
<1>a. n \in P!Read /\ Fit(n, pr.green)
  BY <1>1, PullsConstantsOK DEF PullsInv, P!PullsTypeOK, P!Read, Fit, P!No, PullsConstants
<1>t. lists \in [PullSlots -> [state : {"free", "sent", "read", "checking", "checked"},
                                listed : P!Read, checks : P!Read]]
  BY DEF PullsInv, P!PullsTypeOK
<1>b. lists' \in [PullSlots -> [state : {"free", "sent", "read", "checking", "checked"},
                                listed : P!Read, checks : P!Read]]
  BY <1>1, <1>a, <1>t DEF P!Load, P!Read
<1>3. P!PullsTypeOK'
  BY <1>b, <1>2 DEF PullsInv, P!PullsTypeOK
<1>4. P!WaitingIsTrue'
  BY <1>1, <1>2 DEF PullsInv, P!PullsTypeOK, P!WaitingIsTrue, P!Load
<1>5. PullsFit'
  BY <1>1, <1>2, <1>a DEF PullsInv, P!PullsTypeOK, PullsFit, Fit, P!Load
<1>6. MergesFit' /\ P!BadgeIsTrue' /\ P!OneMergeAtATime'
  BY <1>2 DEF PullsInv, P!PullsTypeOK, MergesFit, P!BadgeIsTrue, P!OneMergeAtATime
<1> QED BY <1>3, <1>4, <1>5, <1>6 DEF PullsInv

LEMMA ChecksAnsweredKeeps ==
    ASSUME PullsInv, NEW s \in PullSlots, P!ChecksAnswered(s) PROVE PullsInv'
<1>1. /\ panel' = [panel EXCEPT !.checks = lists[s].checks]
      /\ lists' = [lists EXCEPT ![s] = P!Free]
      /\ UNCHANGED <<pr, merges>> /\ lists[s].state = "checked"
  BY DEF P!ChecksAnswered
<1>3. P!PullsTypeOK'
  BY <1>1, FreeTyped DEF PullsInv, P!PullsTypeOK
<1>4. P!WaitingIsTrue'
  BY <1>1 DEF PullsInv, P!PullsTypeOK, P!WaitingIsTrue, P!Load
<1>5. PullsFit'
  BY <1>1, FreeTyped DEF PullsInv, P!PullsTypeOK, PullsFit, Fit, P!Load
<1>6. MergesFit' /\ P!BadgeIsTrue' /\ P!OneMergeAtATime'
  BY <1>1 DEF PullsInv, P!PullsTypeOK, MergesFit, P!BadgeIsTrue, P!OneMergeAtATime
<1> QED BY <1>3, <1>4, <1>5, <1>6 DEF PullsInv

(* A click comes when the flag is down for this pull request: each merge   *)
(* under way has been disturbed.                                           *)
LEMMA MergeKeeps == ASSUME PullsInv, P!mergePr PROVE PullsInv'
<1>1. PICK c \in Clicks :
        /\ merges[c].state = "free"
        /\ merges' = [merges EXCEPT ![c] =
              [state |-> "sent", basis |-> P!Older(panel.listed, panel.checks),
               disturbed |-> FALSE, mine |-> TRUE]]
  BY DEF P!mergePr, P!Click
<1>2. panel' = [panel EXCEPT !.merging = "this"] /\ UNCHANGED <<pr, lists>>
  BY DEF P!mergePr, P!Click
<1>3. panel.merging # "this" /\ panel.listed # P!No /\ panel.checks # P!No
  BY DEF P!mergePr, P!canMerge, P!allGreen
<1> DEFINE old == P!Older(panel.listed, panel.checks)
<1>4. /\ old \in P!Read /\ old \in 0 .. pr.rev
      /\ old = pr.rev => pr.ready /\ pr.green
  <2>1. panel.listed \in 0 .. pr.rev /\ (panel.listed = pr.rev => pr.ready)
    BY <1>3 DEF PullsInv, PullsFit, Fit
  <2>2. panel.checks \in 0 .. pr.rev /\ (panel.checks = pr.rev => pr.green)
    BY <1>3 DEF PullsInv, PullsFit, Fit
  <2>3. pr.rev \in 0 .. MaxPulls
    BY DEF PullsInv, P!PullsTypeOK
  <2> QED BY <2>1, <2>2, <2>3, PullsConstantsOK DEF P!Older, P!Read, PullsConstants
<1> HIDE DEF old
<1>5. P!PullsTypeOK'
  BY <1>1, <1>2, <1>4 DEF PullsInv, P!PullsTypeOK, old
<1>6. P!WaitingIsTrue'
  BY <1>1, <1>2 DEF PullsInv, P!PullsTypeOK, P!WaitingIsTrue
<1>7. PullsFit'
  BY <1>2 DEF PullsInv, P!PullsTypeOK, PullsFit, Fit
<1>8. MergesFit'
  BY <1>1, <1>2, <1>3, <1>4 DEF PullsInv, P!PullsTypeOK, MergesFit, old
<1>9. P!BadgeIsTrue'
  BY <1>2 DEF PullsInv, P!PullsTypeOK, P!BadgeIsTrue
<1>10. P!OneMergeAtATime'
  BY <1>1, <1>3 DEF PullsInv, P!PullsTypeOK, MergesFit, P!OneMergeAtATime
<1> QED BY <1>5, <1>6, <1>7, <1>8, <1>9, <1>10 DEF PullsInv

(* Another's click, and its answer, disturb all that is under way. *)
LEMMA OtherKeeps ==
    ASSUME PullsInv, P!MergeOther \/ P!OtherMerged PROVE PullsInv'
<1>1. /\ merges' = [c \in Clicks |-> [merges[c] EXCEPT !.disturbed = TRUE]]
      /\ UNCHANGED <<pr, lists>>
  BY DEF P!MergeOther, P!OtherMerged, P!Disturb
<1>2. PICK f \in {"none", "other"}, b \in BOOLEAN :
        panel' = [panel EXCEPT !.merging = f, !.others = b]
  BY DEF P!MergeOther, P!OtherMerged
<1>3. P!PullsTypeOK'
  BY <1>1, <1>2 DEF PullsInv, P!PullsTypeOK
<1>4. P!WaitingIsTrue'
  BY <1>1, <1>2 DEF PullsInv, P!PullsTypeOK, P!WaitingIsTrue
<1>5. PullsFit'
  BY <1>1, <1>2 DEF PullsInv, P!PullsTypeOK, PullsFit, Fit
<1>6. MergesFit'
  BY <1>1, <1>2 DEF PullsInv, P!PullsTypeOK, MergesFit
<1>7. P!BadgeIsTrue' /\ P!OneMergeAtATime'
  BY <1>1, <1>2 DEF PullsInv, P!PullsTypeOK, P!BadgeIsTrue, P!OneMergeAtATime
<1> QED BY <1>3, <1>4, <1>5, <1>6, <1>7 DEF PullsInv

LEMMA GitHubMergesKeeps ==
    ASSUME PullsInv, NEW c \in Clicks, P!GitHubMerges(c) PROVE PullsInv'
<1>1. PICK b \in BOOLEAN, st \in {"merged", "refused"} :
        /\ pr' = [pr EXCEPT !.merged = b] /\ (pr.merged => b) /\ (st = "merged" => b)
        /\ merges' = [merges EXCEPT ![c].state = st]
  <2>1. CASE ~pr.merged /\ pr' = [pr EXCEPT !.merged = TRUE]
             /\ merges' = [merges EXCEPT ![c].state = "merged"]
    BY <2>1
  <2>2. CASE merges' = [merges EXCEPT ![c].state = "refused"] /\ UNCHANGED pr
    <3>1. pr' = [pr EXCEPT !.merged = pr.merged] /\ pr.merged \in BOOLEAN
      BY <2>2 DEF PullsInv, P!PullsTypeOK
    <3> QED BY <2>2, <3>1
  <2> QED BY <2>1, <2>2 DEF P!GitHubMerges
<1>2. UNCHANGED <<panel, lists>> /\ merges[c].state = "sent"
  BY DEF P!GitHubMerges
<1>3. P!PullsTypeOK'
  BY <1>1, <1>2 DEF PullsInv, P!PullsTypeOK
<1>4. P!WaitingIsTrue'
  BY <1>1, <1>2 DEF PullsInv, P!PullsTypeOK, P!WaitingIsTrue
<1>5. PullsFit'
  BY <1>1, <1>2 DEF PullsInv, P!PullsTypeOK, PullsFit, Fit
<1>6. MergesFit'
  BY <1>1, <1>2 DEF PullsInv, P!PullsTypeOK, MergesFit
<1>7. P!BadgeIsTrue' /\ P!OneMergeAtATime'
  BY <1>1, <1>2 DEF PullsInv, P!PullsTypeOK, P!BadgeIsTrue, P!OneMergeAtATime
<1> QED BY <1>3, <1>4, <1>5, <1>6, <1>7 DEF PullsInv

LEMMA MergeAnsweredKeeps ==
    ASSUME PullsInv, NEW c \in Clicks, P!MergeAnswered(c) PROVE PullsInv'
<1>1. /\ merges[c].state \in {"merged", "refused"}
      /\ merges' = [d \in Clicks |-> IF d = c THEN P!NoMerge
                      ELSE [merges[d] EXCEPT !.disturbed = merges[d].disturbed \/ merges[c].mine]]
      /\ UNCHANGED <<pr, lists>>
  BY DEF P!MergeAnswered, P!Finish
<1>2. PICK told \in {merges[c].state, "refused"} :
         panel' = IF ~merges[c].mine THEN panel
                  ELSE [panel EXCEPT !.merging = "none",
                          !.mergedNums = panel.mergedNums \/ told = "merged"]
  BY DEF P!MergeAnswered
<1>3. told = "merged" => pr.merged
  BY DEF PullsInv, MergesFit
<1>4. P!PullsTypeOK'
  <2>1. merges \in [Clicks -> [state : {"free", "sent", "merged", "refused"},
                              basis : P!Read, disturbed : BOOLEAN, mine : BOOLEAN]]
    BY DEF PullsInv, P!PullsTypeOK
  <2>2. ASSUME NEW d \in Clicks
        PROVE  [merges[d] EXCEPT !.disturbed = merges[d].disturbed \/ merges[c].mine]
                 \in [state : {"free", "sent", "merged", "refused"},
                      basis : P!Read, disturbed : BOOLEAN, mine : BOOLEAN]
    BY <2>1
  <2>3. merges' \in [Clicks -> [state : {"free", "sent", "merged", "refused"},
                               basis : P!Read, disturbed : BOOLEAN, mine : BOOLEAN]]
    BY <1>1, <2>2, FreeTyped
  <2> QED BY <1>1, <1>2, <2>3 DEF PullsInv, P!PullsTypeOK
<1>5. P!WaitingIsTrue'
  BY <1>1, <1>2 DEF PullsInv, P!PullsTypeOK, P!WaitingIsTrue
<1>6. PullsFit'
  BY <1>1, <1>2 DEF PullsInv, P!PullsTypeOK, PullsFit, Fit
<1>7. MergesFit'
  BY <1>1, <1>2, FreeTyped DEF PullsInv, P!PullsTypeOK, MergesFit
<1>8. P!BadgeIsTrue'
  BY <1>1, <1>2, <1>3 DEF PullsInv, P!PullsTypeOK, P!BadgeIsTrue
<1>9. P!OneMergeAtATime'
  BY <1>1, FreeTyped DEF PullsInv, P!PullsTypeOK, P!OneMergeAtATime
<1> QED BY <1>4, <1>5, <1>6, <1>7, <1>8, <1>9 DEF PullsInv

LEMMA PullChangesKeeps == ASSUME PullsInv, P!PullChanges PROVE PullsInv'
<1>1. PICK ready \in BOOLEAN, green \in BOOLEAN : pr' = P!Pull(ready, green, pr.rev + 1)
  BY DEF P!PullChanges
<1>2. ~pr.merged /\ pr.rev < MaxPulls /\ UNCHANGED <<panel, lists, merges>>
  BY DEF P!PullChanges
<1>3. pr.rev \in 0 .. MaxPulls /\ pr'.rev = pr.rev + 1 /\ ~pr'.merged
  BY <1>1 DEF PullsInv, P!PullsTypeOK, P!Pull
<1>4. P!PullsTypeOK'
  BY <1>1, <1>2, <1>3, PullsConstantsOK DEF PullsInv, P!PullsTypeOK, P!Pull, PullsConstants
<1>5. P!WaitingIsTrue' /\ P!BadgeIsTrue' /\ P!OneMergeAtATime'
  BY <1>2 DEF PullsInv, P!WaitingIsTrue, P!BadgeIsTrue, P!OneMergeAtATime
<1>6. PullsFit'
  BY <1>2, <1>3 DEF PullsInv, PullsFit, Fit
<1>7. MergesFit'
  BY <1>2, <1>3 DEF PullsInv, MergesFit
<1> QED BY <1>4, <1>5, <1>6, <1>7 DEF PullsInv

LEMMA PanelFields ==
    /\ P!PanelOff = [mounted |-> FALSE, listed |-> P!No, checks |-> P!No, loading |-> FALSE,
                     merging |-> "none", others |-> FALSE, mergedNums |-> FALSE]
    /\ P!PanelStart = [mounted |-> TRUE, listed |-> P!No, checks |-> P!No, loading |-> TRUE,
                       merging |-> "none", others |-> FALSE, mergedNums |-> FALSE]
    /\ P!No \in P!Read
BY DEF P!PanelOff, P!PanelStart, P!Panel, P!Read

(* The first lists of a mount, and what a mount or its end leave free. *)
LEMMA AfreshKeeps ==
    ASSUME NEW ready \in BOOLEAN, NEW green \in BOOLEAN,
           pr' = P!Pull(ready, green, 0),
           \/ panel' = P!PanelOff /\ lists' = [s \in PullSlots |-> P!Free]
           \/ panel' = P!PanelStart /\ P!FirstLoad,
           merges' = [c \in Clicks |-> P!NoMerge]
    PROVE  PullsInv'
<1>1. /\ \A s \in PullSlots : lists'[s] \in {P!Free, P!Sent}
      /\ lists' \in [PullSlots -> {P!Free, P!Sent}]
      /\ panel' = P!PanelOff \/ (panel' = P!PanelStart /\ \E s \in PullSlots : lists'[s] = P!Sent)
  BY DEF P!FirstLoad
<1>2. /\ P!PanelOff = [mounted |-> FALSE, listed |-> P!No, checks |-> P!No, loading |-> FALSE,
                       merging |-> "none", others |-> FALSE, mergedNums |-> FALSE]
      /\ P!PanelStart = [mounted |-> TRUE, listed |-> P!No, checks |-> P!No, loading |-> TRUE,
                         merging |-> "none", others |-> FALSE, mergedNums |-> FALSE]
  BY PanelFields
<1>3. P!PullsTypeOK'
  <2>1. pr' \in [ready : BOOLEAN, green : BOOLEAN, rev : 0..MaxPulls, merged : BOOLEAN]
    BY PullsConstantsOK DEF P!Pull, PullsConstants
  <2>2. P!No \in P!Read
    BY DEF P!Read
  <2>3. panel' \in [mounted : BOOLEAN, listed : P!Read, checks : P!Read, loading : BOOLEAN,
                  merging : {"none", "this", "other"}, others : BOOLEAN,
                  mergedNums : BOOLEAN]
    <3>1. CASE panel' = P!PanelOff
      BY <3>1, <1>2, <2>2
    <3>2. CASE panel' = P!PanelStart
      BY <3>2, <1>2, <2>2
    <3> QED BY <1>1, <3>1, <3>2
  <2> QED BY <1>1, <2>1, <2>3, FreeTyped DEF P!PullsTypeOK
<1>4. P!WaitingIsTrue'
  BY <1>1, <1>2, FreeTyped DEF P!WaitingIsTrue
<1>5. PullsFit'
  BY <1>1, <1>2, FreeTyped DEF PullsFit, Fit
<1>6. MergesFit' /\ P!BadgeIsTrue' /\ P!OneMergeAtATime'
  BY <1>1, <1>2, FreeTyped DEF MergesFit, P!BadgeIsTrue, P!OneMergeAtATime
<1> QED BY <1>3, <1>4, <1>5, <1>6 DEF PullsInv

LEMMA PullsMountKeeps == ASSUME P!PullsMount PROVE PullsInv'
BY AfreshKeeps DEF P!PullsMount

LEMMA PullsUnmountKeeps == ASSUME P!PullsUnmount PROVE PullsInv'
BY AfreshKeeps DEF P!PullsUnmount

LEMMA PullsStarts == ASSUME P!PullsInit PROVE PullsInv
<1>1. /\ P!PanelOff = [mounted |-> FALSE, listed |-> P!No, checks |-> P!No, loading |-> FALSE,
                       merging |-> "none", others |-> FALSE, mergedNums |-> FALSE]
      /\ pr = [ready |-> TRUE, green |-> TRUE, rev |-> 0, merged |-> FALSE]
      /\ P!No \in P!Read
  BY PanelFields DEF P!PullsInit, P!Pull
<1>2. P!PullsTypeOK
  <2>1. pr \in [ready : BOOLEAN, green : BOOLEAN, rev : 0..MaxPulls, merged : BOOLEAN]
    BY <1>1, PullsConstantsOK DEF PullsConstants
  <2>2. panel \in [mounted : BOOLEAN, listed : P!Read, checks : P!Read, loading : BOOLEAN,
                  merging : {"none", "this", "other"}, others : BOOLEAN,
                  mergedNums : BOOLEAN]
    BY <1>1 DEF P!PullsInit
  <2> QED BY <2>1, <2>2, FreeTyped DEF P!PullsInit, P!PullsTypeOK
<1>3. P!WaitingIsTrue /\ PullsFit /\ MergesFit /\ P!BadgeIsTrue /\ P!OneMergeAtATime
  BY <1>1, FreeTyped
  DEF P!PullsInit, P!WaitingIsTrue, PullsFit, Fit, MergesFit, P!BadgeIsTrue, P!OneMergeAtATime
<1> QED BY <1>2, <1>3 DEF PullsInv

LEMMA PullsRemountKeeps == ASSUME PullsInv, P!PullsRemount PROVE PullsInv'
<1>1. /\ panel' = P!PanelStart /\ UNCHANGED pr
      /\ merges' = [c \in Clicks |-> [merges[c] EXCEPT !.mine = FALSE, !.disturbed = TRUE]]
  BY DEF P!PullsRemount
<1>2. PICK first \in PullSlots, second \in PullSlots :
        lists' = [s \in PullSlots |-> IF s \in {first, second} THEN P!Sent ELSE P!Free]
  BY DEF P!PullsRemount, P!FirstLoad
<1>3. P!PanelStart = [mounted |-> TRUE, listed |-> P!No, checks |-> P!No, loading |-> TRUE,
                      merging |-> "none", others |-> FALSE, mergedNums |-> FALSE]
  BY PanelFields
<1>4. P!PullsTypeOK'
  <2>1. panel' \in [mounted : BOOLEAN, listed : P!Read, checks : P!Read, loading : BOOLEAN,
                  merging : {"none", "this", "other"}, others : BOOLEAN,
                  mergedNums : BOOLEAN]
    BY <1>1, <1>3 DEF P!Read
  <2>2. merges \in [Clicks -> [state : {"free", "sent", "merged", "refused"},
                              basis : P!Read, disturbed : BOOLEAN, mine : BOOLEAN]]
    BY DEF PullsInv, P!PullsTypeOK
  <2>3. merges' \in [Clicks -> [state : {"free", "sent", "merged", "refused"},
                               basis : P!Read, disturbed : BOOLEAN, mine : BOOLEAN]]
    BY <1>1, <2>2
  <2>4. lists' \in [PullSlots -> {P!Free, P!Sent}]
    BY <1>2
  <2>5. lists' \in [PullSlots -> [state : {"free", "sent", "read", "checking", "checked"},
                                 listed : P!Read, checks : P!Read]]
    BY <2>4, FreeTyped
  <2>6. pr' \in [ready : BOOLEAN, green : BOOLEAN, rev : 0..MaxPulls, merged : BOOLEAN]
    BY <1>1 DEF PullsInv, P!PullsTypeOK
  <2> QED BY <2>1, <2>3, <2>5, <2>6 DEF P!PullsTypeOK
<1>5. P!WaitingIsTrue' /\ PullsFit'
  BY <1>1, <1>2, <1>3, FreeTyped DEF P!WaitingIsTrue, PullsFit, Fit
<1>6. MergesFit'
  BY <1>1 DEF PullsInv, P!PullsTypeOK, MergesFit
<1>7. P!BadgeIsTrue' /\ P!OneMergeAtATime'
  BY <1>1, <1>3 DEF PullsInv, P!PullsTypeOK, P!BadgeIsTrue, P!OneMergeAtATime
<1> QED BY <1>4, <1>5, <1>6, <1>7 DEF PullsInv

LEMMA PullsStay == ASSUME PullsInv, UNCHANGED pullsVars PROVE PullsInv'
BY DEF PullsInv, pullsVars, P!PullsTypeOK, P!WaitingIsTrue, PullsFit, Fit, MergesFit,
       P!BadgeIsTrue, P!OneMergeAtATime

LEMMA PullsSteps == ASSUME PullsInv, P!PullsNext PROVE PullsInv'
BY LoadKeeps, GitHubListsKeeps, ListAnsweredKeeps, ListFailsKeeps, GitHubChecksKeeps,
   ChecksAnsweredKeeps, MergeKeeps, OtherKeeps, GitHubMergesKeeps, MergeAnsweredKeeps,
   PullChangesKeeps
DEF P!PullsNext

-----------------------------------------------------------------------------
(* Memos.  A draft that was posted left the form, or it was excused, or it *)
(* is still being sent; the file never loses a memo of the panel, since    *)
(* what the endpoint holds of it has them all; and of two loads under way  *)
(* the later one has been marked.                                          *)
Started(p) == posts[p].state # "unused"

BeingSent(p) == posts[p].state \in {"sent", "filed"}

FormInv ==
    /\ \A p \in M!Mine : Started(p) => posts[p].draft # 0 /\ posts[p].draft <= memo.typed
    /\ memo.draft <= memo.typed
    /\ \A p \in M!Mine : Started(p) /\ posts[p].draft = memo.draft =>
          posts[p].draft \in memo.excused \/ (BeingSent(p) /\ memo.status = "sending")
    /\ \A p, q \in M!Mine :
          p # q /\ Started(p) /\ Started(q) /\ posts[p].draft = posts[q].draft
             => posts[p].draft \in memo.excused

FileInv ==
    /\ \A p \in M!Mine : p \in file.holds => Started(p)
    /\ \A p \in M!Mine : posts[p].state = "filed" => p \in file.holds
    /\ file.others \ file.raced \subseteq file.holds
    /\ memo.told \subseteq file.holds
    /\ file.handling # 0 =>
          /\ posts[file.handling].state = "sent"
          /\ \A p \in M!Mine : p \in file.holds <=> p \in file.snapshot
          /\ file.others \ file.raced \subseteq file.snapshot

KeptInv ==
    /\ \A d \in 1..memo.typed :
          \/ d = memo.draft \/ d \in memo.abandoned \cup memo.overlapped
          \/ \E p \in M!Mine : p \in file.holds /\ posts[p].draft = d
    /\ \A p \in M!Mine : BeingSent(p) =>
          memo.draft = 0 \/ memo.draft = posts[p].draft \/ memo.draft \in memo.overlapped

InboxInv ==
    /\ ~memo.crossed => \A s, t \in Slots :
          s # t => loads[s].state = "free" \/ loads[t].state = "free"
    /\ ~memo.crossed => \A s \in Slots :
          loads[s].state = "read" => memo.told \subseteq loads[s].holds
    /\ M!InboxIsCurrent

MemoInv ==
    M!MemoTypeOK /\ M!WaitingIsTrue /\ FormInv /\ FileInv /\ KeptInv /\ InboxInv

LEMMA MemoGoals ==
    MemoInv => M!TwiceHasCause /\ M!MemosAreKept /\ M!InboxIsCurrent /\ M!WaitingIsTrue
<1> SUFFICES ASSUME MemoInv PROVE M!TwiceHasCause /\ M!MemosAreKept
  BY DEF MemoInv, InboxInv
<1>1. M!TwiceHasCause
  BY DEF MemoInv, FormInv, FileInv, M!TwiceHasCause
<1>2. M!MemosAreKept
  BY DEF MemoInv, FileInv, KeptInv, M!MemosAreKept
<1> QED BY <1>1, <1>2

MemoConstants == MaxDrafts \in Nat /\ MaxPosts \in Nat /\ MaxOthers \in Nat

LEMMA MemoConstantsOK == MemoConstants
BY DashboardAssumption DEF DashboardAssumption, M!MemoAssumption, MemoConstants

LEMMA MemoSets ==
    /\ M!Mine \subseteq M!Memos /\ M!Others \subseteq M!Memos /\ M!Mine \cap M!Others = {}
    /\ \A p \in M!Mine : p \in Nat \ {0} /\ p \in 0..MaxPosts
    /\ M!Drafts \subseteq Nat /\ 0 \in M!Drafts /\ 0 \notin M!Mine
BY MemoConstantsOK DEF MemoConstants, M!Mine, M!Others, M!Memos, M!Drafts

LEMMA PostDrafts ==
    ASSUME M!MemoTypeOK PROVE {posts[p].draft : p \in M!UnderWay} \subseteq M!Drafts
BY DEF M!MemoTypeOK, M!UnderWay

LEMMA TypeKeeps == ASSUME MemoInv, M!Type PROVE MemoInv'
<1>1. /\ memo.typed < MaxDrafts /\ UNCHANGED <<posts, loads, file>>
      /\ memo' = [memo EXCEPT
                  !.draft = memo.typed + 1, !.typed = memo.typed + 1,
                  !.abandoned = memo.abandoned \cup {memo.draft},
                  !.overlapped = IF M!UnderWay = {} THEN memo.overlapped
                                 ELSE memo.overlapped \cup {memo.typed + 1}]
  BY DEF M!Type
<1>2. memo.typed \in 0..MaxDrafts /\ memo.typed + 1 \in M!Drafts /\ memo.draft \in M!Drafts
  BY <1>1, MemoConstantsOK DEF MemoInv, M!MemoTypeOK, M!Drafts, MemoConstants
<1> DEFINE over == IF M!UnderWay = {} THEN memo.overlapped
                   ELSE memo.overlapped \cup {memo.typed + 1}
<1>3. over \in SUBSET M!Drafts
  BY <1>2 DEF MemoInv, M!MemoTypeOK
<1>4. M!UnderWay = {} \/ memo.typed + 1 \in over
  OBVIOUS
<1>5. memo.overlapped \subseteq over
  OBVIOUS
<1>6. memo' = [memo EXCEPT !.draft = memo.typed + 1, !.typed = memo.typed + 1,
                  !.abandoned = memo.abandoned \cup {memo.draft}, !.overlapped = over]
  BY <1>1
<1> HIDE DEF over
<1>a. memo.abandoned \cup {memo.draft} \in SUBSET M!Drafts
  BY <1>2 DEF MemoInv, M!MemoTypeOK
<1>b. memo.typed + 1 \in M!Drafts
  BY <1>2
<1>7. M!MemoTypeOK'
  BY <1>1, <1>a, <1>b, <1>3, <1>6 DEF MemoInv, M!MemoTypeOK
<1>8. /\ memo'.draft = memo.typed + 1 /\ memo'.typed = memo.typed + 1
      /\ memo'.abandoned = memo.abandoned \cup {memo.draft} /\ memo'.overlapped = over
      /\ memo'.told = memo.told /\ memo'.crossed = memo.crossed /\ memo'.failed = memo.failed
      /\ memo'.shown = memo.shown /\ memo'.status = memo.status
      /\ memo'.excused = memo.excused /\ memo'.loading = memo.loading
  BY <1>6 DEF MemoInv, M!MemoTypeOK
<1>9. M!WaitingIsTrue'
  BY <1>1, <1>8 DEF MemoInv, M!WaitingIsTrue, M!QuietMemo, M!UnderWay
<1>10. FormInv'
  <2>1. \A p \in M!Mine : Started(p) => posts[p].draft \in Nat /\ posts[p].draft < memo'.draft
    <3> SUFFICES ASSUME NEW p \in M!Mine, Started(p)
        PROVE  posts[p].draft \in Nat /\ posts[p].draft < memo'.draft
      OBVIOUS
    <3>1. posts[p].draft \in Nat
      BY MemoSets DEF MemoInv, M!MemoTypeOK
    <3>2. posts[p].draft <= memo.typed
      BY DEF MemoInv, FormInv
    <3> QED BY <1>2, <1>8, <3>1, <3>2
  <2> QED BY <1>1, <1>2, <1>8, <2>1 DEF MemoInv, FormInv, Started, BeingSent
<1>11. FileInv'
  BY <1>1, <1>8 DEF MemoInv, FileInv, Started
<1>12. KeptInv'
  <2>1. \A d \in 1..memo'.typed : d \in 1..memo.typed \/ d = memo'.draft
    BY <1>2, <1>8
  <2>2. \A p \in M!Mine : ~BeingSent(p) \/ memo'.draft \in memo'.overlapped
    BY <1>4, <1>8 DEF M!UnderWay, BeingSent
  <2> QED BY <1>1, <1>5, <1>8, <2>1, <2>2 DEF MemoInv, KeptInv, BeingSent
<1>13. InboxInv'
  BY <1>1, <1>8 DEF MemoInv, InboxInv, M!InboxIsCurrent, M!QuietMemo
<1> QED BY <1>7, <1>9, <1>10, <1>11, <1>12, <1>13 DEF MemoInv

LEMMA SendKeeps == ASSUME MemoInv, M!handleSend PROVE MemoInv'
<1>1. PICK p \in M!Mine :
        /\ posts[p].state = "unused"
        /\ posts' = [posts EXCEPT ![p] = [state |-> "sent", draft |-> memo.draft]]
  BY DEF M!handleSend
<1>2. /\ memo.draft # 0 /\ memo.status # "sending" /\ UNCHANGED <<loads, file>>
      /\ memo' = [memo EXCEPT !.status = "sending"]
  BY DEF M!handleSend
<1>3. M!MemoTypeOK'
  BY <1>1, <1>2 DEF MemoInv, M!MemoTypeOK
<1>4. /\ memo'.draft = memo.draft /\ memo'.typed = memo.typed /\ memo'.status = "sending"
      /\ memo'.abandoned = memo.abandoned /\ memo'.overlapped = memo.overlapped
      /\ memo'.told = memo.told /\ memo'.crossed = memo.crossed /\ memo'.failed = memo.failed
      /\ memo'.shown = memo.shown /\ memo'.excused = memo.excused
      /\ memo'.loading = memo.loading
  BY <1>2 DEF MemoInv, M!MemoTypeOK
<1>5. /\ posts'[p].state = "sent" /\ posts'[p].draft = memo.draft
      /\ \A q \in M!Mine : q # p => posts'[q] = posts[q]
  BY <1>1 DEF MemoInv, M!MemoTypeOK
<1>6. M!WaitingIsTrue'
  BY <1>2, <1>4, <1>5 DEF MemoInv, M!WaitingIsTrue, M!QuietMemo, M!UnderWay
<1>7. FormInv'
  BY <1>1, <1>2, <1>4, <1>5 DEF MemoInv, FormInv, Started, BeingSent
<1>8. FileInv'
  BY <1>1, <1>2, <1>4, <1>5, MemoSets DEF MemoInv, M!MemoTypeOK, FileInv, Started, M!Mine
<1>9. KeptInv'
  BY <1>1, <1>2, <1>4, <1>5 DEF MemoInv, KeptInv, FileInv, Started, BeingSent
<1>10. InboxInv'
  BY <1>2, <1>4 DEF MemoInv, InboxInv, M!InboxIsCurrent, M!QuietMemo
<1> QED BY <1>3, <1>6, <1>7, <1>8, <1>9, <1>10 DEF MemoInv

LEMMA IdleTimerKeeps == ASSUME MemoInv, M!IdleTimer PROVE MemoInv'
<1> DEFINE more == memo.excused \cup {posts[p].draft : p \in M!UnderWay}
<1>1. /\ memo.timers > 0 /\ UNCHANGED <<posts, loads, file>>
      /\ memo' = [memo EXCEPT !.timers = memo.timers - 1, !.status = "idle", !.excused = more]
  BY DEF M!IdleTimer
<1>2. /\ more \in SUBSET M!Drafts /\ memo.excused \subseteq more
      /\ \A p \in M!Mine : BeingSent(p) => posts[p].draft \in more
  BY PostDrafts DEF MemoInv, M!MemoTypeOK, M!UnderWay, BeingSent
<1> HIDE DEF more
<1>3. memo.timers - 1 \in Nat
  BY <1>1 DEF MemoInv, M!MemoTypeOK
<1>4. M!MemoTypeOK'
  BY <1>1, <1>2, <1>3 DEF MemoInv, M!MemoTypeOK
<1>5. /\ memo'.draft = memo.draft /\ memo'.typed = memo.typed /\ memo'.status = "idle"
      /\ memo'.abandoned = memo.abandoned /\ memo'.overlapped = memo.overlapped
      /\ memo'.told = memo.told /\ memo'.crossed = memo.crossed /\ memo'.failed = memo.failed
      /\ memo'.shown = memo.shown /\ memo'.excused = more /\ memo'.loading = memo.loading
  BY <1>1 DEF MemoInv, M!MemoTypeOK
<1>6. M!WaitingIsTrue'
  BY <1>1, <1>5 DEF MemoInv, M!WaitingIsTrue, M!QuietMemo
<1>7. FormInv'
  BY <1>1, <1>2, <1>5 DEF MemoInv, FormInv, Started, BeingSent
<1>8. FileInv' /\ KeptInv'
  BY <1>1, <1>5 DEF MemoInv, FileInv, KeptInv, Started, BeingSent
<1>9. InboxInv'
  BY <1>1, <1>5 DEF MemoInv, InboxInv, M!InboxIsCurrent, M!QuietMemo
<1> QED BY <1>4, <1>6, <1>7, <1>8, <1>9 DEF MemoInv

(* A load, asked for by who has the form and the memos told as they are in *)
(* `told` and `draft`: what it does to the inbox on display.               *)
LEMMA LoadInboxKeeps ==
    ASSUME M!MemoTypeOK, InboxInv, NEW s \in Slots,
           loads[s].state = "free",
           loads' = [loads EXCEPT ![s] = [state |-> "sent", holds |-> {}]],
           memo'.crossed = ~M!QuietMemo
    PROVE  InboxInv' /\ ~M!QuietMemo'
<1>1. loads'[s] = [state |-> "sent", holds |-> {}]
      /\ \A t \in Slots : t # s => loads'[t] = loads[t]
  BY DEF M!MemoTypeOK
<1>2. ~M!QuietMemo'
  BY <1>1 DEF M!QuietMemo
<1>3. ~memo'.crossed => \A t \in Slots : loads[t].state = "free"
  BY DEF M!QuietMemo
<1> QED BY <1>1, <1>2, <1>3 DEF InboxInv, M!InboxIsCurrent

LEMMA RefreshKeeps == ASSUME MemoInv, M!Refresh PROVE MemoInv'
<1>1. PICK s \in Slots :
        /\ loads[s].state = "free"
        /\ loads' = [loads EXCEPT ![s] = [state |-> "sent", holds |-> {}]]
  BY DEF M!Refresh, M!loadInbox
<1>2. /\ memo' = [memo EXCEPT !.loading = TRUE, !.failed = FALSE, !.crossed = ~M!QuietMemo]
      /\ UNCHANGED <<posts, file>>
  BY DEF M!Refresh, M!loadInbox
<1> DEFINE quiet == M!QuietMemo
<1>3. quiet \in BOOLEAN
  BY DEF M!QuietMemo
<1>4. memo' = [memo EXCEPT !.loading = TRUE, !.failed = FALSE, !.crossed = ~quiet]
  BY <1>2
<1> HIDE DEF quiet
<1>5. /\ memo'.draft = memo.draft /\ memo'.typed = memo.typed /\ memo'.status = memo.status
      /\ memo'.abandoned = memo.abandoned /\ memo'.overlapped = memo.overlapped
      /\ memo'.told = memo.told /\ memo'.crossed = ~quiet
      /\ memo'.excused = memo.excused
  BY <1>3, <1>4 DEF MemoInv, M!MemoTypeOK
<1>6. M!MemoTypeOK'
  BY <1>1, <1>2, <1>3, <1>4 DEF MemoInv, M!MemoTypeOK
<1>7. InboxInv' /\ ~M!QuietMemo'
  BY <1>1, <1>5, LoadInboxKeeps DEF MemoInv, quiet
<1>8. M!WaitingIsTrue'
  BY <1>2, <1>5, <1>7 DEF MemoInv, M!WaitingIsTrue, M!UnderWay
<1>9. FormInv' /\ FileInv' /\ KeptInv'
  BY <1>2, <1>5 DEF MemoInv, FormInv, FileInv, KeptInv, Started, BeingSent
<1> QED BY <1>6, <1>7, <1>8, <1>9 DEF MemoInv

(* The memo is in the file: when the form is emptied, its draft is kept.   *)
LEMMA SendAnsweredKeeps ==
    ASSUME MemoInv, NEW p \in M!Mine, M!SendAnswered(p) PROVE MemoInv'
<1> DEFINE quiet == M!QuietMemo
<1>1. PICK s \in Slots :
        /\ loads[s].state = "free"
        /\ loads' = [loads EXCEPT ![s] = [state |-> "sent", holds |-> {}]]
        /\ memo' = [[memo EXCEPT !.status = "sent", !.draft = 0,
                                 !.timers = memo.timers + 1,
                                 !.told = memo.told \cup {p}]
                    EXCEPT !.loading = TRUE, !.failed = FALSE, !.crossed = ~quiet]
  BY DEF M!SendAnswered, M!loadInbox
<1>2. /\ posts[p].state = "filed" /\ posts' = [posts EXCEPT ![p].state = "answered"]
      /\ UNCHANGED file
  BY DEF M!SendAnswered
<1>3. quiet \in BOOLEAN
  BY DEF M!QuietMemo
<1> HIDE DEF quiet
<1>4. /\ memo'.draft = 0 /\ memo'.typed = memo.typed /\ memo'.status = "sent"
      /\ memo'.abandoned = memo.abandoned /\ memo'.overlapped = memo.overlapped
      /\ memo'.told = memo.told \cup {p} /\ memo'.crossed = ~quiet
      /\ memo'.excused = memo.excused
  BY <1>1 DEF MemoInv, M!MemoTypeOK
<1>5. posts'[p].state = "answered" /\ posts'[p].draft = posts[p].draft
      /\ \A q \in M!Mine : q # p => posts'[q] = posts[q]
  BY <1>2 DEF MemoInv, M!MemoTypeOK
<1>6. M!MemoTypeOK'
  <2>1. memo.timers + 1 \in Nat
    BY DEF MemoInv, M!MemoTypeOK
  <2>2. 0 \in M!Drafts /\ memo.told \cup {p} \in SUBSET M!Mine
    BY MemoSets DEF MemoInv, M!MemoTypeOK
  <2> QED BY <1>1, <1>2, <1>3, <2>1, <2>2 DEF MemoInv, M!MemoTypeOK
<1>7. InboxInv' /\ ~M!QuietMemo'
  BY <1>1, <1>4, LoadInboxKeeps DEF MemoInv, quiet
<1>8. M!WaitingIsTrue'
  BY <1>4, <1>7 DEF M!WaitingIsTrue
<1>9. FormInv'
  <2>0. memo.typed \in M!Drafts
    BY DEF MemoInv, M!MemoTypeOK
  <2>1. 0 <= memo.typed
    BY <2>0, MemoConstantsOK DEF MemoConstants, M!Drafts
  <2> QED BY <1>2, <1>4, <1>5, <2>1 DEF MemoInv, FormInv, Started, BeingSent
<1>10. p \in file.holds
  BY <1>2 DEF MemoInv, FileInv
<1>11. FileInv'
  BY <1>2, <1>4, <1>5, <1>10, MemoSets DEF MemoInv, M!MemoTypeOK, FileInv, Started, M!Mine
<1>12. KeptInv'
  BY <1>2, <1>4, <1>5, <1>10 DEF MemoInv, KeptInv, BeingSent
<1> QED BY <1>6, <1>7, <1>8, <1>9, <1>11, <1>12 DEF MemoInv

LEMMA SendFailsKeeps ==
    ASSUME MemoInv, NEW p \in M!Mine, M!SendFails(p) PROVE MemoInv'
<1> DEFINE more == memo.excused \cup {posts[q].draft : q \in M!UnderWay}
<1>1. /\ BeingSent(p) /\ file.handling # p
      /\ posts' = [posts EXCEPT ![p].state = "answered"]
      /\ memo' = [memo EXCEPT !.status = "error", !.excused = more]
      /\ UNCHANGED <<loads, file>>
  BY DEF M!SendFails, BeingSent
<1>2. /\ more \in SUBSET M!Drafts /\ memo.excused \subseteq more
      /\ \A q \in M!Mine : BeingSent(q) => posts[q].draft \in more
  BY PostDrafts DEF MemoInv, M!MemoTypeOK, M!UnderWay, BeingSent
<1> HIDE DEF more
<1>3. M!MemoTypeOK'
  BY <1>1, <1>2 DEF MemoInv, M!MemoTypeOK
<1>4. /\ memo'.draft = memo.draft /\ memo'.typed = memo.typed /\ memo'.status = "error"
      /\ memo'.abandoned = memo.abandoned /\ memo'.overlapped = memo.overlapped
      /\ memo'.told = memo.told /\ memo'.crossed = memo.crossed /\ memo'.failed = memo.failed
      /\ memo'.shown = memo.shown /\ memo'.excused = more /\ memo'.loading = memo.loading
  BY <1>1 DEF MemoInv, M!MemoTypeOK
<1>5. posts'[p].state = "answered" /\ posts'[p].draft = posts[p].draft
      /\ \A q \in M!Mine : q # p => posts'[q] = posts[q]
  BY <1>1 DEF MemoInv, M!MemoTypeOK
<1>6. M!WaitingIsTrue'
  BY <1>1, <1>4 DEF MemoInv, M!WaitingIsTrue, M!QuietMemo
<1>7. FormInv'
  BY <1>1, <1>2, <1>4, <1>5 DEF MemoInv, FormInv, Started, BeingSent
<1>8. FileInv'
  BY <1>1, <1>4, <1>5, MemoSets DEF MemoInv, M!MemoTypeOK, FileInv, Started, BeingSent, M!Mine
<1>9. KeptInv'
  BY <1>1, <1>4, <1>5 DEF MemoInv, KeptInv, BeingSent
<1>10. InboxInv'
  BY <1>1, <1>4 DEF MemoInv, InboxInv, M!InboxIsCurrent, M!QuietMemo
<1> QED BY <1>3, <1>6, <1>7, <1>8, <1>9, <1>10 DEF MemoInv

(* The endpoint: what it reads has every memo of the panel that the file   *)
(* has, and keeps it until it is written.                                  *)
LEMMA EndpointReadsKeeps ==
    ASSUME MemoInv, NEW p \in M!Mine, M!EndpointReads(p) PROVE MemoInv'
<1>1. /\ posts[p].state = "sent" /\ UNCHANGED <<memo, posts, loads>>
      /\ file' = [file EXCEPT !.handling = p, !.snapshot = file.holds]
  BY DEF M!EndpointReads
<1>2. M!MemoTypeOK'
  BY <1>1, MemoSets DEF MemoInv, M!MemoTypeOK
<1>3. /\ file'.handling = p /\ file'.snapshot = file.holds /\ file'.holds = file.holds
      /\ file'.others = file.others /\ file'.raced = file.raced
  BY <1>1 DEF MemoInv, M!MemoTypeOK
<1>4. FileInv'
  BY <1>1, <1>3 DEF MemoInv, FileInv, Started
<1>5. FormInv' /\ KeptInv'
  BY <1>1, <1>3 DEF MemoInv, FormInv, KeptInv, Started, BeingSent
<1>6. InboxInv' /\ M!WaitingIsTrue'
  BY <1>1 DEF MemoInv, InboxInv, M!InboxIsCurrent, M!QuietMemo, M!WaitingIsTrue, M!UnderWay
<1> QED BY <1>2, <1>4, <1>5, <1>6 DEF MemoInv

LEMMA EndpointWritesKeeps ==
    ASSUME MemoInv, NEW p \in M!Mine, M!EndpointWrites(p) PROVE MemoInv'
<1> DEFINE new == {p} \cup IF file.heading THEN file.snapshot ELSE file.holds
<1>1. /\ file.handling = p /\ UNCHANGED <<memo, loads>>
      /\ posts' = [posts EXCEPT ![p].state = "filed"]
      /\ file' = [file EXCEPT !.handling = 0, !.snapshot = {}, !.holds = new]
  BY DEF M!EndpointWrites
<1>2. /\ posts[p].state = "sent"
      /\ \A q \in M!Mine : q \in new <=> q = p \/ q \in file.holds
      /\ file.others \ file.raced \subseteq new /\ p \in new
      /\ new \in SUBSET M!Memos
  BY <1>1, MemoSets DEF MemoInv, M!MemoTypeOK, FileInv
<1> HIDE DEF new
<1>3. M!MemoTypeOK'
  <2>1. 0 \in 0..MaxPosts /\ {} \in SUBSET M!Memos
    BY MemoConstantsOK DEF MemoConstants
  <2>2. file' \in [holds : SUBSET M!Memos, heading : BOOLEAN, handling : 0..MaxPosts,
                  snapshot : SUBSET M!Memos, others : SUBSET M!Others,
                  raced : SUBSET M!Others]
    BY <1>1, <1>2, <2>1 DEF MemoInv, M!MemoTypeOK
  <2> QED BY <1>1, <2>2 DEF MemoInv, M!MemoTypeOK
<1>4. /\ file'.handling = 0 /\ file'.holds = new
      /\ file'.others = file.others /\ file'.raced = file.raced
  BY <1>1 DEF MemoInv, M!MemoTypeOK
<1>5. posts'[p].state = "filed" /\ posts'[p].draft = posts[p].draft
      /\ \A q \in M!Mine : q # p => posts'[q] = posts[q]
  BY <1>1 DEF MemoInv, M!MemoTypeOK
<1>6. FormInv'
  BY <1>1, <1>2, <1>5 DEF MemoInv, FormInv, Started, BeingSent
<1>7. FileInv'
  BY <1>1, <1>2, <1>4, <1>5 DEF MemoInv, M!MemoTypeOK, FileInv, Started
<1>8. KeptInv'
  BY <1>1, <1>2, <1>4, <1>5 DEF MemoInv, KeptInv, BeingSent
<1>9. InboxInv' /\ M!WaitingIsTrue'
  BY <1>1, <1>5 DEF MemoInv, InboxInv, M!InboxIsCurrent, M!QuietMemo, M!WaitingIsTrue, M!UnderWay
<1> QED BY <1>3, <1>6, <1>7, <1>8, <1>9 DEF MemoInv

LEMMA OtherFilesKeeps == ASSUME MemoInv, M!OtherFiles PROVE MemoInv'
<1>1. PICK o \in M!Others \ file.others :
        file' = [file EXCEPT !.holds = file.holds \cup {o},
                             !.others = file.others \cup {o},
                             !.raced = IF file.handling = 0 THEN file.raced
                                       ELSE file.raced \cup {o}]
  BY DEF M!OtherFiles
<1>2. UNCHANGED <<memo, posts, loads>>
  BY DEF M!OtherFiles
<1> DEFINE races == IF file.handling = 0 THEN file.raced ELSE file.raced \cup {o}
<1>3. races \in SUBSET M!Others
  BY DEF MemoInv, M!MemoTypeOK
<1>4. file.raced \subseteq races /\ (file.handling # 0 => o \in races)
  OBVIOUS
<1>5. file' = [file EXCEPT !.holds = file.holds \cup {o},
                           !.others = file.others \cup {o}, !.raced = races]
  BY <1>1
<1> HIDE DEF races
<1>6. file.holds \cup {o} \in SUBSET M!Memos /\ file.others \cup {o} \in SUBSET M!Others
  BY MemoSets DEF MemoInv, M!MemoTypeOK
<1>7. M!MemoTypeOK'
  BY <1>2, <1>3, <1>5, <1>6 DEF MemoInv, M!MemoTypeOK
<1>8. /\ file'.handling = file.handling /\ file'.holds = file.holds \cup {o}
      /\ file'.others = file.others \cup {o} /\ file'.raced = races
      /\ file'.snapshot = file.snapshot /\ o \notin M!Mine
  BY <1>5, MemoSets DEF MemoInv, M!MemoTypeOK
<1>9. FileInv'
  BY <1>2, <1>4, <1>8 DEF MemoInv, FileInv, Started
<1>10. FormInv' /\ KeptInv'
  BY <1>2, <1>8 DEF MemoInv, FormInv, KeptInv, Started, BeingSent
<1>11. InboxInv' /\ M!WaitingIsTrue'
  BY <1>2 DEF MemoInv, InboxInv, M!InboxIsCurrent, M!QuietMemo, M!WaitingIsTrue, M!UnderWay
<1> QED BY <1>7, <1>9, <1>10, <1>11 DEF MemoInv

(* The loads of the inbox. *)
LEMMA ServerReadsInboxKeeps ==
    ASSUME MemoInv, NEW s \in Slots, M!ServerReadsInbox(s) PROVE MemoInv'
<1>1. /\ loads[s].state = "sent" /\ UNCHANGED <<memo, posts, file>>
      /\ loads' = [loads EXCEPT ![s] = [state |-> "read", holds |-> file.holds]]
  BY DEF M!ServerReadsInbox
<1>2. M!MemoTypeOK'
  BY <1>1 DEF MemoInv, M!MemoTypeOK
<1>3. loads'[s] = [state |-> "read", holds |-> file.holds]
      /\ \A t \in Slots : t # s => loads'[t] = loads[t]
  BY <1>1 DEF MemoInv, M!MemoTypeOK
<1>4. FormInv' /\ FileInv' /\ KeptInv'
  BY <1>1 DEF MemoInv, FormInv, FileInv, KeptInv, Started, BeingSent
<1>5. InboxInv' /\ M!WaitingIsTrue'
  BY <1>1, <1>3 DEF MemoInv, FileInv, InboxInv, M!InboxIsCurrent, M!QuietMemo, M!WaitingIsTrue, M!UnderWay
<1> QED BY <1>2, <1>4, <1>5 DEF MemoInv

LEMMA InboxAnsweredKeeps ==
    ASSUME MemoInv, NEW s \in Slots, M!InboxAnswered(s) PROVE MemoInv'
<1>1. /\ loads[s].state = "read" /\ UNCHANGED <<posts, file>>
      /\ loads' = [loads EXCEPT ![s] = M!Free]
      /\ memo' = [memo EXCEPT !.shown = loads[s].holds, !.loading = FALSE]
  BY DEF M!InboxAnswered
<1>2. M!MemoTypeOK'
  BY <1>1 DEF MemoInv, M!MemoTypeOK, M!Free
<1>3. loads'[s].state = "free" /\ \A t \in Slots : t # s => loads'[t] = loads[t]
  BY <1>1 DEF MemoInv, M!MemoTypeOK, M!Free
<1>4. /\ memo'.draft = memo.draft /\ memo'.typed = memo.typed /\ memo'.status = memo.status
      /\ memo'.abandoned = memo.abandoned /\ memo'.overlapped = memo.overlapped
      /\ memo'.told = memo.told /\ memo'.crossed = memo.crossed
      /\ memo'.shown = loads[s].holds /\ memo'.excused = memo.excused /\ ~memo'.loading
  BY <1>1 DEF MemoInv, M!MemoTypeOK
<1>5. FormInv' /\ FileInv' /\ KeptInv'
  BY <1>1, <1>4 DEF MemoInv, FormInv, FileInv, KeptInv, Started, BeingSent
<1>6. InboxInv' /\ M!WaitingIsTrue'
  BY <1>1, <1>3, <1>4 DEF MemoInv, InboxInv, M!InboxIsCurrent, M!QuietMemo, M!WaitingIsTrue, M!UnderWay
<1> QED BY <1>2, <1>5, <1>6 DEF MemoInv

LEMMA InboxFailsKeeps ==
    ASSUME MemoInv, NEW s \in Slots, M!InboxFails(s) PROVE MemoInv'
<1>1. /\ UNCHANGED <<posts, file>>
      /\ loads' = [loads EXCEPT ![s] = M!Free]
      /\ memo' = [memo EXCEPT !.loading = FALSE, !.failed = TRUE]
  BY DEF M!InboxFails
<1>2. M!MemoTypeOK'
  BY <1>1 DEF MemoInv, M!MemoTypeOK, M!Free
<1>3. loads'[s].state = "free" /\ \A t \in Slots : t # s => loads'[t] = loads[t]
  BY <1>1 DEF MemoInv, M!MemoTypeOK, M!Free
<1>4. /\ memo'.draft = memo.draft /\ memo'.typed = memo.typed /\ memo'.status = memo.status
      /\ memo'.abandoned = memo.abandoned /\ memo'.overlapped = memo.overlapped
      /\ memo'.told = memo.told /\ memo'.crossed = memo.crossed
      /\ memo'.failed /\ memo'.excused = memo.excused /\ ~memo'.loading
  BY <1>1 DEF MemoInv, M!MemoTypeOK
<1>5. FormInv' /\ FileInv' /\ KeptInv'
  BY <1>1, <1>4 DEF MemoInv, FormInv, FileInv, KeptInv, Started, BeingSent
<1>6. InboxInv' /\ M!WaitingIsTrue'
  BY <1>1, <1>3, <1>4 DEF MemoInv, InboxInv, M!InboxIsCurrent, M!QuietMemo, M!WaitingIsTrue, M!UnderWay
<1> QED BY <1>2, <1>5, <1>6 DEF MemoInv

(* A mount, and its end: nothing is posted, told or filed. *)
LEMMA MemoAfreshKeeps ==
    ASSUME NEW on \in BOOLEAN, NEW two \in BOOLEAN, NEW heading \in BOOLEAN,
           memo' = M!Panel(on, two), posts' = [p \in M!Mine |-> M!Unused],
           file' = M!FileStart(heading),
           loads' \in [Slots -> {M!Free, [state |-> "sent", holds |-> {}]}],
           on => \E s \in Slots : loads'[s].state = "sent",
           ~two => \A s, t \in Slots :
              s # t => loads'[s].state = "free" \/ loads'[t].state = "free"
    PROVE  MemoInv'
<1>1. /\ memo' = [mounted |-> on, status |-> "idle", draft |-> 0, typed |-> 0, timers |-> 0,
                  shown |-> {}, loading |-> on, crossed |-> two, failed |-> FALSE,
                  told |-> {}, excused |-> {}, overlapped |-> {}, abandoned |-> {}]
      /\ file' = [holds |-> {}, heading |-> heading, handling |-> 0, snapshot |-> {},
                  others |-> {}, raced |-> {}]
      /\ \A p \in M!Mine : posts'[p] = [state |-> "unused", draft |-> 0]
  BY DEF M!Panel, M!FileStart, M!Unused
<1>2. M!MemoTypeOK'
  <2>1. 0 \in M!Drafts /\ 0 \in 0..MaxPosts
    BY MemoSets, MemoConstantsOK DEF MemoConstants
  <2>2. memo' \in [mounted : BOOLEAN, status : {"idle", "sending", "sent", "error"},
                 draft : M!Drafts, typed : M!Drafts, timers : Nat,
                 shown : SUBSET M!Memos, loading : BOOLEAN, crossed : BOOLEAN,
                 failed : BOOLEAN, told : SUBSET M!Mine, excused : SUBSET M!Drafts,
                 overlapped : SUBSET M!Drafts, abandoned : SUBSET M!Drafts]
    BY <1>1, <2>1
  <2>3. file' \in [holds : SUBSET M!Memos, heading : BOOLEAN, handling : 0..MaxPosts,
                 snapshot : SUBSET M!Memos, others : SUBSET M!Others,
                 raced : SUBSET M!Others]
    BY <1>1, <2>1
  <2>4. posts' \in [M!Mine -> [state : {"unused", "sent", "filed", "answered"},
                           draft : M!Drafts]]
    BY <2>1 DEF M!Unused
  <2>5. loads' \in [Slots -> [state : {"free", "sent", "read"}, holds : SUBSET M!Memos]]
    BY DEF M!Free
  <2> QED BY <2>2, <2>3, <2>4, <2>5 DEF M!MemoTypeOK
<1>3. M!WaitingIsTrue'
  BY <1>1 DEF M!WaitingIsTrue, M!QuietMemo
<1>4. FormInv' /\ FileInv'
  BY <1>1 DEF FormInv, FileInv, Started
<1>5. KeptInv'
  BY <1>1 DEF KeptInv, BeingSent
<1>6. InboxInv'
  BY <1>1 DEF InboxInv, M!InboxIsCurrent, M!Free
<1> QED BY <1>2, <1>3, <1>4, <1>5, <1>6 DEF MemoInv

LEMMA MemoMountKeeps == ASSUME M!MemoMount PROVE MemoInv'
<1>1. PICK heading \in BOOLEAN : file' = M!FileStart(heading)
  BY DEF M!MemoMount
<1>2. PICK first \in Slots, second \in Slots :
        /\ loads' = [s \in Slots |-> IF s \in {first, second}
                                     THEN [state |-> "sent", holds |-> {}] ELSE M!Free]
        /\ memo' = M!Panel(TRUE, first # second)
  BY DEF M!MemoMount
<1>3. /\ loads' \in [Slots -> {M!Free, [state |-> "sent", holds |-> {}]}]
      /\ loads'[first].state = "sent"
      /\ \A s \in Slots : s \notin {first, second} => loads'[s].state = "free"
  BY <1>2 DEF M!Free
<1> QED BY <1>1, <1>2, <1>3, MemoAfreshKeeps DEF M!MemoMount

LEMMA MemoUnmountKeeps == ASSUME M!MemoUnmount PROVE MemoInv'
<1>1. loads' \in [Slots -> {M!Free, [state |-> "sent", holds |-> {}]}]
      /\ \A s \in Slots : loads'[s].state = "free"
  BY DEF M!MemoUnmount, M!Free
<1> QED BY <1>1, MemoAfreshKeeps DEF M!MemoUnmount, M!MemoOff

LEMMA MemoStarts == ASSUME M!MemoInit PROVE MemoInv
<1>1. /\ memo = [mounted |-> FALSE, status |-> "idle", draft |-> 0, typed |-> 0, timers |-> 0,
                 shown |-> {}, loading |-> FALSE, crossed |-> FALSE, failed |-> FALSE,
                 told |-> {}, excused |-> {}, overlapped |-> {}, abandoned |-> {}]
      /\ file = [holds |-> {}, heading |-> TRUE, handling |-> 0, snapshot |-> {},
                 others |-> {}, raced |-> {}]
      /\ posts = [p \in M!Mine |-> [state |-> "unused", draft |-> 0]]
      /\ loads = [s \in Slots |-> [state |-> "free", holds |-> {}]]
  BY DEF M!MemoInit, M!MemoOff, M!Panel, M!FileStart, M!Unused, M!Free
<1>2. M!MemoTypeOK
  <2>1. 0 \in M!Drafts /\ 0 \in 0..MaxPosts
    BY MemoSets, MemoConstantsOK DEF MemoConstants
  <2>2. memo \in [mounted : BOOLEAN, status : {"idle", "sending", "sent", "error"},
                 draft : M!Drafts, typed : M!Drafts, timers : Nat,
                 shown : SUBSET M!Memos, loading : BOOLEAN, crossed : BOOLEAN,
                 failed : BOOLEAN, told : SUBSET M!Mine, excused : SUBSET M!Drafts,
                 overlapped : SUBSET M!Drafts, abandoned : SUBSET M!Drafts]
    BY <1>1, <2>1
  <2>3. file \in [holds : SUBSET M!Memos, heading : BOOLEAN, handling : 0..MaxPosts,
                 snapshot : SUBSET M!Memos, others : SUBSET M!Others,
                 raced : SUBSET M!Others]
    BY <1>1, <2>1
  <2> QED BY <1>1, <2>1, <2>2, <2>3 DEF M!MemoTypeOK
<1>3. M!WaitingIsTrue /\ FormInv /\ FileInv
  BY <1>1 DEF M!WaitingIsTrue, FormInv, FileInv, Started
<1>4. KeptInv /\ InboxInv
  BY <1>1 DEF KeptInv, BeingSent, InboxInv, M!InboxIsCurrent
<1> QED BY <1>2, <1>3, <1>4 DEF MemoInv

LEMMA MemoStays == ASSUME MemoInv, UNCHANGED memoVars PROVE MemoInv'
BY DEF MemoInv, memoVars, M!MemoTypeOK, M!WaitingIsTrue, M!QuietMemo, M!UnderWay, FormInv,
       FileInv, KeptInv, InboxInv, M!InboxIsCurrent, Started, BeingSent

LEMMA MemoSteps == ASSUME MemoInv, M!MemoNext PROVE MemoInv'
BY TypeKeeps, SendKeeps, IdleTimerKeeps, RefreshKeeps, SendAnsweredKeeps, SendFailsKeeps,
   EndpointReadsKeeps, EndpointWritesKeeps, OtherFilesKeeps, ServerReadsInboxKeeps,
   InboxAnsweredKeeps, InboxFailsKeeps
DEF M!MemoNext, M!PostProgress, M!ListProgress

-----------------------------------------------------------------------------
(* The database tab.  Out of the query mode, what is under way or on       *)
(* display was asked for under a table's name; and the only read, when     *)
(* none was crossed, is of the page that is selected.                      *)
Panels ==
    [status : {"off", "connecting", "ready", "unavailable", "blank"},
     tables : {"none", "asked", "listed"},
     selected : Tables \cup {NoTable}, page : D!Pages, data : D!Result,
     loading : BOOLEAN, queryMode : BOOLEAN, queryResult : D!Result,
     queryLoading : BOOLEAN, crossed : BOOLEAN, failed : BOOLEAN,
     strayed : BOOLEAN]

Reading(s) == reads[s].state # "free"

ReadsInv ==
    /\ db.status = "connecting" => D!QuietDb
    /\ db.status = "ready" /\ ~db.crossed => \A s, t \in Slots :
          s # t => ~Reading(s) \/ ~Reading(t)
    /\ db.status = "ready" /\ ~db.crossed /\ ~db.queryMode => \A s \in Slots :
          Reading(s) /\ reads[s].result.kind = "rows" =>
             reads[s].result = D!Rows(db.selected, db.page)
    /\ db.status = "ready" /\ ~db.queryMode => \A s \in Slots :
          Reading(s) => db.selected # NoTable

DbInv ==
    /\ db \in Panels
    /\ reads \in [Slots -> [state : {"free", "sent", "read"}, result : D!Result]]
    /\ queries \in 0..MaxQueries
    /\ D!WaitingIsTrue /\ D!TableIsSelected /\ D!PagerHasTable /\ ReadsInv

LEMMA DbTypes == DbInv => D!DbTypeOK
BY DEF DbInv, Panels, D!DbTypeOK

DbConstants ==
    /\ NoTable \notin Tables /\ MaxPages \in Nat \ {0} /\ MaxQueries \in Nat
    /\ PagesOf \in [Tables -> 1..MaxPages]

LEMMA DbConstantsOK == DbConstants
BY DashboardAssumption DEF DashboardAssumption, D!TableAssumption, DbConstants

LEMMA Results ==
    /\ D!None \in D!Result /\ D!Error \in D!Result /\ D!None.kind = "none"
    /\ D!Error.kind = "error" /\ 0 \in D!Pages /\ D!Pages \subseteq Nat
    /\ \A t \in Tables \cup {NoTable}, p \in D!Pages :
          D!Rows(t, p) \in D!Result /\ D!Rows(t, p).kind = "rows"
             /\ D!Rows(t, p).table = t /\ D!Rows(t, p).page = p
<1>1. 0 \in D!Pages /\ D!Pages \subseteq Nat
  BY DbConstantsOK DEF DbConstants, D!Pages
<1> QED BY <1>1 DEF D!None, D!Error, D!Result, D!Rows

LEMMA PanelFresh ==
    ASSUME NEW st \in {"off", "connecting", "blank"}
    PROVE  /\ D!Panel(st) \in Panels /\ D!Panel(st).status = st
           /\ ~D!Panel(st).loading /\ ~D!Panel(st).queryLoading
           /\ D!Panel(st).data.kind = "none" /\ D!Panel(st).selected = NoTable
BY Results DEF D!Panel, Panels

(* Whatever is rendered, the page goes blank or shows it. *)
LEMMA BlankKeeps ==
    ASSUME DbInv, db' = D!Blank, queries' \in 0..MaxQueries,
           reads' \in [Slots -> [state : {"free", "sent", "read"}, result : D!Result]]
    PROVE  DbInv'
<1>1. /\ db' \in Panels /\ db'.status = "blank" /\ ~db'.loading /\ ~db'.queryLoading
      /\ db'.data.kind = "none" /\ db'.selected = NoTable
  BY PanelFresh DEF D!Blank
<1>2. D!WaitingIsTrue' /\ D!TableIsSelected' /\ D!PagerHasTable'
  BY <1>1, Results DEF D!WaitingIsTrue, D!TableIsSelected, D!PagerHasTable
<1>3. ReadsInv'
  BY <1>1 DEF ReadsInv
<1> QED BY <1>1, <1>2, <1>3 DEF DbInv

LEMMA StatusKeeps == ASSUME DbInv, D!StatusAnswered PROVE DbInv'
<1>1. /\ db.status = "connecting" /\ UNCHANGED <<reads, queries>>
      /\ \/ db' = [db EXCEPT !.status = "ready", !.tables = "asked"]
         \/ db' = [db EXCEPT !.status = "unavailable"]
  BY DEF D!StatusAnswered
<1>2. /\ db' \in Panels /\ db'.status \in {"ready", "unavailable"}
      /\ db'.selected = db.selected /\ db'.page = db.page /\ db'.data = db.data
      /\ db'.loading = db.loading /\ db'.queryMode = db.queryMode
      /\ db'.queryLoading = db.queryLoading /\ db'.crossed = db.crossed
      /\ db'.failed = db.failed /\ db'.strayed = db.strayed
  <2>1. CASE db' = [db EXCEPT !.status = "ready", !.tables = "asked"]
    BY <2>1 DEF DbInv, Panels
  <2>2. CASE db' = [db EXCEPT !.status = "unavailable"]
    BY <2>2 DEF DbInv, Panels
  <2> QED BY <1>1, <2>1, <2>2
<1>3. D!WaitingIsTrue' /\ D!TableIsSelected' /\ D!PagerHasTable'
  BY <1>1, <1>2 DEF DbInv, D!WaitingIsTrue, D!QuietDb, D!TableIsSelected, D!PagerHasTable
<1>4. ReadsInv'
  BY <1>1, <1>2 DEF DbInv, ReadsInv, D!QuietDb, Reading
<1> QED BY <1>1, <1>2, <1>3, <1>4 DEF DbInv

LEMMA TablesKeeps == ASSUME DbInv, D!TablesAnswered PROVE DbInv'
<1>1. /\ db.status = "ready" /\ UNCHANGED <<reads, queries>>
  BY DEF D!TablesAnswered
<1>2. CASE db' = D!Blank
  BY <1>1, <1>2, BlankKeeps DEF DbInv
<1>3. ASSUME NEW l \in {"listed", "none"}, db' = [db EXCEPT !.tables = l] PROVE DbInv'
  <2>1. /\ db' \in Panels /\ db'.status = "ready"
        /\ db'.selected = db.selected /\ db'.page = db.page /\ db'.data = db.data
        /\ db'.loading = db.loading /\ db'.queryMode = db.queryMode
        /\ db'.queryLoading = db.queryLoading /\ db'.crossed = db.crossed
        /\ db'.failed = db.failed /\ db'.strayed = db.strayed
    BY <1>1, <1>3 DEF DbInv, Panels
  <2>2. D!WaitingIsTrue' /\ D!TableIsSelected' /\ D!PagerHasTable'
    BY <1>1, <2>1 DEF DbInv, D!WaitingIsTrue, D!QuietDb, D!TableIsSelected, D!PagerHasTable
  <2>3. ReadsInv'
    BY <1>1, <2>1 DEF DbInv, ReadsInv, Reading
  <2> QED BY <1>1, <2>1, <2>2, <2>3 DEF DbInv
<1> QED BY <1>2, <1>3 DEF D!TablesAnswered

(* selectTable, ReloadTable and TurnPage ask for what they select. *)
LEMMA LoadTableKeeps ==
    ASSUME DbInv, db.status = "ready", NEW table \in Tables, NEW page \in D!Pages,
           NEW strays \in BOOLEAN, strays \/ page < PagesOf[table],
           NEW d, d \in Panels,
           d.status = "ready", d.selected = table, d.page = page, d.strayed = strays,
           d.data = db.data, d.queryLoading = db.queryLoading,
           D!loadTable(d, table, page)
    PROVE  DbInv'
<1> DEFINE quiet == D!QuietDb
           next == [d EXCEPT !.loading = TRUE, !.queryMode = FALSE,
                             !.crossed = ~quiet, !.failed = FALSE]
<1>1. PICK s \in Slots :
        /\ reads[s].state = "free"
        /\ reads' = [reads EXCEPT ![s] = [state |-> "sent", result |-> D!Rows(table, page)]]
  BY DEF D!loadTable
<1>2. db' \in {D!Blank, next} /\ UNCHANGED queries
  BY DEF D!loadTable, D!Show
<1>3. quiet \in BOOLEAN
  BY DEF D!QuietDb
<1>4. quiet => \A t \in Slots : reads[t].state = "free"
  BY DEF D!QuietDb
<1> HIDE DEF quiet
<1>5. D!Rows(table, page) \in D!Result
  BY Results
<1>6. reads' \in [Slots -> [state : {"free", "sent", "read"}, result : D!Result]]
  BY <1>1, <1>5 DEF DbInv
<1>7. CASE db' = D!Blank
  BY <1>2, <1>6, <1>7, BlankKeeps DEF DbInv
<1>8. CASE db' = next
  <2>1. /\ db' \in Panels /\ db'.status = "ready" /\ db'.selected = table /\ db'.page = page
        /\ db'.data = db.data /\ db'.loading /\ ~db'.queryMode
        /\ db'.queryLoading = db.queryLoading /\ db'.crossed = ~quiet
        /\ db'.strayed = strays
    BY <1>3, <1>8 DEF Panels
  <2>2. /\ reads'[s].state = "sent" /\ reads'[s].result = D!Rows(table, page)
        /\ \A t \in Slots : t # s => reads'[t] = reads[t]
    BY <1>1 DEF DbInv
  <2>3. ~D!QuietDb'
    BY <2>2 DEF D!QuietDb
  <2>4. table # NoTable
    BY DbConstantsOK DEF DbConstants
  <2>5. D!WaitingIsTrue' /\ D!TableIsSelected'
    BY <1>2, <2>1, <2>3 DEF DbInv, D!WaitingIsTrue, D!TableIsSelected
  <2>6. D!PagerHasTable'
    BY <2>1, <2>4 DEF D!PagerHasTable
  <2>7. ReadsInv'
    BY <1>4, <2>1, <2>2, <2>4 DEF ReadsInv, Reading
  <2> QED BY <1>2, <1>6, <2>1, <2>5, <2>6, <2>7 DEF DbInv
<1> HIDE DEF next
<1> QED BY <1>2, <1>7, <1>8

LEMMA SelectKeeps ==
    ASSUME DbInv, NEW table \in Tables, D!selectTable(table) PROVE DbInv'
<1> DEFINE d == [db EXCEPT !.selected = table, !.page = 0, !.strayed = FALSE]
<1>1. db.status = "ready" /\ D!loadTable(d, table, 0)
  BY DEF D!selectTable, D!Ready
<1>2. /\ d \in Panels /\ d.status = "ready" /\ d.selected = table /\ d.page = 0
      /\ d.strayed = FALSE /\ d.data = db.data /\ d.queryLoading = db.queryLoading
  BY <1>1, Results DEF DbInv, Panels
<1> HIDE DEF d
<1>3. 0 < PagesOf[table] /\ 0 \in D!Pages
  BY DbConstantsOK, Results DEF DbConstants
<1> QED BY <1>1, <1>2, <1>3, LoadTableKeeps

LEMMA ReloadKeeps == ASSUME DbInv, D!ReloadTable PROVE DbInv'
<1>1. /\ db.status = "ready" /\ db.selected # NoTable /\ ~db.queryMode
      /\ D!loadTable(db, db.selected, db.page)
  BY DEF D!ReloadTable, D!Ready
<1>2. db.selected \in Tables /\ db.page \in D!Pages /\ db.strayed \in BOOLEAN
  BY <1>1 DEF DbInv, Panels
<1>3. db.strayed \/ db.page < PagesOf[db.selected]
  BY <1>1 DEF DbInv, D!PagerHasTable
<1> QED BY <1>1, <1>2, <1>3, LoadTableKeeps DEF DbInv

(* The number of pages is that of the table on display: the page is one of *)
(* the table selected if they are the same.                                *)
LEMMA TurnKeeps ==
    ASSUME DbInv, NEW page \in D!Pages, D!TurnPage(page) PROVE DbInv'
<1> DEFINE strays == db.strayed \/ db.data.table # db.selected
           d == [db EXCEPT !.page = page, !.strayed = strays]
<1>1. /\ db.status = "ready" /\ ~db.queryMode /\ D!totalPages > 1
      /\ \/ page = db.page - 1 /\ db.page # 0
         \/ page = db.page + 1 /\ db.page < D!totalPages - 1
      /\ D!loadTable(d, db.selected, page)
  BY DEF D!TurnPage, D!Ready
<1>2. strays \in BOOLEAN
  BY DEF DbInv, Panels
<1>3. db.data.kind = "rows" /\ D!totalPages = PagesOf[db.data.table]
  BY <1>1 DEF D!totalPages
<1>4. db.selected \in Tables
  BY <1>1, <1>3 DEF DbInv, Panels, D!PagerHasTable
<1>5. PagesOf[db.selected] \in Nat /\ db.page \in Nat
  <2>1. PagesOf[db.selected] \in 1..MaxPages /\ MaxPages \in Nat
    BY <1>4, DbConstantsOK DEF DbConstants
  <2>2. db.page \in 0 .. MaxPages - 1
    BY DEF DbInv, Panels, D!Pages
  <2> QED BY <2>1, <2>2
<1>6. strays \/ page < PagesOf[db.selected]
  <2>1. CASE db.strayed \/ db.data.table # db.selected
    BY <2>1
  <2>2. CASE ~db.strayed /\ db.data.table = db.selected
    <3>1. db.page < PagesOf[db.selected]
      BY <1>4, <2>2, DbConstantsOK DEF DbInv, D!PagerHasTable, DbConstants
    <3> QED BY <1>1, <1>3, <1>5, <2>2, <3>1
  <2> QED BY <2>1, <2>2
<1> HIDE DEF strays
<1>7. /\ d \in Panels /\ d.status = "ready" /\ d.selected = db.selected /\ d.page = page
      /\ d.strayed = strays /\ d.data = db.data /\ d.queryLoading = db.queryLoading
  BY <1>1, <1>2 DEF DbInv, Panels
<1> HIDE DEF d
<1> QED BY <1>1, <1>2, <1>4, <1>6, <1>7, LoadTableKeeps

LEMMA OpenKeeps == ASSUME DbInv, D!OpenQuery PROVE DbInv'
<1> DEFINE d == [db EXCEPT !.queryMode = TRUE, !.selected = NoTable]
<1>1. db.status = "ready" /\ UNCHANGED <<reads, queries>> /\ db' \in {D!Blank, d}
  BY DEF D!OpenQuery, D!Ready, D!Show
<1>2. CASE db' = D!Blank
  BY <1>1, <1>2, BlankKeeps DEF DbInv
<1>3. CASE db' = d
  <2>1. /\ db' \in Panels /\ db'.status = "ready" /\ db'.queryMode /\ db'.selected = NoTable
        /\ db'.loading = db.loading /\ db'.queryLoading = db.queryLoading
        /\ db'.crossed = db.crossed
    BY <1>1, <1>3 DEF DbInv, Panels
  <2>2. D!WaitingIsTrue' /\ D!TableIsSelected' /\ D!PagerHasTable'
    BY <1>1, <2>1 DEF DbInv, D!WaitingIsTrue, D!QuietDb, D!TableIsSelected, D!PagerHasTable
  <2>3. ReadsInv'
    BY <1>1, <2>1 DEF DbInv, ReadsInv, Reading
  <2> QED BY <1>1, <2>1, <2>2, <2>3 DEF DbInv
<1> HIDE DEF d
<1> QED BY <1>1, <1>2, <1>3

(* A query that is asked, and one that is answered. *)
LEMMA QueryKeeps ==
    ASSUME DbInv, db.status = "ready", NEW waits \in BOOLEAN, NEW result \in D!Result,
           queries' \in 0..MaxQueries, waits => queries' > 0, UNCHANGED reads,
           D!Show([db EXCEPT !.queryLoading = waits, !.queryResult = result])
    PROVE  DbInv'
<1> DEFINE d == [db EXCEPT !.queryLoading = waits, !.queryResult = result]
<1>1. db' \in {D!Blank, d}
  BY DEF D!Show
<1>2. CASE db' = D!Blank
  BY <1>2, BlankKeeps DEF DbInv
<1>3. CASE db' = d
  <2>1. /\ db' \in Panels /\ db'.status = "ready" /\ db'.queryLoading = waits
        /\ db'.selected = db.selected /\ db'.page = db.page /\ db'.data = db.data
        /\ db'.loading = db.loading /\ db'.queryMode = db.queryMode
        /\ db'.crossed = db.crossed /\ db'.failed = db.failed /\ db'.strayed = db.strayed
    BY <1>3 DEF DbInv, Panels
  <2>2. D!WaitingIsTrue' /\ D!TableIsSelected' /\ D!PagerHasTable'
    BY <2>1 DEF DbInv, D!WaitingIsTrue, D!QuietDb, D!TableIsSelected, D!PagerHasTable
  <2>3. ReadsInv'
    BY <2>1 DEF DbInv, ReadsInv, Reading
  <2> QED BY <2>1, <2>2, <2>3 DEF DbInv
<1> HIDE DEF d
<1> QED BY <1>1, <1>2, <1>3

LEMMA RunKeeps == ASSUME DbInv, D!runQuery PROVE DbInv'
<1>1. /\ db.status = "ready" /\ queries < MaxQueries /\ queries' = queries + 1
      /\ UNCHANGED reads /\ D!Show([db EXCEPT !.queryLoading = TRUE])
  BY DEF D!runQuery, D!Ready
<1>2. queries' \in 0..MaxQueries /\ queries' > 0
  BY <1>1, DbConstantsOK DEF DbInv, DbConstants
<1>3. db.queryResult \in D!Result
      /\ [db EXCEPT !.queryLoading = TRUE]
           = [db EXCEPT !.queryLoading = TRUE, !.queryResult = db.queryResult]
  BY DEF DbInv, Panels
<1> QED BY <1>1, <1>2, <1>3, QueryKeeps

LEMMA QueryAnsweredKeeps == ASSUME DbInv, D!QueryAnswered PROVE DbInv'
<1>1. /\ db.status = "ready" /\ queries > 0 /\ queries' = queries - 1 /\ UNCHANGED reads
  BY DEF D!QueryAnswered, D!Ready
<1>2. PICK result \in {D!Rows(NoTable, 0), D!Error} :
        D!Show([db EXCEPT !.queryLoading = FALSE, !.queryResult = result])
  BY DEF D!QueryAnswered
<1>3. result \in D!Result
  BY Results
<1>4. queries' \in 0..MaxQueries
  BY <1>1, DbConstantsOK DEF DbInv, DbConstants
<1> QED BY <1>1, <1>2, <1>3, <1>4, QueryKeeps

LEMMA ServerReadsTableKeeps ==
    ASSUME DbInv, NEW s \in Slots, D!ServerReadsTable(s) PROVE DbInv'
<1>1. PICK result \in {reads[s].result, D!Error} :
        reads' = [reads EXCEPT ![s] = [state |-> "read", result |-> result]]
  BY DEF D!ServerReadsTable
<1>2. UNCHANGED <<db, queries>> /\ reads[s].state = "sent"
  BY DEF D!ServerReadsTable
<1>3. /\ reads' \in [Slots -> [state : {"free", "sent", "read"}, result : D!Result]]
      /\ reads'[s].state = "read" /\ reads'[s].result = result
      /\ \A t \in Slots : t # s => reads'[t] = reads[t]
  BY <1>1, Results DEF DbInv
<1>4. D!WaitingIsTrue' /\ D!TableIsSelected' /\ D!PagerHasTable'
  BY <1>2, <1>3 DEF DbInv, D!WaitingIsTrue, D!QuietDb, D!TableIsSelected, D!PagerHasTable
<1>5. ReadsInv'
  BY <1>2, <1>3, Results DEF DbInv, ReadsInv, Reading, D!QuietDb
<1> QED BY <1>2, <1>3, <1>4, <1>5 DEF DbInv

LEMMA TableAnsweredKeeps ==
    ASSUME DbInv, NEW s \in Slots, D!TableAnswered(s) PROVE DbInv'
<1> DEFINE d == [db EXCEPT !.data = reads[s].result, !.loading = FALSE]
<1>1. /\ db.status = "ready" /\ reads[s].state = "read" /\ UNCHANGED queries
      /\ reads' = [reads EXCEPT ![s] = D!Free] /\ db' \in {D!Blank, d}
  BY DEF D!TableAnswered, D!Ready, D!Show
<1>2. /\ reads' \in [Slots -> [state : {"free", "sent", "read"}, result : D!Result]]
      /\ reads'[s].state = "free" /\ \A t \in Slots : t # s => reads'[t] = reads[t]
  BY <1>1, Results DEF DbInv, D!Free
<1>3. CASE db' = D!Blank
  BY <1>1, <1>2, <1>3, BlankKeeps DEF DbInv
<1>4. CASE db' = d
  <2>1. /\ db' \in Panels /\ db'.status = "ready" /\ db'.data = reads[s].result
        /\ db'.selected = db.selected /\ db'.page = db.page /\ ~db'.loading
        /\ db'.queryMode = db.queryMode /\ db'.queryLoading = db.queryLoading
        /\ db'.crossed = db.crossed /\ db'.failed = db.failed /\ db'.strayed = db.strayed
    BY <1>1, <1>4 DEF DbInv, Panels
  <2>2. db.selected \in Tables \cup {NoTable} /\ db.page \in D!Pages
    BY DEF DbInv, Panels
  <2>3. D!WaitingIsTrue'
    BY <1>1, <2>1 DEF DbInv, D!WaitingIsTrue
  <2>4. D!TableIsSelected'
    BY <1>1, <2>1, <2>2, Results DEF DbInv, ReadsInv, Reading, D!TableIsSelected
  <2>5. D!PagerHasTable'
    BY <1>1, <2>1 DEF DbInv, ReadsInv, Reading, D!PagerHasTable
  <2>6. ReadsInv'
    BY <1>1, <1>2, <2>1 DEF DbInv, ReadsInv, Reading
  <2> QED BY <1>1, <1>2, <2>1, <2>3, <2>4, <2>5, <2>6 DEF DbInv
<1> HIDE DEF d
<1> QED BY <1>1, <1>3, <1>4

LEMMA TableFailsKeeps ==
    ASSUME DbInv, NEW s \in Slots, D!TableFails(s) PROVE DbInv'
<1> DEFINE d == [db EXCEPT !.loading = FALSE, !.failed = TRUE]
<1>1. /\ db.status = "ready" /\ reads[s].state # "free" /\ UNCHANGED queries
      /\ reads' = [reads EXCEPT ![s] = D!Free] /\ db' \in {D!Blank, d}
  BY DEF D!TableFails, D!Ready, D!Show
<1>2. /\ reads' \in [Slots -> [state : {"free", "sent", "read"}, result : D!Result]]
      /\ reads'[s].state = "free" /\ \A t \in Slots : t # s => reads'[t] = reads[t]
  BY <1>1, Results DEF DbInv, D!Free
<1>3. CASE db' = D!Blank
  BY <1>1, <1>2, <1>3, BlankKeeps DEF DbInv
<1>4. CASE db' = d
  <2>1. /\ db' \in Panels /\ db'.status = "ready" /\ db'.data = db.data
        /\ db'.selected = db.selected /\ db'.page = db.page /\ ~db'.loading
        /\ db'.queryMode = db.queryMode /\ db'.queryLoading = db.queryLoading
        /\ db'.crossed = db.crossed /\ db'.failed /\ db'.strayed = db.strayed
    BY <1>1, <1>4 DEF DbInv, Panels
  <2>2. D!WaitingIsTrue' /\ D!TableIsSelected' /\ D!PagerHasTable'
    BY <1>1, <2>1 DEF DbInv, D!WaitingIsTrue, D!TableIsSelected, D!PagerHasTable
  <2>3. ReadsInv'
    BY <1>1, <1>2, <2>1 DEF DbInv, ReadsInv, Reading
  <2> QED BY <1>1, <1>2, <2>1, <2>2, <2>3 DEF DbInv
<1> HIDE DEF d
<1> QED BY <1>1, <1>3, <1>4

LEMMA DbMountKeeps == ASSUME D!DbMount \/ D!DbUnmount PROVE DbInv'
<1>1. /\ db' \in {D!DbStart, D!DbOff} /\ queries' = 0
      /\ reads' = [s \in Slots |-> D!Free]
  BY DEF D!DbMount, D!DbUnmount
<1>2. /\ db' \in Panels /\ db'.status # "ready" /\ ~db'.loading /\ ~db'.queryLoading
      /\ db'.data.kind = "none" /\ db'.selected = NoTable
  <2>1. CASE db' = D!DbStart
    BY <2>1, PanelFresh DEF D!DbStart
  <2>2. CASE db' = D!DbOff
    BY <2>2, PanelFresh DEF D!DbOff
  <2> QED BY <1>1, <2>1, <2>2
<1>3. /\ reads' \in [Slots -> [state : {"free", "sent", "read"}, result : D!Result]]
      /\ \A s \in Slots : reads'[s].state = "free" /\ 0 \in 0..MaxQueries
  BY <1>1, Results, DbConstantsOK DEF D!Free, DbConstants
<1>4. 0 \in 0..MaxQueries
  BY DbConstantsOK DEF DbConstants
<1>5. D!WaitingIsTrue' /\ D!TableIsSelected' /\ D!PagerHasTable' /\ ReadsInv'
  BY <1>2, <1>3
  DEF D!WaitingIsTrue, D!QuietDb, D!TableIsSelected, D!PagerHasTable, ReadsInv
<1> QED BY <1>1, <1>2, <1>3, <1>4, <1>5 DEF DbInv

LEMMA DbStarts == ASSUME D!DbInit PROVE DbInv
<1>1. /\ db \in Panels /\ db.status = "off" /\ ~db.loading /\ ~db.queryLoading
      /\ db.data.kind = "none" /\ db.selected = NoTable
  BY PanelFresh DEF D!DbOff, D!DbInit
<1>2. /\ reads \in [Slots -> [state : {"free", "sent", "read"}, result : D!Result]]
      /\ queries \in 0..MaxQueries
  BY Results, DbConstantsOK DEF D!DbInit, D!Free, DbConstants
<1>3. D!WaitingIsTrue /\ D!TableIsSelected /\ D!PagerHasTable /\ ReadsInv
  BY <1>1 DEF D!WaitingIsTrue, D!TableIsSelected, D!PagerHasTable, ReadsInv
<1> QED BY <1>1, <1>2, <1>3 DEF DbInv

LEMMA DbStays == ASSUME DbInv, UNCHANGED databaseVars PROVE DbInv'
BY DEF DbInv, databaseVars, D!WaitingIsTrue, D!QuietDb, D!TableIsSelected, D!PagerHasTable,
       ReadsInv, Reading

LEMMA DbSteps == ASSUME DbInv, D!DbNext PROVE DbInv'
BY StatusKeeps, TablesKeeps, SelectKeeps, ReloadKeeps, TurnKeeps, OpenKeeps, RunKeeps,
   QueryAnsweredKeeps, ServerReadsTableKeeps, TableAnsweredKeeps, TableFailsKeeps
DEF D!DbNext, D!ReadProgress

-----------------------------------------------------------------------------
(* Feeds.  A request that crossed no other asks for what is selected, and  *)
(* was answered from what the source was after it was asked.               *)
Asks == [Slots -> [state : {"free", "sent", "read"}, key : Keys \cup {NoKey}, at : F!Told]]

FeedRecords ==
    [name : F!Feeds \cup {"none"}, key : Keys \cup {NoKey}, asks : Asks,
     shown : [key : Keys \cup {NoKey}, at : F!Told], loading : BOOLEAN,
     since : 1..MaxChanges, crossed : BOOLEAN, failed : BOOLEAN]

Asking(s) == feed.asks[s].state # "free"

AsksInv ==
    /\ feed.since <= Len(src)
    /\ \A s \in Slots : feed.asks[s].at # F!Failed /\ feed.asks[s].at <= Len(src)
    /\ feed.shown.at <= Len(src) /\ (feed.shown.at = F!Failed => feed.name \in F!Tells)
    /\ ~feed.crossed => \A s, t \in Slots : s # t => ~Asking(s) \/ ~Asking(t)
    /\ ~feed.crossed /\ (feed.name = "agentDoc" => feed.key # NoKey) =>
          \A s \in Slots : Asking(s) => feed.asks[s].key = feed.key
    /\ ~feed.crossed => \A s \in Slots :
          feed.asks[s].state = "read" /\ feed.asks[s].at >= 1 => feed.asks[s].at >= feed.since

(* What no longer waits has an answer or a failure behind it. *)
SettledInv ==
    /\ \A s \in Slots : feed.asks[s].state = "read" => feed.asks[s].at # F!Nothing
    /\ feed.name \notin {"none", "agentDoc"} =>
          /\ F!Quiet => feed.failed \/ feed.shown.at # F!Nothing
          /\ feed.name \notin F!Unflagged /\ ~feed.loading =>
                feed.failed \/ feed.shown.at # F!Nothing

FeedInv ==
    /\ feed \in FeedRecords
    /\ src \in Seq(F!Classes) /\ Len(src) \in 1..MaxChanges
    /\ F!LoadingIsTrue /\ AsksInv /\ SettledInv /\ F!FeedIsCurrent

FeedConstants == AllLabels \in Keys /\ MaxChanges \in Nat \ {0}

LEMMA FeedConstantsOK == FeedConstants
BY DashboardAssumption DEF DashboardAssumption, F!FeedAssumption, FeedConstants

LEMMA FeedTypes == FeedInv => F!FeedTypeOK
BY DEF FeedInv, FeedRecords, Asks, F!FeedTypeOK

LEMMA TellsOf ==
    /\ F!Nothing \in F!Told /\ F!Failed \in F!Told /\ F!Refused \in F!Told
    /\ F!Nothing = 0 /\ F!Failed = -1 /\ F!Refused = -2
    /\ \A n \in 1..MaxChanges : n \in F!Told
    /\ \A n \in F!Told : n \in Int
BY FeedConstantsOK DEF FeedConstants, F!Told, F!Nothing, F!Failed, F!Refused

(* The cards: a list that is empty is clear, whatever made it so. *)
LEMMA CalmGoal == FeedInv => F!CalmHasCause
<1> SUFFICES ASSUME FeedInv, \A p \in DOMAIN src : src[p] = "bad"
    PROVE  /\ F!Card = "clear" =>
                /\ feed.name \in F!Trusting /\ ~F!HasRead
                /\ F!Quiet => feed.failed \/ feed.shown.at = F!Refused
           /\ feed.name = "issues" /\ F!NoOpenIssues => feed.shown.at = F!Refused
  BY DEF F!CalmHasCause
<1>1. F!HasRead => F!Class = "bad"
  <2>1. src \in Seq(F!Classes) /\ feed.shown.at <= Len(src) /\ feed.shown.at \in F!Told
    BY DEF FeedInv, AsksInv, FeedRecords
  <2>2. ASSUME feed.shown.at >= 1 PROVE feed.shown.at \in 1..Len(src)
    <3>1. feed.shown.at \in -2 .. MaxChanges /\ MaxChanges \in Nat
      BY <2>1, FeedConstantsOK DEF F!Told, FeedConstants
    <3>2. Len(src) \in Nat
      BY <2>1
    <3> QED BY <2>1, <2>2, <3>1, <3>2
  <2> QED BY <2>1, <2>2 DEF F!HasRead, F!Class
<1>2. ~F!HasRead => feed.shown.at \in {F!Nothing, F!Failed, F!Refused}
  <2>1. feed.shown.at \in -2 .. MaxChanges
    BY DEF FeedInv, FeedRecords, F!Told
  <2> QED BY <2>1, TellsOf, FeedConstantsOK DEF F!HasRead, FeedConstants
<1>3. F!EmptyMeansClear = "clear" => ~F!HasRead
  BY <1>1 DEF F!EmptyMeansClear
<1>4. feed.name \in F!Feeds \cup {"none"} /\ feed.loading \in BOOLEAN
  BY DEF FeedInv, FeedRecords
<1>t. feed.name \in F!Trusting => feed.shown.at # F!Failed
  BY DEF FeedInv, AsksInv, F!Tells, F!Trusting
<1>5. ASSUME feed.name \in F!Trusting, F!EmptyMeansClear = "clear"
      PROVE  /\ ~F!HasRead
             /\ F!Quiet => feed.failed \/ feed.shown.at = F!Refused
             /\ ~feed.loading /\ ~feed.failed /\ feed.name = "issues"
                  => feed.shown.at = F!Refused
  <2>1. ~F!HasRead /\ feed.shown.at \in {F!Nothing, F!Refused}
    BY <1>2, <1>3, <1>5, <1>t
  <2>2. feed.name \notin {"none", "agentDoc"} /\ "issues" \notin F!Unflagged
    BY <1>5 DEF F!Trusting, F!Unflagged
  <2> QED BY <2>1, <2>2 DEF FeedInv, SettledInv
<1>6. feed.name = "issues" /\ F!NoOpenIssues => feed.shown.at = F!Refused
  BY <1>5 DEF F!NoOpenIssues, F!Trusting
<1>7. F!Card = "clear" =>
        /\ feed.name \in F!Trusting /\ ~F!HasRead
        /\ F!Quiet => feed.failed \/ feed.shown.at = F!Refused
  <2> SUFFICES ASSUME F!Card = "clear"
      PROVE  feed.name \in F!Trusting /\ F!EmptyMeansClear = "clear"
    BY <1>5
  <2>6. CASE feed.name \in F!Trusting
    <3>1. F!HealthPanel = "clear" => F!EmptyMeansClear = "clear"
      BY DEF F!HealthPanel
    <3>2. F!EmptyMeansClear = "clear"
      BY <2>6, <3>1 DEF F!Card, F!Trusting, F!IssuesPanel, F!IssuesTabPanel, F!SecurityPanel,
         F!GapsCard
    <3> QED BY <2>6, <3>2
  <2>7. CASE feed.name \in {"healthTab", "backend", "ci", "freshness"}
    <3>2. /\ F!HealthTabPanel # "clear"
          /\ F!BackendHealthWidget # "clear" /\ F!CIPanel # "clear" /\ F!FreshnessCard # "clear"
      BY <1>1, <1>4 DEF F!HealthTabPanel, F!BackendHealthWidget, F!CIPanel,
         F!FreshnessCard, F!ColouredRows
    <3> QED BY <2>7, <3>2 DEF F!Card
  <2>8. CASE feed.name \in {"phases", "phaseRows", "decisions", "deployments", "releases",
                            "governance", "hardRules", "outbox", "agentStats", "agentDoc"}
    <3>1. feed.loading \in BOOLEAN
      BY <1>4
    <3>2. \A none : none # "clear" => F!PlainRows(none) # "clear"
      BY <3>1 DEF F!PlainRows
    <3>3. /\ F!PhasesPanel # "clear" /\ F!PhaseRowsCard # "clear" /\ F!DecisionsPanel # "clear"
          /\ F!DeploymentsPanel # "clear" /\ F!ReleasesPanel # "clear"
          /\ F!GovernancePanel # "clear" /\ F!HardRulesCard # "clear"
          /\ F!OutboxView # "clear" /\ F!RosterStats # "clear" /\ F!RosterPanel # "clear"
      BY <3>2 DEF F!PhasesPanel, F!PhaseRowsCard, F!DecisionsPanel, F!DeploymentsPanel,
         F!ReleasesPanel, F!GovernancePanel, F!HardRulesCard, F!OutboxView, F!RosterStats,
         F!RosterPanel
    <3> QED BY <2>8, <3>3 DEF F!Card
  <2>9. CASE feed.name = "none"
    BY <2>9 DEF F!Card
  <2> QED BY <1>4, <2>6, <2>7, <2>8, <2>9 DEF F!Feeds, F!Trusting
<1> QED BY <1>6, <1>7

LEMMA AskKeeps ==
    ASSUME FeedInv, NEW key \in Keys \cup {NoKey}, F!Ask(key) PROVE FeedInv'
<1> DEFINE quiet == F!Quiet
           slow  == feed.name \notin F!Unflagged
<1>1. PICK s \in Slots :
        /\ feed.asks[s].state = "free" /\ UNCHANGED src
        /\ feed' = [feed EXCEPT !.key = key, !.asks[s] = F!Sent(key), !.loading = slow,
                                !.since = Len(src), !.crossed = ~quiet, !.failed = FALSE]
  BY DEF F!Ask
<1>2. quiet \in BOOLEAN /\ slow \in BOOLEAN
  BY DEF F!Quiet
<1>3. quiet => \A t \in Slots : feed.asks[t].state = "free"
  BY DEF F!Quiet
<1>4. slow <=> feed.name \notin F!Unflagged
  OBVIOUS
<1> HIDE DEF quiet, slow
<1>5. /\ F!Sent(key) \in [state : {"free", "sent", "read"}, key : Keys \cup {NoKey}, at : F!Told]
      /\ F!Sent(key).state = "sent" /\ F!Sent(key).key = key /\ F!Sent(key).at = F!Nothing
  BY TellsOf DEF F!Sent
<1>6. /\ feed' \in FeedRecords /\ feed'.name = feed.name /\ feed'.key = key
      /\ feed'.loading = slow /\ feed'.since = Len(src) /\ feed'.crossed = ~quiet
      /\ feed'.shown = feed.shown /\ ~feed'.failed
      /\ feed'.asks[s] = F!Sent(key) /\ \A t \in Slots : t # s => feed'.asks[t] = feed.asks[t]
  BY <1>1, <1>2, <1>5 DEF FeedInv, FeedRecords, Asks
<1>7. ~F!Quiet'
  BY <1>5, <1>6 DEF F!Quiet
<1>8. F!LoadingIsTrue' /\ F!FeedIsCurrent'
  BY <1>4, <1>6, <1>7 DEF F!LoadingIsTrue, F!FeedIsCurrent
<1>9. AsksInv'
  <2>1. Len(src) \in Nat /\ F!Nothing = 0 /\ F!Failed = -1
    BY TellsOf DEF FeedInv
  <2>2. \A t \in Slots :
           feed'.asks[t].at # F!Failed /\ feed'.asks[t].at <= Len(src')
    <3> SUFFICES ASSUME NEW t \in Slots
        PROVE  feed'.asks[t].at # F!Failed /\ feed'.asks[t].at <= Len(src)
      BY <1>1
    <3>1. CASE t = s
      BY <1>5, <1>6, <2>1, <3>1
    <3>2. CASE t # s
      BY <1>6, <3>2 DEF FeedInv, AsksInv
    <3> QED BY <3>1, <3>2
  <2>3. /\ feed'.since <= Len(src') /\ feed'.shown.at <= Len(src')
        /\ feed'.shown.at = F!Failed => feed'.name \in F!Tells
    BY <1>1, <1>6, <2>1 DEF FeedInv, AsksInv
  <2>4. ~feed'.crossed => \A t \in Slots : t # s => feed'.asks[t].state = "free"
    BY <1>3, <1>6
  <2> QED BY <1>5, <1>6, <2>2, <2>3, <2>4 DEF AsksInv, Asking
<1>10. SettledInv'
  BY <1>4, <1>5, <1>6, <1>7 DEF FeedInv, SettledInv
<1> QED BY <1>1, <1>6, <1>8, <1>9, <1>10 DEF FeedInv

LEMMA DeselectKeeps == ASSUME FeedInv, F!deselectAgent PROVE FeedInv'
<1>1. /\ feed.name = "agentDoc" /\ UNCHANGED src
      /\ feed' = [feed EXCEPT !.key = NoKey, !.shown = [key |-> NoKey, at |-> F!Nothing]]
  BY DEF F!deselectAgent
<1>2. /\ feed' \in FeedRecords /\ feed'.name = feed.name /\ feed'.key = NoKey
      /\ feed'.loading = feed.loading /\ feed'.since = feed.since
      /\ feed'.crossed = feed.crossed /\ feed'.shown.at = 0 /\ feed'.asks = feed.asks
  BY <1>1, TellsOf DEF FeedInv, FeedRecords
<1>3. F!LoadingIsTrue'
  BY <1>2 DEF FeedInv, F!LoadingIsTrue, F!Quiet
<1>4. F!FeedIsCurrent'
  BY <1>2 DEF F!FeedIsCurrent, F!HasRead
<1>5. AsksInv'
  BY <1>1, <1>2, TellsOf DEF FeedInv, AsksInv, Asking
<1>6. SettledInv'
  BY <1>1, <1>2 DEF FeedInv, SettledInv
<1> QED BY <1>1, <1>2, <1>3, <1>4, <1>5, <1>6 DEF FeedInv

LEMMA SourceKeeps == ASSUME FeedInv, F!SourceChanges PROVE FeedInv'
<1>1. PICK class \in F!Classes : src' = Append(src, class)
  BY DEF F!SourceChanges
<1>2. UNCHANGED feed /\ Len(src) < MaxChanges
  BY DEF F!SourceChanges
<1>3. src' \in Seq(F!Classes) /\ Len(src') = Len(src) + 1
  BY <1>1 DEF FeedInv
<1>4. Len(src') \in 1..MaxChanges /\ Len(src) \in Nat
  BY <1>2, <1>3, FeedConstantsOK DEF FeedInv, FeedConstants
<1>5. F!LoadingIsTrue' /\ F!FeedIsCurrent'
  BY <1>2 DEF FeedInv, F!LoadingIsTrue, F!FeedIsCurrent, F!Quiet, F!HasRead
<1>6. AsksInv'
  <2>1. feed.since \in Int /\ feed.shown.at \in Int /\ \A s \in Slots : feed.asks[s].at \in Int
    BY TellsOf DEF FeedInv, FeedRecords, Asks
  <2> QED BY <1>2, <1>3, <1>4, <2>1 DEF FeedInv, AsksInv, Asking
<1>7. SettledInv'
  BY <1>2 DEF FeedInv, SettledInv, F!Quiet
<1> QED BY <1>2, <1>3, <1>4, <1>5, <1>6, <1>7 DEF FeedInv

LEMMA ServerReadsKeeps ==
    ASSUME FeedInv, NEW s \in Slots, F!ServerReads(s) PROVE FeedInv'
<1>1. PICK at \in {Len(src), F!Refused} :
        feed' = [feed EXCEPT !.asks[s] = [state |-> "read", key |-> feed.asks[s].key,
                                          at |-> at]]
  BY DEF F!ServerReads
<1>2. UNCHANGED src /\ feed.asks[s].state = "sent"
  BY DEF F!ServerReads
<1>3. at \in F!Told /\ at <= Len(src) /\ at # F!Failed /\ (at >= 1 => at >= feed.since)
      /\ Len(src) \in Nat
  BY TellsOf DEF FeedInv, AsksInv
<1>4. feed.asks[s].key \in Keys \cup {NoKey}
  BY DEF FeedInv, FeedRecords, Asks
<1>5. /\ feed' \in FeedRecords /\ feed'.name = feed.name /\ feed'.key = feed.key
      /\ feed'.loading = feed.loading /\ feed'.since = feed.since
      /\ feed'.crossed = feed.crossed /\ feed'.shown = feed.shown
      /\ feed'.failed = feed.failed
      /\ feed'.asks[s] = [state |-> "read", key |-> feed.asks[s].key, at |-> at]
      /\ \A t \in Slots : t # s => feed'.asks[t] = feed.asks[t]
  BY <1>1, <1>3, <1>4 DEF FeedInv, FeedRecords, Asks
<1>6. ~F!Quiet' /\ ~F!Quiet
  BY <1>2, <1>5 DEF F!Quiet
<1>7. F!LoadingIsTrue' /\ F!FeedIsCurrent'
  BY <1>5, <1>6 DEF FeedInv, F!LoadingIsTrue, F!FeedIsCurrent
<1>8. AsksInv'
  BY <1>2, <1>3, <1>5 DEF FeedInv, AsksInv, Asking
<1>9. at # F!Nothing
  BY TellsOf DEF FeedInv
<1>10. SettledInv'
  BY <1>5, <1>6, <1>9 DEF FeedInv, SettledInv
<1> QED BY <1>2, <1>5, <1>7, <1>8, <1>10 DEF FeedInv

LEMMA AnsweredKeeps ==
    ASSUME FeedInv, NEW s \in Slots, F!Answered(s) PROVE FeedInv'
<1>1. /\ feed.asks[s].state = "read" /\ UNCHANGED src
      /\ feed' = [feed EXCEPT !.asks[s] = F!Free, !.loading = FALSE,
                    !.shown = [key |-> feed.asks[s].key, at |-> feed.asks[s].at]]
  BY DEF F!Answered
<1>2. /\ F!Free \in [state : {"free", "sent", "read"}, key : Keys \cup {NoKey}, at : F!Told]
      /\ F!Free.state = "free" /\ F!Free.at = 0
  BY TellsOf DEF F!Free
<1>3. feed.asks[s].key \in Keys \cup {NoKey} /\ feed.asks[s].at \in F!Told
  BY DEF FeedInv, FeedRecords, Asks
<1>4. /\ feed' \in FeedRecords /\ feed'.name = feed.name /\ feed'.key = feed.key
      /\ ~feed'.loading /\ feed'.since = feed.since /\ feed'.crossed = feed.crossed
      /\ feed'.shown.key = feed.asks[s].key /\ feed'.shown.at = feed.asks[s].at
      /\ feed'.asks[s] = F!Free /\ \A t \in Slots : t # s => feed'.asks[t] = feed.asks[t]
  BY <1>1, <1>2, <1>3 DEF FeedInv, FeedRecords, Asks
<1>5. F!LoadingIsTrue'
  BY <1>1, <1>2, <1>4 DEF FeedInv, AsksInv, Asking, F!LoadingIsTrue, F!Quiet
<1>6. F!FeedIsCurrent'
  BY <1>1, <1>4 DEF FeedInv, AsksInv, Asking, F!FeedIsCurrent, F!HasRead
<1>7. AsksInv'
  BY <1>1, <1>2, <1>4, TellsOf DEF FeedInv, AsksInv, Asking
<1>8. SettledInv'
  BY <1>1, <1>2, <1>4 DEF FeedInv, SettledInv
<1> QED BY <1>1, <1>4, <1>5, <1>6, <1>7, <1>8 DEF FeedInv

LEMMA FetchFailsKeeps ==
    ASSUME FeedInv, NEW s \in Slots, F!FetchFails(s) PROVE FeedInv'
<1> DEFINE next == IF feed.name \in F!Tells THEN [key |-> feed.asks[s].key, at |-> F!Failed]
                   ELSE feed.shown
<1>1. /\ feed.asks[s].state # "free" /\ UNCHANGED src
      /\ feed' = [feed EXCEPT !.asks[s] = F!Free, !.loading = FALSE, !.failed = TRUE,
                              !.shown = next]
  BY DEF F!FetchFails
<1>2. /\ F!Free \in [state : {"free", "sent", "read"}, key : Keys \cup {NoKey}, at : F!Told]
      /\ F!Free.state = "free" /\ F!Free.at = 0
  BY TellsOf DEF F!Free
<1>3. /\ next \in [key : Keys \cup {NoKey}, at : F!Told] /\ next.at <= Len(src)
      /\ next.at = F!Failed => feed.name \in F!Tells
  <2>1. feed.asks[s].key \in Keys \cup {NoKey} /\ feed.shown \in [key : Keys \cup {NoKey}, at : F!Told]
    BY DEF FeedInv, FeedRecords, Asks
  <2>2. CASE feed.name \in F!Tells
    BY <2>1, <2>2, TellsOf DEF FeedInv
  <2>3. CASE feed.name \notin F!Tells
    BY <2>1, <2>3 DEF FeedInv, AsksInv
  <2> QED BY <2>2, <2>3
<1> HIDE DEF next
<1>4. /\ feed' \in FeedRecords /\ feed'.name = feed.name /\ feed'.key = feed.key
      /\ ~feed'.loading /\ feed'.since = feed.since /\ feed'.crossed = feed.crossed
      /\ feed'.failed /\ feed'.shown = next
      /\ feed'.asks[s] = F!Free /\ \A t \in Slots : t # s => feed'.asks[t] = feed.asks[t]
  BY <1>1, <1>2, <1>3 DEF FeedInv, FeedRecords, Asks
<1>5. F!LoadingIsTrue' /\ F!FeedIsCurrent'
  BY <1>1, <1>2, <1>4 DEF FeedInv, AsksInv, Asking, F!LoadingIsTrue, F!FeedIsCurrent, F!Quiet
<1>6. AsksInv'
  BY <1>1, <1>2, <1>3, <1>4, TellsOf DEF FeedInv, AsksInv, Asking
<1>7. SettledInv'
  BY <1>2, <1>4 DEF FeedInv, SettledInv
<1> QED BY <1>1, <1>4, <1>5, <1>6, <1>7 DEF FeedInv

(* A mount, and its end. *)
LEMMA PanelKeeps ==
    ASSUME NEW name \in F!Feeds \cup {"none"}, NEW key \in Keys \cup {NoKey},
           NEW slow \in BOOLEAN, NEW two \in BOOLEAN, NEW class \in F!Classes,
           NEW asks, asks \in [Slots -> {F!Sent(key), F!Free}], src' = <<class>>,
           feed' = F!Panel(name, key, asks, slow, two),
           slow => \E s \in Slots : asks[s] = F!Sent(key),
           name \notin F!Unflagged => slow \/ asks = [s \in Slots |-> F!Free],
           name \notin {"none", "agentDoc"} =>
              (name \in F!Unflagged \/ slow) /\ \E s \in Slots : asks[s] = F!Sent(key),
           ~two => \A s, t \in Slots : s # t => asks[s] = F!Free \/ asks[t] = F!Free
    PROVE  FeedInv'
<1>1. /\ F!Sent(key) = [state |-> "sent", key |-> key, at |-> 0]
      /\ F!Free = [state |-> "free", key |-> NoKey, at |-> 0]
      /\ asks \in Asks
  BY TellsOf DEF F!Sent, F!Free, Asks
<1>2. feed' = [name |-> name, key |-> key, asks |-> asks,
               shown |-> [key |-> NoKey, at |-> 0], loading |-> slow,
               since |-> 1, crossed |-> two, failed |-> FALSE]
  BY TellsOf DEF F!Panel
<1>3. src' \in Seq(F!Classes) /\ Len(src') = 1 /\ 1 \in 1..MaxChanges /\ 0 \in F!Told
  BY FeedConstantsOK, TellsOf DEF FeedConstants
<1>4. feed' \in FeedRecords
  <2>1. [key |-> NoKey, at |-> 0] \in [key : Keys \cup {NoKey}, at : F!Told]
    BY <1>3
  <2>2. asks \in Asks /\ 1 \in 1..MaxChanges
    BY <1>1, <1>3
  <2> DEFINE none == [key |-> NoKey, at |-> 0]
             fresh == [name |-> name, key |-> key, asks |-> asks, shown |-> none,
                       loading |-> slow, since |-> 1, crossed |-> two, failed |-> FALSE]
  <2> HIDE DEF none
  <2>3. fresh \in FeedRecords
    BY <2>1, <2>2 DEF FeedRecords, none
  <2>4. feed' = fresh
    BY <1>2 DEF none
  <2> QED BY <2>3, <2>4
<1>5. F!LoadingIsTrue'
  BY <1>1, <1>2 DEF F!LoadingIsTrue, F!Quiet
<1>6. F!FeedIsCurrent'
  BY <1>2 DEF F!FeedIsCurrent, F!HasRead
<1>7. AsksInv'
  <2>1. \A s \in Slots : asks[s] \in {F!Sent(key), F!Free}
    OBVIOUS
  <2> QED BY <1>1, <1>2, <1>3, <2>1, TellsOf DEF AsksInv, Asking
<1>8. SettledInv'
  <2>1. \A s \in Slots : asks[s].state \in {"sent", "free"}
    BY <1>1
  <2>2. name \notin {"none", "agentDoc"} => ~F!Quiet' /\ (name \in F!Unflagged \/ slow)
    BY <1>1, <1>2 DEF F!Quiet
  <2>3. feed'.name = name /\ feed'.loading = slow /\ feed'.asks = asks
    BY <1>2
  <2> QED BY <2>1, <2>2, <2>3 DEF SettledInv
<1> QED BY <1>3, <1>4, <1>5, <1>6, <1>7, <1>8 DEF FeedInv

LEMMA FeedMountKeeps ==
    ASSUME NEW name \in F!Feeds, F!FeedMount(name) PROVE FeedInv'
<1>1. PICK class \in F!Classes : src' = <<class>>
  BY DEF F!FeedMount
<1>2. CASE name = "agentDoc"
  <2> DEFINE asks == [s \in Slots |-> F!Free]
  <2>1. feed' = F!Panel(name, NoKey, asks, FALSE, FALSE)
    BY <1>2 DEF F!FeedMount, F!Idle
  <2>2. /\ asks \in [Slots -> {F!Sent(NoKey), F!Free}]
        /\ \A s \in Slots : asks[s] = F!Free
    OBVIOUS
  <2>3. asks = [s \in Slots |-> F!Free]
    OBVIOUS
  <2> HIDE DEF asks
  <2> QED BY <1>1, <1>2, <2>1, <2>2, <2>3, PanelKeeps
<1>3. CASE name # "agentDoc"
  <2> DEFINE key == IF name = "issueList" THEN AllLabels ELSE NoKey
             slow == name \notin F!Unflagged
  <2>1. PICK first \in Slots, second \in Slots :
          feed' = F!Panel(name, key, [s \in Slots |-> IF s \in {first, second}
                                       THEN F!Sent(key) ELSE F!Free], slow, first # second)
    BY <1>3 DEF F!FeedMount
  <2> DEFINE asks == [s \in Slots |-> IF s \in {first, second} THEN F!Sent(key) ELSE F!Free]
             two  == first # second
  <2>2. key \in Keys \cup {NoKey} /\ slow \in BOOLEAN /\ two \in BOOLEAN
    BY FeedConstantsOK DEF FeedConstants
  <2>3. /\ name \notin F!Unflagged => slow
        /\ name \in F!Unflagged \/ slow
    OBVIOUS
  <2>4. feed' = F!Panel(name, key, asks, slow, two)
    BY <2>1
  <2>5. /\ asks \in [Slots -> {F!Sent(key), F!Free}]
        /\ asks[first] = F!Sent(key)
        /\ ~two => \A s, t \in Slots : s # t => asks[s] = F!Free \/ asks[t] = F!Free
    OBVIOUS
  <2> HIDE DEF key, slow, asks, two
  <2> QED BY <1>1, <2>2, <2>3, <2>4, <2>5, PanelKeeps
<1> QED BY <1>2, <1>3

LEMMA FeedUnmountKeeps == ASSUME F!FeedUnmount PROVE FeedInv'
<1> DEFINE asks == [s \in Slots |-> F!Free]
<1>1. feed' = F!Panel("none", NoKey, asks, FALSE, FALSE) /\ src' = <<"good">>
  BY DEF F!FeedUnmount, F!FeedOff, F!Idle
<1>2. /\ asks \in [Slots -> {F!Sent(NoKey), F!Free}]
      /\ \A s \in Slots : asks[s] = F!Free
      /\ asks = [s \in Slots |-> F!Free]
  OBVIOUS
<1> HIDE DEF asks
<1>3. "good" \in F!Classes
  BY DEF F!Classes
<1> QED BY <1>1, <1>2, <1>3, PanelKeeps

LEMMA FeedStarts == ASSUME F!FeedInit PROVE FeedInv
<1>1. /\ feed = [name |-> "none", key |-> NoKey,
                 asks |-> [s \in Slots |-> [state |-> "free", key |-> NoKey, at |-> 0]],
                 shown |-> [key |-> NoKey, at |-> 0], loading |-> FALSE,
                 since |-> 1, crossed |-> FALSE, failed |-> FALSE]
      /\ src = <<"good">>
  BY TellsOf DEF F!FeedInit, F!FeedOff, F!Idle, F!Panel, F!Free
<1>2. src \in Seq(F!Classes) /\ Len(src) = 1 /\ 1 \in 1..MaxChanges /\ 0 \in F!Told
  BY <1>1, FeedConstantsOK, TellsOf DEF FeedConstants, F!Classes
<1>3. feed \in FeedRecords
  BY <1>1, <1>2 DEF FeedRecords, Asks
<1>4. F!LoadingIsTrue /\ F!FeedIsCurrent
  BY <1>1 DEF F!LoadingIsTrue, F!Quiet, F!FeedIsCurrent, F!HasRead
<1>5. AsksInv /\ SettledInv
  BY <1>1, <1>2, TellsOf DEF AsksInv, SettledInv, Asking
<1> QED BY <1>2, <1>3, <1>4, <1>5 DEF FeedInv

LEMMA FeedStays == ASSUME FeedInv, UNCHANGED feedVars PROVE FeedInv'
BY DEF FeedInv, feedVars, F!LoadingIsTrue, F!Quiet, F!FeedIsCurrent, F!HasRead, AsksInv,
       SettledInv, Asking

LEMMA FeedSteps == ASSUME FeedInv, F!FeedNext PROVE FeedInv'
<1>1. feed.key \in Keys \cup {NoKey}
  BY DEF FeedInv, FeedRecords
<1> QED BY <1>1, AskKeeps, DeselectKeeps, SourceKeeps, ServerReadsKeeps, AnsweredKeeps, FetchFailsKeeps
    DEF F!FeedNext, F!FeedProgress, F!Reload, F!SelectLabel, F!selectAgent

-----------------------------------------------------------------------------
(* The activity list.  What is on its way, put before the list, gives the  *)
(* newest of the log: lemmas about what is pushed, kept and reversed.      *)
ActConstants == MaxLog \in Nat /\ MaxDowns \in Nat /\ Cap \in Nat \ {0}

LEMMA ActConstantsOK == ActConstants
BY DashboardAssumption DEF DashboardAssumption, A!ActivityAssumption, ActConstants

Least(n) == IF n < Cap THEN n ELSE Cap

LEMMA CappedIs ==
    ASSUME NEW S, NEW e \in Seq(S)
    PROVE  /\ A!Capped(e) \in Seq(S) /\ Len(A!Capped(e)) = Least(Len(e))
           /\ \A i \in 1 .. Least(Len(e)) : A!Capped(e)[i] = e[i]
<1>1. Len(e) \in Nat /\ Cap \in Nat
  BY ActConstantsOK, LenProperties DEF ActConstants
<1>2. Least(Len(e)) \in Nat /\ Least(Len(e)) <= Len(e)
  BY <1>1 DEF Least
<1>3. \A i \in 1 .. Least(Len(e)) : e[i] \in S
  BY <1>1, <1>2, ElementOfSeq
<1>4. A!Capped(e) = SubSeq(e, 1, Least(Len(e)))
  BY DEF A!Capped, Least
<1>5. 1 \in Int /\ Least(Len(e)) \in Int
  BY <1>2
<1>6. /\ SubSeq(e, 1, Least(Len(e))) \in Seq(S)
      /\ Len(SubSeq(e, 1, Least(Len(e)))) =
           IF 1 <= Least(Len(e)) THEN Least(Len(e)) - 1 + 1 ELSE 0
      /\ \A i \in 1 .. Least(Len(e)) - 1 + 1 : SubSeq(e, 1, Least(Len(e)))[i] = e[1 + i - 1]
  BY <1>3, <1>5, SubSeqProperties
<1> QED BY <1>2, <1>4, <1>6

LEMMA ReversedIs ==
    ASSUME NEW S, NEW q \in Seq(S)
    PROVE  /\ A!Reversed(q) \in Seq(S) /\ Len(A!Reversed(q)) = Len(q)
           /\ \A i \in 1 .. Len(q) : A!Reversed(q)[i] = q[Len(q) + 1 - i]
<1>1. Len(q) \in Nat /\ DOMAIN q = 1 .. Len(q)
  BY LenProperties
<1>2. \A i \in 1 .. Len(q) : Len(q) + 1 - i \in 1 .. Len(q)
  BY <1>1
<1>3. A!Reversed(q) = [i \in 1 .. Len(q) |-> q[Len(q) + 1 - i]]
  BY <1>1 DEF A!Reversed
<1>4. \A i \in 1 .. Len(q) : q[Len(q) + 1 - i] \in S
  BY <1>2, ElementOfSeq
<1>5. A!Reversed(q) \in [1 .. Len(q) -> S]
  BY <1>3, <1>4
<1>6. A!Reversed(q) \in Seq(S)
  BY <1>1, <1>5, SeqDef
<1> QED BY <1>1, <1>3, <1>5, <1>6, LenProperties

LEMMA NewestIs ==
    ASSUME NEW n \in 0..MaxLog
    PROVE  /\ A!Newest(n) \in Seq(A!Entries) /\ Len(A!Newest(n)) = Least(n)
           /\ \A i \in 1 .. Least(n) : A!Newest(n)[i] = n + 1 - i
<1>1. n \in Nat /\ MaxLog \in Nat /\ Cap \in Nat
  BY ActConstantsOK DEF ActConstants
<1>2. Least(n) \in Nat /\ Least(n) <= n
  BY <1>1 DEF Least
<1>3. A!Newest(n) = [i \in 1 .. Least(n) |-> n + 1 - i]
  BY DEF A!Newest, Least
<1>4. \A i \in 1 .. Least(n) : n + 1 - i \in A!Entries
  BY <1>1, <1>2 DEF A!Entries
<1>5. A!Newest(n) \in [1 .. Least(n) -> A!Entries]
  BY <1>3, <1>4
<1>6. A!Newest(n) \in Seq(A!Entries)
  BY <1>2, <1>5, SeqDef
<1> QED BY <1>2, <1>3, <1>5, <1>6, LenProperties

(* A new entry before a list that shows the newest of the log. *)
LEMMA NewestGrows ==
    ASSUME NEW n \in 0 .. MaxLog - 1, NEW e \in Seq(A!Entries),
           A!Capped(e) = A!Newest(n)
    PROVE  A!Capped(<<n + 1>> \o e) = A!Newest(n + 1)
<1> DEFINE more == <<n + 1>> \o e
<1>1. MaxLog \in Nat /\ Cap \in Nat /\ Cap > 0 /\ n \in Nat /\ n \in 0..MaxLog /\ n + 1 \in 0..MaxLog
  BY ActConstantsOK DEF ActConstants
<1>2. n + 1 \in A!Entries /\ <<n + 1>> \in Seq(A!Entries) /\ Len(<<n + 1>>) = 1
      /\ <<n + 1>>[1] = n + 1
  BY <1>1 DEF A!Entries
<1>3. /\ more \in Seq(A!Entries) /\ Len(more) = 1 + Len(e) /\ Len(e) \in Nat
      /\ \A i \in 1 .. 1 + Len(e) : more[i] = IF i <= 1 THEN <<n + 1>>[i] ELSE e[i - 1]
  BY <1>2, ConcatProperties, LenProperties
<1> HIDE DEF more
<1>4. /\ Least(Len(e)) = Least(n)
      /\ \A i \in 1 .. Least(n) : e[i] = n + 1 - i
  <2>1. /\ Len(A!Capped(e)) = Least(Len(e))
        /\ \A i \in 1 .. Least(Len(e)) : A!Capped(e)[i] = e[i]
    BY CappedIs
  <2>2. /\ Len(A!Newest(n)) = Least(n)
        /\ \A i \in 1 .. Least(n) : A!Newest(n)[i] = n + 1 - i
    BY <1>1, NewestIs
  <2>3. Least(Len(e)) = Least(n)
    BY <2>1, <2>2
  <2>4. \A i \in 1 .. Least(n) : e[i] = A!Newest(n)[i]
    BY <2>1, <2>3
  <2> QED BY <2>2, <2>3, <2>4
<1>5. Least(Len(more)) = Least(n + 1)
  BY <1>1, <1>3, <1>4 DEF Least
<1>6. \A i \in 1 .. Least(n + 1) : more[i] = n + 2 - i
  <2> SUFFICES ASSUME NEW i \in 1 .. Least(n + 1) PROVE more[i] = n + 2 - i
    OBVIOUS
  <2>1. i \in Nat /\ i >= 1 /\ i <= Least(n + 1) /\ i <= 1 + Len(e)
    BY <1>1, <1>3, <1>5 DEF Least
  <2>2. CASE i = 1
    BY <1>1, <1>2, <1>3, <2>1, <2>2
  <2>3. CASE i # 1
    <3>1. i - 1 \in 1 .. Least(n)
      BY <1>1, <2>1, <2>3 DEF Least
    <3>2. more[i] = e[i - 1]
      BY <1>3, <2>1, <2>3
    <3> QED BY <1>1, <1>4, <2>1, <3>1, <3>2
  <2> QED BY <2>2, <2>3
<1>7. /\ A!Capped(more) \in Seq(A!Entries) /\ Len(A!Capped(more)) = Least(n + 1)
      /\ \A i \in 1 .. Least(n + 1) : A!Capped(more)[i] = more[i]
  BY <1>3, <1>5, CappedIs
<1>8. /\ A!Newest(n + 1) \in Seq(A!Entries) /\ Len(A!Newest(n + 1)) = Least(n + 1)
      /\ \A i \in 1 .. Least(n + 1) : A!Newest(n + 1)[i] = n + 1 + 1 - i
  BY <1>1, NewestIs
<1>9. Least(n + 1) \in Nat
  BY <1>1 DEF Least
<1>10. \A i \in 1 .. Least(n + 1) : A!Capped(more)[i] = A!Newest(n + 1)[i]
  BY <1>1, <1>6, <1>7, <1>8, <1>9
<1>11. A!Capped(more) = A!Newest(n + 1)
  BY <1>7, <1>8, <1>10, SeqEqual
<1> QED BY <1>11 DEF more

(* What is dropped at the end was beyond the cap. *)
LEMMA CappedTwice ==
    ASSUME NEW S, NEW r \in Seq(S), NEW e \in Seq(S)
    PROVE  A!Capped(r \o A!Capped(e)) = A!Capped(r \o e)
<1> DEFINE c == A!Capped(e)
           x == r \o c
           y == r \o e
<1>1. /\ c \in Seq(S) /\ Len(c) = Least(Len(e))
      /\ \A i \in 1 .. Least(Len(e)) : c[i] = e[i]
  BY CappedIs
<1> HIDE DEF c
<1>2. Len(r) \in Nat /\ Len(e) \in Nat /\ Cap \in Nat
  BY LenProperties, ActConstantsOK DEF ActConstants
<1>3. /\ x \in Seq(S) /\ Len(x) = Len(r) + Len(c)
      /\ \A i \in 1 .. Len(r) + Len(c) : x[i] = IF i <= Len(r) THEN r[i] ELSE c[i - Len(r)]
  BY <1>1, ConcatProperties
<1>4. /\ y \in Seq(S) /\ Len(y) = Len(r) + Len(e)
      /\ \A i \in 1 .. Len(r) + Len(e) : y[i] = IF i <= Len(r) THEN r[i] ELSE e[i - Len(r)]
  BY ConcatProperties
<1> HIDE DEF x, y
<1>5. Least(Len(x)) = Least(Len(y)) /\ Least(Len(x)) \in Nat
      /\ Least(Len(x)) <= Len(x) /\ Least(Len(y)) <= Len(y)
  BY <1>1, <1>2, <1>3, <1>4 DEF Least
<1>6. \A i \in 1 .. Least(Len(x)) : x[i] = y[i]
  <2> SUFFICES ASSUME NEW i \in 1 .. Least(Len(x)) PROVE x[i] = y[i]
    OBVIOUS
  <2>1. /\ i \in Nat /\ i >= 1 /\ i \in 1 .. Len(r) + Len(c) /\ i \in 1 .. Len(r) + Len(e)
    BY <1>1, <1>2, <1>3, <1>4, <1>5 DEF Least
  <2>2. CASE i <= Len(r)
    BY <1>3, <1>4, <2>1, <2>2
  <2>3. CASE ~(i <= Len(r))
    <3>1. i - Len(r) \in 1 .. Least(Len(e))
      BY <1>1, <1>2, <2>1, <2>3
    <3> QED BY <1>1, <1>3, <1>4, <2>1, <2>3, <3>1
  <2> QED BY <2>2, <2>3
<1>7. /\ A!Capped(x) \in Seq(S) /\ Len(A!Capped(x)) = Least(Len(x))
      /\ \A i \in 1 .. Least(Len(x)) : A!Capped(x)[i] = x[i]
  BY <1>3, CappedIs
<1>8. /\ A!Capped(y) \in Seq(S) /\ Len(A!Capped(y)) = Least(Len(y))
      /\ \A i \in 1 .. Least(Len(y)) : A!Capped(y)[i] = y[i]
  BY <1>4, CappedIs
<1>9. A!Capped(x) = A!Capped(y)
  BY <1>5, <1>6, <1>7, <1>8, SeqEqual
<1> QED BY <1>9 DEF x, y, c

LEMMA ReversedAppend ==
    ASSUME NEW S, NEW q \in Seq(S), NEW a \in S
    PROVE  A!Reversed(Append(q, a)) = <<a>> \o A!Reversed(q)
<1> DEFINE l == Append(q, a)
           r == <<a>> \o A!Reversed(q)
<1>1. /\ l \in Seq(S) /\ Len(l) = Len(q) + 1 /\ l[Len(q) + 1] = a
      /\ \A i \in 1 .. Len(q) : l[i] = q[i]
  BY AppendProperties
<1>2. /\ A!Reversed(q) \in Seq(S) /\ Len(A!Reversed(q)) = Len(q) /\ Len(q) \in Nat
      /\ \A i \in 1 .. Len(q) : A!Reversed(q)[i] = q[Len(q) + 1 - i]
  BY ReversedIs, LenProperties
<1>3. <<a>> \in Seq(S) /\ Len(<<a>>) = 1 /\ <<a>>[1] = a
  OBVIOUS
<1>4. /\ r \in Seq(S) /\ Len(r) = 1 + Len(q)
      /\ \A i \in 1 .. 1 + Len(q) : r[i] = IF i <= 1 THEN <<a>>[i] ELSE A!Reversed(q)[i - 1]
  BY <1>2, <1>3, ConcatProperties
<1> HIDE DEF l, r
<1>5. /\ A!Reversed(l) \in Seq(S) /\ Len(A!Reversed(l)) = Len(q) + 1
      /\ \A i \in 1 .. Len(q) + 1 : A!Reversed(l)[i] = l[Len(q) + 1 + 1 - i]
  BY <1>1, ReversedIs
<1>6. \A i \in 1 .. Len(q) + 1 : A!Reversed(l)[i] = r[i]
  <2> SUFFICES ASSUME NEW i \in 1 .. Len(q) + 1 PROVE A!Reversed(l)[i] = r[i]
    OBVIOUS
  <2>1. CASE i = 1
    BY <1>1, <1>2, <1>3, <1>4, <1>5, <2>1
  <2>2. CASE i # 1
    <3>1. i - 1 \in 1 .. Len(q) /\ Len(q) + 2 - i \in 1 .. Len(q)
          /\ Len(q) + 1 + 1 - i = Len(q) + 2 - i /\ Len(q) + 1 - (i - 1) = Len(q) + 2 - i
      BY <1>2, <2>2
    <3>2. A!Reversed(l)[i] = q[Len(q) + 2 - i]
      BY <1>1, <1>5, <3>1
    <3>3. r[i] = A!Reversed(q)[i - 1]
      BY <1>2, <1>4, <2>2
    <3> QED BY <1>2, <3>1, <3>2, <3>3
  <2> QED BY <2>1, <2>2
<1>7. A!Reversed(l) = r
  BY <1>2, <1>4, <1>5, <1>6, SeqEqual
<1> QED BY <1>7 DEF l, r

LEMMA ReversedHead ==
    ASSUME NEW S, NEW a \in S, NEW q \in Seq(S)
    PROVE  A!Reversed(<<a>> \o q) = A!Reversed(q) \o <<a>>
<1> DEFINE l == <<a>> \o q
           r == A!Reversed(q) \o <<a>>
<1>2. /\ A!Reversed(q) \in Seq(S) /\ Len(A!Reversed(q)) = Len(q) /\ Len(q) \in Nat
      /\ \A i \in 1 .. Len(q) : A!Reversed(q)[i] = q[Len(q) + 1 - i]
  BY ReversedIs, LenProperties
<1>3. <<a>> \in Seq(S) /\ Len(<<a>>) = 1 /\ <<a>>[1] = a
  OBVIOUS
<1>1. /\ l \in Seq(S) /\ Len(l) = 1 + Len(q)
      /\ \A i \in 1 .. 1 + Len(q) : l[i] = IF i <= 1 THEN <<a>>[i] ELSE q[i - 1]
  BY <1>3, ConcatProperties
<1>4. /\ r \in Seq(S) /\ Len(r) = Len(q) + 1
      /\ \A i \in 1 .. Len(q) + 1 :
           r[i] = IF i <= Len(q) THEN A!Reversed(q)[i] ELSE <<a>>[i - Len(q)]
  BY <1>2, <1>3, ConcatProperties
<1> HIDE DEF l, r
<1>5. /\ A!Reversed(l) \in Seq(S) /\ Len(A!Reversed(l)) = Len(q) + 1
      /\ \A i \in 1 .. Len(q) + 1 : A!Reversed(l)[i] = l[1 + Len(q) + 1 - i]
  BY <1>1, <1>2, ReversedIs
<1>6. \A i \in 1 .. Len(q) + 1 : A!Reversed(l)[i] = r[i]
  <2> SUFFICES ASSUME NEW i \in 1 .. Len(q) + 1 PROVE A!Reversed(l)[i] = r[i]
    OBVIOUS
  <2>1. CASE i = Len(q) + 1
    BY <1>1, <1>2, <1>3, <1>4, <1>5, <2>1
  <2>2. CASE i # Len(q) + 1
    <3>1. i \in 1 .. Len(q) /\ Len(q) + 2 - i \in 2 .. Len(q) + 1
          /\ 1 + Len(q) + 1 - i = Len(q) + 2 - i /\ Len(q) + 2 - i - 1 = Len(q) + 1 - i
      BY <1>2, <2>2
    <3>2. A!Reversed(l)[i] = l[Len(q) + 2 - i]
      BY <1>5, <3>1
    <3>3. l[Len(q) + 2 - i] = q[Len(q) + 2 - i - 1]
      BY <1>1, <1>2, <3>1
    <3>4. r[i] = A!Reversed(q)[i]
      BY <1>2, <1>4, <3>1
    <3>5. A!Reversed(q)[i] = q[Len(q) + 1 - i]
      BY <1>2, <3>1
    <3> QED BY <3>1, <3>2, <3>3, <3>4, <3>5
  <2> QED BY <2>1, <2>2
<1>7. A!Reversed(l) = r
  BY <1>2, <1>4, <1>5, <1>6, SeqEqual
<1> QED BY <1>7 DEF l, r

(* An entry that is written or filed, and one that reaches the list. *)
LEMMA Pushed ==
    ASSUME NEW w \in Seq(A!Entries), NEW e \in Seq(A!Entries), NEW n \in 0 .. MaxLog - 1,
           A!Capped(A!Reversed(w) \o e) = A!Newest(n)
    PROVE  A!Capped(A!Reversed(Append(w, n + 1)) \o e) = A!Newest(n + 1)
<1>1. n + 1 \in A!Entries /\ <<n + 1>> \in Seq(A!Entries)
  BY ActConstantsOK DEF ActConstants, A!Entries
<1>2. A!Reversed(w) \in Seq(A!Entries)
  BY ReversedIs
<1>3. A!Reversed(w) \o e \in Seq(A!Entries)
  BY <1>2, ConcatProperties
<1>4. A!Reversed(Append(w, n + 1)) = <<n + 1>> \o A!Reversed(w)
  BY <1>1, ReversedAppend
<1>5. (<<n + 1>> \o A!Reversed(w)) \o e = <<n + 1>> \o (A!Reversed(w) \o e)
  BY <1>1, <1>2, ConcatAssociative
<1>6. A!Capped(<<n + 1>> \o (A!Reversed(w) \o e)) = A!Newest(n + 1)
  BY <1>3, NewestGrows
<1> QED BY <1>4, <1>5, <1>6

LEMMA Popped ==
    ASSUME NEW S, NEW q \in Seq(S), q # <<>>, NEW u \in Seq(S), NEW e \in Seq(S)
    PROVE  A!Capped(A!Reversed(Tail(q) \o u) \o A!Capped(<<Head(q)>> \o e))
             = A!Capped(A!Reversed(q \o u) \o e)
<1> DEFINE h == Head(q)
           t == Tail(q)
<1>1. h \in S /\ t \in Seq(S) /\ <<h>> \in Seq(S)
  BY HeadTailProperties
<1>2. q = <<h>> \o t
  <2>1. /\ Len(<<h>>) = 1 /\ <<h>>[1] = h /\ Len(q) \in Nat /\ Len(q) # 0
        /\ Len(t) = Len(q) - 1 /\ \A i \in 1 .. Len(t) : t[i] = q[i + 1]
        /\ h = q[1]
    BY HeadTailProperties, LenProperties, EmptySeq
  <2>2. /\ <<h>> \o t \in Seq(S) /\ Len(<<h>> \o t) = 1 + Len(t)
        /\ \A i \in 1 .. 1 + Len(t) :
             (<<h>> \o t)[i] = IF i <= 1 THEN <<h>>[i] ELSE t[i - 1]
    BY <1>1, <2>1, ConcatProperties
  <2> HIDE DEF h, t
  <2>3. Len(<<h>> \o t) = Len(q)
    BY <2>1, <2>2
  <2>4. \A i \in 1 .. Len(q) : (<<h>> \o t)[i] = q[i]
    <3> SUFFICES ASSUME NEW i \in 1 .. Len(q) PROVE (<<h>> \o t)[i] = q[i]
      OBVIOUS
    <3>1. CASE i = 1
      BY <2>1, <2>2, <3>1
    <3>2. CASE i # 1
      <4>1. i - 1 \in 1 .. Len(t) /\ i - 1 + 1 = i
        BY <2>1, <3>2
      <4> QED BY <2>1, <2>2, <3>2, <4>1
    <3> QED BY <3>1, <3>2
  <2> QED BY <2>2, <2>3, <2>4, SeqEqual
<1> HIDE DEF h, t
<1>3. t \o u \in Seq(S)
  BY <1>1, ConcatProperties
<1>4. q \o u = <<h>> \o (t \o u)
  BY <1>1, <1>2, ConcatAssociative
<1>5. A!Reversed(q \o u) = A!Reversed(t \o u) \o <<h>> /\ A!Reversed(t \o u) \in Seq(S)
  BY <1>1, <1>3, <1>4, ReversedHead, ReversedIs
<1>6. (A!Reversed(t \o u) \o <<h>>) \o e = A!Reversed(t \o u) \o (<<h>> \o e)
  BY <1>1, <1>5, ConcatAssociative
<1>7. <<h>> \o e \in Seq(S)
  BY <1>1, ConcatProperties
<1>8. A!Capped(A!Reversed(t \o u) \o A!Capped(<<h>> \o e))
        = A!Capped(A!Reversed(t \o u) \o (<<h>> \o e))
  BY <1>5, <1>7, CappedTwice
<1> QED BY <1>5, <1>6, <1>8 DEF h, t

(* A load that is calm is answered with the log as it is, and the timer    *)
(* runs instead of a connection.                                           *)
ActRecords ==
    [mounted : BOOLEAN, es : {"none", "connecting", "open"}, timer : BOOLEAN,
     downs : 0..MaxDowns, entries : Seq(A!Entries), loading : BOOLEAN, live : BOOLEAN,
     post : {"none", "sent", "filed", "lost"}, posting : BOOLEAN, calm : BOOLEAN,
     blurred : BOOLEAN]

Gets == [Slots -> [state : {"free", "sent", "read", "empty"}, log : 0..MaxLog]]

Streams ==
    [log : 0..MaxLog, offset : 0..MaxLog, astray : BOOLEAN, registered : BOOLEAN,
     queue : Seq(A!Entries)]

CalmInv ==
    /\ act.calm =>
          /\ A!NothingOnItsWay
          /\ \A s, t \in Slots : s # t => gets[s].state = "free" \/ gets[t].state = "free"
          /\ \A s \in Slots : gets[s].state = "read" => gets[s].log = stream.log
    /\ ~act.blurred => stream.registered /\ (stream.astray => stream.offset = stream.log)
    /\ stream.offset <= stream.log
    /\ act.timer => act.es = "none"

ActInv ==
    /\ act \in ActRecords /\ Len(act.entries) <= Cap /\ gets \in Gets /\ stream \in Streams
    /\ A!KeepsTrying /\ A!ListSettles /\ CalmInv /\ A!StreamExact

LEMMA ActTypes == ActInv => A!ActTypeOK
BY DEF ActInv, CalmInv, ActRecords, Gets, Streams, A!ActTypeOK

(* What lies beyond a position: nothing at the end, and one line more with *)
(* each that is written.                                                   *)
LEMMA FromIs ==
    ASSUME stream \in Streams, NEW n \in 0..stream.log
    PROVE  /\ A!From(n) \in Seq(A!Entries) /\ Len(A!From(n)) = stream.log - n
           /\ \A i \in 1..stream.log - n : A!From(n)[i] = n + i
           /\ n = stream.log => A!From(n) = <<>>
<1>1. stream.log \in 0..MaxLog /\ MaxLog \in Nat
  BY ActConstantsOK DEF Streams, ActConstants
<1>2. stream.log - n \in Nat /\ \A i \in 1..stream.log - n : n + i \in A!Entries
  BY <1>1 DEF A!Entries
<1>3. A!From(n) = [i \in 1..stream.log - n |-> n + i]
  BY DEF A!From
<1>4. A!From(n) \in [1..stream.log - n -> A!Entries]
  BY <1>2, <1>3
<1>5. A!From(n) \in Seq(A!Entries) /\ Len(A!From(n)) = stream.log - n
  BY <1>2, <1>4, SeqDef, LenProperties
<1>6. n = stream.log => Len(A!From(n)) = 0
  BY <1>1, <1>5
<1> QED BY <1>3, <1>5, <1>6, EmptySeq

LEMMA UnseenIs ==
    ASSUME stream \in Streams, stream.offset <= stream.log
    PROVE  /\ A!Unseen \in Seq(A!Entries) /\ Len(A!Unseen) = stream.log - stream.offset
           /\ \A i \in 1..stream.log - stream.offset : A!Unseen[i] = stream.offset + i
           /\ stream.offset = stream.log => A!Unseen = <<>>
<1>1. stream.offset \in 0..stream.log
  BY DEF Streams
<1> QED BY <1>1, FromIs DEF A!Unseen

LEMMA UnseenIsThen ==
    ASSUME stream' \in Streams, stream'.offset <= stream'.log
    PROVE  /\ A!Unseen' \in Seq(A!Entries) /\ Len(A!Unseen') = stream'.log - stream'.offset
           /\ \A i \in 1..stream'.log - stream'.offset : A!Unseen'[i] = stream'.offset + i
           /\ stream'.offset = stream'.log => A!Unseen' = <<>>
<1>1. stream'.log \in 0..MaxLog /\ stream'.offset \in 0..stream'.log /\ MaxLog \in Nat
  BY ActConstantsOK DEF Streams, ActConstants
<1> DEFINE n == stream'.offset
<1>2. stream'.log - n \in Nat /\ \A i \in 1..stream'.log - n : n + i \in A!Entries
  BY <1>1 DEF A!Entries
<1>3. A!Unseen' = [i \in 1..stream'.log - n |-> n + i]
  BY DEF A!From, A!Unseen
<1>4. A!Unseen' \in [1..stream'.log - n -> A!Entries]
  BY <1>2, <1>3
<1>5. A!Unseen' \in Seq(A!Entries) /\ Len(A!Unseen') = stream'.log - n
  BY <1>2, <1>4, SeqDef, LenProperties
<1>6. n = stream'.log => Len(A!Unseen') = 0
  BY <1>1, <1>5
<1> QED BY <1>3, <1>5, <1>6, EmptySeq

LEMMA UnseenGrows ==
    ASSUME stream \in Streams, stream' \in Streams, stream.offset <= stream.log,
           stream'.offset = stream.offset, stream'.log = stream.log + 1
    PROVE  A!Unseen' = Append(A!Unseen, stream'.log)
<1>1. /\ stream.log \in Nat /\ stream.offset \in Nat /\ stream'.offset <= stream'.log
      /\ stream'.log \in A!Entries
  BY DEF Streams, A!Entries
<1>2. /\ A!Unseen \in Seq(A!Entries) /\ Len(A!Unseen) = stream.log - stream.offset
      /\ \A i \in 1..stream.log - stream.offset : A!Unseen[i] = stream.offset + i
  BY UnseenIs
<1>3. /\ A!Unseen' \in Seq(A!Entries) /\ Len(A!Unseen') = stream'.log - stream'.offset
      /\ \A i \in 1..stream'.log - stream'.offset : A!Unseen'[i] = stream'.offset + i
  BY <1>1, UnseenIsThen
<1> DEFINE l == Append(A!Unseen, stream'.log)
<1>4. /\ l \in Seq(A!Entries) /\ Len(l) = Len(A!Unseen) + 1 /\ l[Len(A!Unseen) + 1] = stream'.log
      /\ \A i \in 1 .. Len(A!Unseen) : l[i] = A!Unseen[i]
  BY <1>1, <1>2, AppendProperties
<1> HIDE DEF l
<1>5. Len(A!Unseen') = Len(l) /\ Len(l) = stream.log - stream.offset + 1
  BY <1>1, <1>2, <1>3, <1>4
<1>6. \A i \in 1 .. Len(A!Unseen') : A!Unseen'[i] = l[i]
  <2> SUFFICES ASSUME NEW i \in 1 .. stream.log - stream.offset + 1
      PROVE  A!Unseen'[i] = l[i]
    BY <1>5
  <2>1. A!Unseen'[i] = stream.offset + i
    BY <1>1, <1>3
  <2>2. CASE i = stream.log - stream.offset + 1
    BY <1>1, <1>2, <1>4, <2>1, <2>2
  <2>3. CASE i # stream.log - stream.offset + 1
    <3>1. i \in 1 .. stream.log - stream.offset
      BY <1>1, <2>3
    <3> QED BY <1>2, <1>4, <2>1, <3>1
  <2> QED BY <2>2, <2>3
<1>7. A!Unseen' = l
  BY <1>3, <1>4, <1>5, <1>6, SeqEqual
<1> QED BY <1>7 DEF l

(* Refresh, and the load that follows a post. *)
LEMMA ActLoadKeeps ==
    ASSUME ActInv, NEW s \in Slots, NEW posting \in BOOLEAN,
           NEW post \in {"none", "sent", "filed", "lost"}, posting <=> post # "none",
           A!load([act EXCEPT !.post = post, !.posting = posting], s), UNCHANGED stream
    PROVE  ActInv'
<1> DEFINE calm == A!QuietAct /\ A!NothingOnItsWay
<1>1. /\ gets[s].state = "free" /\ gets' = [gets EXCEPT ![s] = [state |-> "sent", log |-> 0]]
      /\ act' = [[act EXCEPT !.post = post, !.posting = posting]
                 EXCEPT !.loading = TRUE, !.calm = calm]
  BY DEF A!load
<1>2. calm \in BOOLEAN
  BY DEF A!QuietAct, A!NothingOnItsWay
<1>3. calm => A!NothingOnItsWay /\ \A t \in Slots : gets[t].state = "free"
  BY DEF A!QuietAct
<1> HIDE DEF calm
<1>4. /\ act' \in ActRecords /\ act'.mounted = act.mounted /\ act'.es = act.es
      /\ act'.timer = act.timer /\ act'.entries = act.entries /\ act'.live = act.live
      /\ act'.post = post /\ act'.posting = posting /\ act'.calm = calm
      /\ act'.blurred = act.blurred
  BY <1>1, <1>2 DEF ActInv, ActRecords
<1>5. 0 \in 0..MaxLog
  BY ActConstantsOK DEF ActConstants
<1>6. /\ gets' \in Gets /\ gets'[s].state = "sent"
      /\ \A t \in Slots : t # s => gets'[t] = gets[t]
  BY <1>1, <1>5 DEF ActInv, Gets
<1>7. A!KeepsTrying' /\ A!ListSettles'
  BY <1>4, <1>6 DEF ActInv, A!KeepsTrying, A!ListSettles, A!QuietAct
<1>8. CalmInv'
  BY <1>3, <1>4, <1>6 DEF ActInv, CalmInv, A!NothingOnItsWay
<1>9. A!StreamExact'
  BY <1>4 DEF ActInv, A!StreamExact, A!Unseen, A!From, A!Capped, A!Reversed, A!Newest
<1> QED BY <1>4, <1>6, <1>7, <1>8, <1>9 DEF ActInv

LEMMA ActRefreshKeeps == ASSUME ActInv, A!Refresh \/ A!PostAnswered PROVE ActInv'
<1>1. CASE A!Refresh
  <2>1. PICK s \in Slots : A!load(act, s)
    BY <1>1 DEF A!Refresh
  <2>2. act = [act EXCEPT !.post = act.post, !.posting = act.posting]
        /\ act.posting \in BOOLEAN /\ act.post \in {"none", "sent", "filed", "lost"}
        /\ (act.posting <=> act.post # "none")
    BY DEF ActInv, ActRecords, A!KeepsTrying
  <2>3. A!load([act EXCEPT !.post = act.post, !.posting = act.posting], s)
    BY <2>1, <2>2
  <2> QED BY <1>1, <2>2, <2>3, ActLoadKeeps DEF A!Refresh
<1>2. CASE A!PostAnswered
  BY <1>2, ActLoadKeeps DEF A!PostAnswered
<1> QED BY <1>1, <1>2

LEMMA ReadsLogKeeps ==
    ASSUME ActInv, NEW s \in Slots, A!ServerReadsLog(s) PROVE ActInv'
<1>1. PICK answer \in {[state |-> "read", log |-> stream.log], [state |-> "empty", log |-> 0]} :
        gets' = [gets EXCEPT ![s] = answer]
  BY DEF A!ServerReadsLog
<1>2. gets[s].state = "sent" /\ UNCHANGED <<act, stream>>
  BY DEF A!ServerReadsLog
<1>3. /\ answer \in [state : {"free", "sent", "read", "empty"}, log : 0..MaxLog]
      /\ answer.state # "free" /\ (answer.state = "read" => answer.log = stream.log)
  BY ActConstantsOK DEF ActInv, Streams, ActConstants
<1>4. /\ gets' \in Gets /\ gets'[s] = answer
      /\ \A t \in Slots : t # s => gets'[t] = gets[t]
  BY <1>1, <1>3 DEF ActInv, Gets
<1>5. A!KeepsTrying' /\ A!ListSettles' /\ CalmInv'
  BY <1>2, <1>3, <1>4
  DEF ActInv, A!KeepsTrying, A!ListSettles, A!QuietAct, CalmInv, A!NothingOnItsWay
<1>6. A!StreamExact'
  BY <1>2 DEF ActInv, A!StreamExact, A!Unseen, A!From, A!Capped, A!Reversed, A!Newest
<1> QED BY <1>2, <1>4, <1>5, <1>6 DEF ActInv

LEMMA LoadAnsweredKeeps ==
    ASSUME ActInv, NEW s \in Slots, A!LoadAnswered(s) PROVE ActInv'
<1> DEFINE dull == ~act.calm \/ gets[s].state = "empty"
<1>1. /\ gets[s].state \in {"read", "empty"} /\ UNCHANGED stream
      /\ gets' = [gets EXCEPT ![s] = A!Free]
      /\ act' = [act EXCEPT !.entries = A!Newest(gets[s].log), !.loading = FALSE,
                            !.blurred = dull]
  BY DEF A!LoadAnswered
<1>c. dull \in BOOLEAN /\ (~dull => act.calm /\ gets[s].state = "read")
  BY <1>1
<1> HIDE DEF dull
<1>2. gets[s].log \in 0..MaxLog /\ 0 \in 0..MaxLog /\ Cap \in Nat
  BY ActConstantsOK DEF ActInv, Gets, ActConstants
<1>3. /\ A!Newest(gets[s].log) \in Seq(A!Entries) /\ Len(A!Newest(gets[s].log)) <= Cap
      /\ Len(A!Newest(gets[s].log)) = Least(gets[s].log)
  BY <1>2, NewestIs DEF Least
<1>4. /\ act' \in ActRecords /\ act'.mounted = act.mounted /\ act'.es = act.es
      /\ act'.timer = act.timer /\ act'.entries = A!Newest(gets[s].log)
      /\ act'.live = act.live /\ act'.post = act.post /\ act'.posting = act.posting
      /\ act'.calm = act.calm /\ act'.blurred = dull /\ ~act'.loading
  BY <1>1, <1>3, <1>c DEF ActInv, ActRecords
<1>5. /\ gets' \in Gets /\ gets'[s].state = "free"
      /\ \A t \in Slots : t # s => gets'[t] = gets[t]
  BY <1>1, <1>2 DEF ActInv, Gets, A!Free
<1>6. A!KeepsTrying' /\ A!ListSettles'
  BY <1>1, <1>4, <1>5 DEF ActInv, A!KeepsTrying, A!ListSettles
<1>b. CalmInv'
  BY <1>1, <1>4, <1>5, <1>c DEF ActInv, CalmInv, A!NothingOnItsWay
<1>7. A!StreamExact'
  <2>a. ~act'.blurred => act.calm /\ gets[s].state = "read"
    BY <1>4, <1>c
  <2>b. act'.entries = A!Newest(gets[s].log) /\ stream' = stream
    BY <1>1, <1>4
  <2> SUFFICES ASSUME act.calm, gets[s].state = "read"
      PROVE  A!Capped(A!Reversed(stream.queue \o A!Unseen) \o A!Newest(gets[s].log))
               = A!Newest(stream.log)
    BY <2>a, <2>b DEF A!StreamExact, A!Unseen, A!From, A!Capped, A!Reversed, A!Newest
  <2>1. stream.queue = <<>> /\ A!Unseen = <<>> /\ gets[s].log = stream.log
    BY <1>1, UnseenIs DEF ActInv, CalmInv, A!NothingOnItsWay
  <2>2. stream.queue \o A!Unseen = <<>>
    BY <2>1
  <2>3. <<>> \in Seq(A!Entries) /\ Len(<<>>) = 0
    OBVIOUS
  <2>4. A!Reversed(<<>>) \in Seq(A!Entries) /\ Len(A!Reversed(<<>>)) = 0
    BY <2>3, ReversedIs
  <2>5. A!Reversed(<<>>) = <<>>
    BY <2>4, EmptySeq
  <2> DEFINE new == A!Newest(gets[s].log)
  <2>6. <<>> \o new = new
    BY <1>3, ConcatEmptySeq
  <2>7. /\ A!Capped(new) \in Seq(A!Entries) /\ Len(A!Capped(new)) = Least(Len(new))
        /\ \A i \in 1 .. Least(Len(new)) : A!Capped(new)[i] = new[i]
    BY <1>3, CappedIs
  <2>8. Least(Len(new)) = Len(new)
    BY <1>2, <1>3 DEF Least
  <2> HIDE DEF new
  <2>9. A!Capped(new) = new
    BY <1>3, <2>7, <2>8, SeqEqual DEF new
  <2> QED BY <2>1, <2>2, <2>5, <2>6, <2>9 DEF new
<1> QED BY <1>1, <1>3, <1>4, <1>5, <1>6, <1>b, <1>7 DEF ActInv

LEMMA LoadFailsKeeps ==
    ASSUME ActInv, NEW s \in Slots, A!LoadFails(s) PROVE ActInv'
<1>1. /\ UNCHANGED stream /\ gets' = [gets EXCEPT ![s] = A!Free]
      /\ act' = [act EXCEPT !.loading = FALSE]
  BY DEF A!LoadFails
<1>2. 0 \in 0..MaxLog
  BY ActConstantsOK DEF ActConstants
<1>4. /\ act' \in ActRecords /\ act'.mounted = act.mounted /\ act'.es = act.es
      /\ act'.timer = act.timer /\ act'.entries = act.entries
      /\ act'.live = act.live /\ act'.post = act.post /\ act'.posting = act.posting
      /\ act'.calm = act.calm /\ act'.blurred = act.blurred /\ ~act'.loading
  BY <1>1 DEF ActInv, ActRecords
<1>5. /\ gets' \in Gets /\ gets'[s].state = "free"
      /\ \A t \in Slots : t # s => gets'[t] = gets[t]
  BY <1>1, <1>2 DEF ActInv, Gets, A!Free
<1>6. A!KeepsTrying' /\ A!ListSettles' /\ CalmInv'
  BY <1>1, <1>4, <1>5 DEF ActInv, A!KeepsTrying, A!ListSettles, CalmInv, A!NothingOnItsWay
<1>7. A!StreamExact'
  BY <1>1, <1>4 DEF ActInv, A!StreamExact, A!Unseen, A!From, A!Capped, A!Reversed, A!Newest
<1> QED BY <1>1, <1>4, <1>5, <1>6, <1>7 DEF ActInv

(* A step of the log: what is written, broadcast or filed. *)
LogStep ==
    /\ act' \in ActRecords /\ act'.mounted = act.mounted /\ act'.es = act.es
    /\ act'.timer = act.timer /\ act'.entries = act.entries /\ act'.live = act.live
    /\ (act'.post = "none") <=> (act.post = "none")
    /\ act'.posting = act.posting /\ act'.loading = act.loading /\ act'.calm = FALSE
    /\ stream' \in Streams /\ stream'.registered = stream.registered
    /\ UNCHANGED gets

LEMMA LogStepKeeps ==
    ASSUME ActInv, LogStep, stream'.offset <= stream'.log,
           ~act'.blurred =>
              /\ stream.registered /\ (stream'.astray => stream'.offset = stream'.log)
              /\ A!Capped(A!Reversed(stream'.queue \o A!Unseen') \o act.entries)
                   = A!Newest(stream'.log)
    PROVE  ActInv'
<1>1. A!KeepsTrying' /\ A!ListSettles' /\ CalmInv'
  BY DEF LogStep, ActInv, A!KeepsTrying, A!ListSettles, A!QuietAct, CalmInv
<1>2. A!StreamExact' <=>
        (~act'.blurred =>
           A!Capped(A!Reversed(stream'.queue \o A!Unseen') \o act'.entries)
             = A!Newest(stream'.log))
  BY DEF A!StreamExact, A!Capped, A!Reversed, A!Newest
<1>3. A!StreamExact'
  BY <1>2 DEF LogStep
<1> QED BY <1>1, <1>3 DEF ActInv, LogStep

LEMMA ConcatAppend ==
    ASSUME NEW S, NEW v \in Seq(S), NEW w \in Seq(S), NEW elt \in S
    PROVE  v \o Append(w, elt) = Append(v \o w, elt)
<1>1. <<elt>> \in Seq(S) /\ v \o w \in Seq(S)
  BY ConcatProperties
<1>2. Append(w, elt) = w \o <<elt>> /\ Append(v \o w, elt) = (v \o w) \o <<elt>>
  BY <1>1, AppendIsConcat
<1>3. (v \o w) \o <<elt>> = v \o (w \o <<elt>>)
  BY <1>1, ConcatAssociative
<1> QED BY <1>2, <1>3

LEMMA EntryKeeps == ASSUME ActInv, A!EntryWritten PROVE ActInv'
<1> DEFINE n == stream.log + 1
           dull == act.blurred \/ ~stream.registered \/ stream.astray
<1>1. /\ stream.log < MaxLog /\ UNCHANGED gets /\ stream' = [stream EXCEPT !.log = n]
      /\ act' = [act EXCEPT !.calm = FALSE, !.blurred = dull]
  BY DEF A!EntryWritten
<1>2. dull \in BOOLEAN /\ (~dull => ~act.blurred /\ stream.registered /\ ~stream.astray)
  BY DEF ActInv, ActRecords, Streams
<1>3. /\ stream.log \in 0 .. MaxLog - 1 /\ n \in 0..MaxLog /\ n \in A!Entries
      /\ stream.queue \in Seq(A!Entries) /\ act.entries \in Seq(A!Entries)
      /\ stream.offset \in Nat /\ stream.offset <= stream.log
  BY <1>1, ActConstantsOK DEF ActInv, CalmInv, ActRecords, Streams, A!Entries, ActConstants
<1>4. /\ stream' \in Streams /\ stream'.queue = stream.queue /\ stream'.log = n
      /\ stream'.offset = stream.offset /\ stream'.astray = stream.astray
      /\ stream'.registered = stream.registered
  BY <1>1, <1>3 DEF ActInv, Streams
<1>5. A!Unseen' = Append(A!Unseen, n) /\ A!Unseen \in Seq(A!Entries)
  BY <1>3, <1>4, UnseenGrows, UnseenIs DEF ActInv
<1>6. stream.queue \o A!Unseen' = Append(stream.queue \o A!Unseen, n)
  <2>1. PICK v \in Seq(A!Entries), w \in Seq(A!Entries), elt \in A!Entries :
          v = stream.queue /\ w = A!Unseen /\ elt = n
    BY <1>3, <1>5
  <2>2. v \o Append(w, elt) = Append(v \o w, elt)
    BY ConcatAppend
  <2> QED BY <1>5, <2>1, <2>2
<1>7. ~dull => A!Capped(A!Reversed(stream.queue \o A!Unseen') \o act.entries) = A!Newest(n)
  <2> SUFFICES ASSUME ~dull
      PROVE  A!Capped(A!Reversed(Append(stream.queue \o A!Unseen, n)) \o act.entries)
               = A!Newest(n)
    BY <1>6
  <2>1. A!Capped(A!Reversed(stream.queue \o A!Unseen) \o act.entries) = A!Newest(stream.log)
    BY <1>2 DEF ActInv, A!StreamExact
  <2>2. stream.queue \o A!Unseen \in Seq(A!Entries)
    BY <1>3, <1>5, ConcatProperties
  <2> QED BY <1>3, <2>1, <2>2, Pushed
<1>8. stream'.offset <= stream'.log
  BY <1>3, <1>4
<1> HIDE DEF n, dull
<1>9. LogStep /\ act'.blurred = dull
  BY <1>1, <1>2, <1>4 DEF ActInv, ActRecords, LogStep
<1> QED BY <1>2, <1>4, <1>7, <1>8, <1>9, LogStepKeeps

LEMMA BroadcastKeeps == ASSUME ActInv, A!broadcastNewEntries PROVE ActInv'
<1> DEFINE dull == act.blurred \/ ~stream.registered
<1>1. PICK n \in IF stream.astray THEN stream.offset..stream.log ELSE {stream.offset} :
        stream' = [stream EXCEPT !.offset = stream.log, !.astray = FALSE,
                                 !.queue = A!Send(stream, A!From(n))]
  BY DEF A!broadcastNewEntries
<1>2. /\ stream.offset < stream.log /\ UNCHANGED gets
      /\ act' = [act EXCEPT !.calm = FALSE, !.blurred = dull]
  BY DEF A!broadcastNewEntries
<1>3. dull \in BOOLEAN /\ (~dull => ~act.blurred /\ stream.registered)
  BY DEF ActInv, ActRecords
<1>4. /\ stream.queue \in Seq(A!Entries) /\ stream.log \in 0..MaxLog
      /\ stream.offset \in 0..stream.log /\ n \in 0..stream.log
  BY <1>2 DEF ActInv, Streams
<1> DEFINE q == A!Send(stream, A!From(n))
<1>5. q \in Seq(A!Entries) /\ A!From(n) \in Seq(A!Entries)
  BY <1>4, FromIs, ConcatProperties DEF A!Send, ActInv
<1>6. ~dull => ~stream.astray
  BY <1>2, <1>3, <1>4 DEF ActInv, CalmInv
<1>7. ~dull => q = stream.queue \o A!Unseen
  BY <1>1, <1>3, <1>6 DEF A!Send, A!Unseen
<1>8. ~dull => A!Capped(A!Reversed(q \o <<>>) \o act.entries) = A!Newest(stream.log)
  <2>1. q \o <<>> = q
    BY <1>5, ConcatEmptySeq
  <2> QED BY <1>3, <1>7, <2>1 DEF ActInv, A!StreamExact
<1> HIDE DEF q, dull
<1>9. /\ stream' \in Streams /\ stream'.queue = q /\ stream'.log = stream.log
      /\ stream'.offset = stream.log /\ stream'.registered = stream.registered
  BY <1>1, <1>4, <1>5 DEF ActInv, Streams, q
<1>10. A!Unseen' = <<>> /\ stream'.offset <= stream'.log
  BY <1>4, <1>9, UnseenIsThen
<1>11. LogStep /\ act'.blurred = dull
  BY <1>2, <1>3, <1>9 DEF ActInv, ActRecords, LogStep
<1> QED BY <1>3, <1>8, <1>9, <1>10, <1>11, LogStepKeeps

(* An entry of the server's own, which the panel's post may be. *)
LEMMA OwnEntryKeeps ==
    ASSUME ActInv, NEW wide \in BOOLEAN, NEW post \in {"none", "sent", "filed", "lost"},
           (post = "none") <=> (act.post = "none"),
           A!appendActivity(wide, [act EXCEPT !.post = post])
    PROVE  ActInv'
<1> DEFINE n == stream.log + 1
           q == A!Send(stream, <<n>>)
           lost == \/ act.blurred \/ ~stream.registered \/ stream.offset < stream.log
           off == IF stream.astray /\ stream.offset < stream.log
                  THEN stream.offset ELSE stream.offset + 1
           aside == stream.astray \/ wide \/ stream.offset < stream.log
<1>1. /\ stream.log < MaxLog /\ UNCHANGED gets
      /\ stream' = [stream EXCEPT !.log = n, !.queue = q, !.offset = off, !.astray = aside]
      /\ act' = [[act EXCEPT !.post = post] EXCEPT !.calm = FALSE, !.blurred = lost]
  BY DEF A!appendActivity
<1>2. /\ stream.log \in 0 .. MaxLog - 1 /\ n \in 0..MaxLog /\ n \in A!Entries
      /\ stream.offset \in 0..stream.log /\ stream.queue \in Seq(A!Entries)
      /\ act.entries \in Seq(A!Entries) /\ <<n>> \in Seq(A!Entries)
  BY <1>1, ActConstantsOK
  DEF ActInv, CalmInv, ActRecords, Streams, A!Entries, ActConstants
<1>3. /\ lost \in BOOLEAN /\ aside \in BOOLEAN
      /\ ~lost => ~act.blurred /\ stream.registered /\ stream.offset = stream.log
  BY <1>2 DEF ActInv, ActRecords, Streams
<1>4. off \in 0..n /\ (~lost => off = n) /\ off \in 0..MaxLog /\ n \in Nat
  BY <1>2, <1>3, ActConstantsOK DEF ActConstants
<1>5. q \in Seq(A!Entries)
  BY <1>2, ConcatProperties DEF A!Send
<1>6. ~lost => A!Capped(A!Reversed(q \o <<>>) \o act.entries) = A!Newest(n)
  <2> SUFFICES ASSUME ~lost
      PROVE  A!Capped(A!Reversed(q \o <<>>) \o act.entries) = A!Newest(n)
    OBVIOUS
  <2>1. q = stream.queue \o <<n>> /\ stream.queue \o <<>> = stream.queue
    BY <1>2, <1>3, ConcatEmptySeq DEF A!Send
  <2>2. q \o <<>> = Append(stream.queue, n)
    <3>1. q \o <<>> = q
      BY <1>5, ConcatEmptySeq
    <3>2. Append(stream.queue, n) = stream.queue \o <<n>>
      BY <1>2, AppendIsConcat
    <3> QED BY <2>1, <3>1, <3>2
  <2>3. A!Capped(A!Reversed(stream.queue) \o act.entries) = A!Newest(stream.log)
    <3>1. A!Capped(A!Reversed(stream.queue \o A!Unseen) \o act.entries)
            = A!Newest(stream.log)
      BY <1>3 DEF ActInv, A!StreamExact
    <3>2. A!Unseen = <<>>
      BY <1>3, UnseenIs DEF ActInv, CalmInv
    <3> QED BY <2>1, <3>1, <3>2
  <2>4. A!Capped(A!Reversed(Append(stream.queue, stream.log + 1)) \o act.entries)
          = A!Newest(stream.log + 1)
    BY <1>2, <2>3, Pushed
  <2> QED BY <2>2, <2>4
<1> HIDE DEF n, q, lost, off, aside
<1>7. /\ stream' \in Streams /\ stream'.queue = q /\ stream'.log = n
      /\ stream'.offset = off /\ stream'.registered = stream.registered
  BY <1>1, <1>2, <1>3, <1>4, <1>5 DEF ActInv, Streams
<1>8. stream'.offset <= stream'.log /\ (off = n => A!Unseen' = <<>>)
  BY <1>2, <1>4, <1>7, UnseenIsThen
<1>9. LogStep /\ act'.blurred = lost
  BY <1>1, <1>3, <1>7 DEF ActInv, ActRecords, LogStep
<1> QED BY <1>3, <1>4, <1>6, <1>7, <1>8, <1>9, LogStepKeeps

LEMMA FilesKeeps == ASSUME ActInv, A!ServerFiles \/ A!ServerLogs PROVE ActInv'
<1>1. CASE A!ServerFiles
  <2>1. act.post = "sent" /\ \E wide \in BOOLEAN :
           A!appendActivity(wide, [act EXCEPT !.post = "filed"])
    BY <1>1 DEF A!ServerFiles
  <2> QED BY <2>1, OwnEntryKeeps
<1>2. CASE A!ServerLogs
  <2>1. act = [act EXCEPT !.post = act.post] /\ act.post \in {"none", "sent", "filed", "lost"}
    BY DEF ActInv, ActRecords
  <2>2. A!appendActivity(TRUE, [act EXCEPT !.post = act.post])
    BY <1>2, <2>1 DEF A!ServerLogs
  <2> QED BY <2>1, <2>2, OwnEntryKeeps
<1> QED BY <1>1, <1>2

LEMMA DocChangeKeeps == ASSUME ActInv, A!handleDocChange PROVE ActInv'
<1> DEFINE n == stream.log + 1
           q == A!Send(stream, <<n>>)
<1>1. /\ stream.log < MaxLog /\ UNCHANGED gets
      /\ stream' = [stream EXCEPT !.log = n, !.queue = q]
      /\ act' = [act EXCEPT !.calm = FALSE, !.blurred = TRUE]
  BY DEF A!handleDocChange
<1>2. /\ stream.log \in Nat /\ n \in 0..MaxLog /\ stream.offset <= stream.log
      /\ stream.offset \in Nat /\ <<n>> \in Seq(A!Entries) /\ stream.queue \in Seq(A!Entries)
  BY <1>1, ActConstantsOK DEF ActInv, CalmInv, Streams, A!Entries, ActConstants
<1>3. q \in Seq(A!Entries)
  BY <1>2, ConcatProperties DEF A!Send
<1>4. stream.offset <= n
  BY <1>2
<1> HIDE DEF n, q
<1>5. /\ stream' \in Streams /\ stream'.registered = stream.registered
      /\ stream'.offset <= stream'.log
  BY <1>1, <1>2, <1>3, <1>4 DEF ActInv, Streams
<1>6. LogStep /\ act'.blurred
  BY <1>1, <1>5 DEF ActInv, ActRecords, LogStep
<1> QED BY <1>5, <1>6, LogStepKeeps

LEMMA RestartKeeps == ASSUME ActInv, A!ServerRestarts PROVE ActInv'
<1>1. PICK astray \in BOOLEAN :
        stream' = [stream EXCEPT !.offset = stream.log, !.astray = astray]
  BY DEF A!ServerRestarts
<1>2. ~stream.registered /\ UNCHANGED <<act, gets>>
  BY DEF A!ServerRestarts
<1>3. /\ stream' \in Streams /\ stream'.registered = stream.registered
      /\ stream'.offset = stream.log /\ stream'.log = stream.log
  BY <1>1 DEF ActInv, Streams
<1>n. stream.log <= stream.log
  BY DEF ActInv, Streams
<1>4. act.blurred /\ ~act.calm
  BY <1>2 DEF ActInv, CalmInv, ActRecords, A!NothingOnItsWay
<1>5. A!KeepsTrying' /\ A!ListSettles' /\ CalmInv' /\ A!StreamExact'
  BY <1>2, <1>3, <1>4, <1>n
  DEF ActInv, A!KeepsTrying, A!ListSettles, A!QuietAct, CalmInv, A!StreamExact
<1> QED BY <1>2, <1>3, <1>5 DEF ActInv

LEMMA MessageKeeps == ASSUME ActInv, A!onmessage PROVE ActInv'
<1> DEFINE e == A!Capped(<<Head(stream.queue)>> \o act.entries)
           q == Tail(stream.queue)
<1>1. /\ stream.queue # <<>> /\ UNCHANGED gets
      /\ act' = [act EXCEPT !.entries = e] /\ stream' = [stream EXCEPT !.queue = q]
  BY DEF A!onmessage
<1>2. /\ A!Unseen \in Seq(A!Entries) /\ stream.queue \in Seq(A!Entries)
      /\ act.entries \in Seq(A!Entries) /\ Cap \in Nat
  BY ActConstantsOK, UnseenIs DEF ActInv, CalmInv, ActRecords, Streams, ActConstants
<1>3. q \in Seq(A!Entries) /\ <<Head(stream.queue)>> \in Seq(A!Entries)
  BY <1>1, <1>2, HeadTailProperties
<1>4. <<Head(stream.queue)>> \o act.entries \in Seq(A!Entries)
  BY <1>2, <1>3, ConcatProperties
<1>5. e \in Seq(A!Entries) /\ Len(e) <= Cap
  <2> DEFINE x == <<Head(stream.queue)>> \o act.entries
  <2>1. x \in Seq(A!Entries)
    BY <1>4
  <2> HIDE DEF x
  <2>2. A!Capped(x) \in Seq(A!Entries) /\ Len(A!Capped(x)) = Least(Len(x)) /\ Len(x) \in Nat
    BY <2>1, CappedIs, LenProperties
  <2>3. Least(Len(x)) <= Cap
    BY <1>2, <2>2 DEF Least
  <2>4. e = A!Capped(x)
    BY DEF x
  <2> QED BY <2>2, <2>3, <2>4
<1>6. A!Capped(A!Reversed(q \o A!Unseen) \o e)
        = A!Capped(A!Reversed(stream.queue \o A!Unseen) \o act.entries)
  BY <1>1, <1>2, Popped
<1> HIDE DEF e, q
<1>7. /\ act' \in ActRecords /\ act'.mounted = act.mounted /\ act'.es = act.es
      /\ act'.timer = act.timer /\ act'.entries = e
      /\ act'.live = act.live /\ act'.post = act.post /\ act'.posting = act.posting
      /\ act'.calm = act.calm /\ act'.blurred = act.blurred /\ act'.loading = act.loading
  BY <1>1, <1>5 DEF ActInv, ActRecords
<1>8. /\ stream' \in Streams /\ stream'.registered = stream.registered
      /\ stream'.queue = q /\ stream'.offset = stream.offset /\ stream'.log = stream.log
      /\ stream'.astray = stream.astray
  BY <1>1, <1>3 DEF ActInv, Streams
<1>9. A!KeepsTrying' /\ A!ListSettles' /\ CalmInv'
  BY <1>1, <1>7, <1>8
  DEF ActInv, A!KeepsTrying, A!ListSettles, A!QuietAct, CalmInv, A!NothingOnItsWay
<1>10. A!StreamExact'
  <2>1. A!Unseen' = A!Unseen
    BY <1>8 DEF A!Unseen, A!From
  <2> QED BY <1>6, <1>7, <1>8, <2>1
      DEF ActInv, A!StreamExact, A!Capped, A!Reversed, A!Newest
<1> QED BY <1>1, <1>5, <1>7, <1>8, <1>9, <1>10 DEF ActInv

(* The connection, and the composer's button. *)
LEMMA ErrorKeeps == ASSUME ActInv, A!onerror PROVE ActInv'
<1>1. /\ act.es # "none" /\ act.downs < MaxDowns /\ UNCHANGED gets
      /\ act' = [act EXCEPT !.es = "none", !.live = FALSE, !.timer = TRUE,
                            !.downs = act.downs + 1, !.calm = FALSE, !.blurred = TRUE]
      /\ stream' = [stream EXCEPT !.registered = FALSE, !.queue = <<>>]
  BY DEF A!onerror
<1>2. act.downs + 1 \in 0..MaxDowns
  BY <1>1, ActConstantsOK DEF ActInv, ActRecords, ActConstants
<1>3. /\ act' \in ActRecords /\ act'.es = "none" /\ act'.timer = TRUE /\ act'.live = FALSE
      /\ act'.entries = act.entries /\ act'.post = act.post /\ act'.posting = act.posting
      /\ act'.calm = FALSE /\ act'.blurred = TRUE /\ act'.loading = act.loading
  BY <1>1, <1>2 DEF ActInv, ActRecords
<1>e. <<>> \in Seq(A!Entries)
  OBVIOUS
<1>4. /\ stream' \in Streams /\ stream'.offset = stream.offset /\ stream'.log = stream.log
  BY <1>1, <1>e DEF ActInv, Streams
<1>5. A!KeepsTrying' /\ A!ListSettles' /\ CalmInv' /\ A!StreamExact'
  BY <1>1, <1>3, <1>4
  DEF ActInv, A!KeepsTrying, A!ListSettles, A!QuietAct, CalmInv, A!StreamExact
<1> QED BY <1>1, <1>3, <1>4, <1>5 DEF ActInv

LEMMA ConnectKeeps == ASSUME ActInv, A!ConnectProgress PROVE ActInv'
<1>1. CASE A!ServerAccepts
  <2>1. /\ act.es = "connecting" /\ ~stream.registered /\ UNCHANGED <<act, gets>>
        /\ stream' = [stream EXCEPT !.registered = TRUE, !.queue = <<>>]
    BY <1>1 DEF A!ServerAccepts
  <2>e. <<>> \in Seq(A!Entries)
    OBVIOUS
  <2>2. /\ stream' \in Streams /\ stream'.registered = TRUE
        /\ stream'.offset = stream.offset /\ stream'.log = stream.log
    BY <2>1, <2>e DEF ActInv, Streams
  <2>3. A!KeepsTrying' /\ A!ListSettles' /\ CalmInv' /\ A!StreamExact'
    BY <2>1, <2>2
    DEF ActInv, A!KeepsTrying, A!ListSettles, A!QuietAct, CalmInv, A!NothingOnItsWay, A!StreamExact
  <2> QED BY <2>1, <2>2, <2>3 DEF ActInv
<1>2. CASE A!onopen
  <2>1. /\ act.es = "connecting" /\ stream.registered /\ UNCHANGED <<gets, stream>>
        /\ act' = [act EXCEPT !.es = "open", !.live = TRUE]
    BY <1>2 DEF A!onopen
  <2>2. /\ act' \in ActRecords /\ act'.es = "open" /\ act'.timer = act.timer /\ act'.live = TRUE
        /\ act'.entries = act.entries /\ act'.post = act.post /\ act'.posting = act.posting
        /\ act'.calm = act.calm /\ act'.blurred = act.blurred /\ act'.loading = act.loading
        /\ act'.mounted = act.mounted
    BY <2>1 DEF ActInv, ActRecords
  <2>a. A!KeepsTrying' /\ A!ListSettles'
    BY <2>1, <2>2 DEF ActInv, CalmInv, A!KeepsTrying, A!ListSettles, A!QuietAct
  <2>b. gets' = gets /\ stream' = stream /\ act.timer = FALSE
    BY <2>1 DEF ActInv, ActRecords, CalmInv
  <2>c. A!NothingOnItsWay' <=> A!NothingOnItsWay
    BY <2>b DEF A!NothingOnItsWay
  <2>d. act'.timer = FALSE /\ act'.calm = act.calm /\ act'.blurred = act.blurred
    BY <2>b, <2>2
  <2>e. CalmInv'
    BY <2>b, <2>c, <2>d DEF ActInv, CalmInv
  <2>3. A!KeepsTrying' /\ A!ListSettles' /\ CalmInv'
    BY <2>a, <2>e
  <2>f. act'.entries = act.entries /\ act'.loading = act.loading
        /\ act'.mounted = act.mounted
    BY <2>2
  <2>4. A!StreamExact'
    BY <2>b, <2>d, <2>f
    DEF ActInv, A!StreamExact, A!Unseen, A!From, A!Capped, A!Reversed, A!Newest
  <2> QED BY <2>1, <2>2, <2>3, <2>4 DEF ActInv
<1>3. CASE A!Reconnect
  <2>1. /\ act.timer /\ UNCHANGED <<gets, stream>>
        /\ act' = [act EXCEPT !.timer = FALSE, !.es = "connecting"]
    BY <1>3 DEF A!Reconnect
  <2>2. /\ act' \in ActRecords /\ act'.es = "connecting" /\ act'.timer = FALSE
        /\ act'.live = act.live
        /\ act'.entries = act.entries /\ act'.post = act.post /\ act'.posting = act.posting
        /\ act'.calm = act.calm /\ act'.blurred = act.blurred /\ act'.loading = act.loading
        /\ act'.mounted = act.mounted
    BY <2>1 DEF ActInv, ActRecords
  <2>3. A!KeepsTrying'
    BY <2>1, <2>2 DEF ActInv, CalmInv, A!KeepsTrying
  <2>4. A!ListSettles' /\ CalmInv'
    BY <2>1, <2>2 DEF ActInv, A!ListSettles, A!QuietAct, CalmInv, A!NothingOnItsWay
  <2>5. A!StreamExact'
    BY <2>1, <2>2 DEF ActInv, A!StreamExact, A!Unseen, A!From, A!Capped, A!Reversed, A!Newest
  <2> QED BY <2>1, <2>2, <2>3, <2>4, <2>5 DEF ActInv
<1> QED BY <1>1, <1>2, <1>3 DEF A!ConnectProgress

LEMMA ComposerKeeps == ASSUME ActInv, A!postEntry \/ A!PostFails PROVE ActInv'
<1>1. PICK post \in {"sent", "lost"}, posting \in BOOLEAN :
        /\ act' = [act EXCEPT !.post = post, !.posting = posting] /\ posting
        /\ UNCHANGED <<gets, stream>>
  <2>1. CASE A!postEntry
    BY <2>1 DEF A!postEntry
  <2>2. CASE A!PostFails
    <3>1. act' = [act EXCEPT !.post = "lost", !.posting = act.posting]
          /\ act.posting \in BOOLEAN /\ act.posting
      BY <2>2 DEF A!PostFails, ActInv, ActRecords, A!KeepsTrying
    <3> QED BY <2>2, <3>1 DEF A!PostFails
  <2> QED BY <2>1, <2>2
<1>2. /\ act' \in ActRecords /\ act'.es = act.es /\ act'.timer = act.timer /\ act'.live = act.live
      /\ act'.entries = act.entries /\ act'.post = post /\ act'.posting = posting
      /\ act'.calm = act.calm /\ act'.blurred = act.blurred /\ act'.loading = act.loading
      /\ act'.mounted = act.mounted
  BY <1>1 DEF ActInv, ActRecords
<1>3. A!KeepsTrying' /\ A!ListSettles' /\ CalmInv'
  BY <1>1, <1>2
  DEF ActInv, A!KeepsTrying, A!ListSettles, A!QuietAct, CalmInv, A!NothingOnItsWay
<1>4. A!StreamExact'
  BY <1>1, <1>2 DEF ActInv, A!StreamExact, A!Unseen, A!From, A!Capped, A!Reversed, A!Newest
<1> QED BY <1>1, <1>2, <1>3, <1>4 DEF ActInv

(* A mount, and its end. *)
LEMMA ActPanel ==
    ASSUME NEW on \in BOOLEAN, NEW es \in {"none", "connecting"}
    PROVE  /\ A!Panel(on, es) \in ActRecords /\ A!Panel(on, es).mounted = on
           /\ A!Panel(on, es).es = es /\ A!Panel(on, es).timer = FALSE
           /\ A!Panel(on, es).entries = <<>> /\ A!Panel(on, es).loading = on
           /\ A!Panel(on, es).live = FALSE /\ A!Panel(on, es).post = "none"
           /\ A!Panel(on, es).posting = FALSE /\ A!Panel(on, es).calm = FALSE
           /\ A!Panel(on, es).blurred = TRUE
<1>1. 0 \in 0..MaxDowns
  BY ActConstantsOK DEF ActConstants
<1> QED BY <1>1 DEF A!Panel, ActRecords

LEMMA StreamFresh ==
    /\ \A log \in 0..MaxLog : \A offset \in 0..log, astray \in BOOLEAN :
          /\ A!StreamAt(log, offset, astray) \in Streams
          /\ A!StreamAt(log, offset, astray).offset <= A!StreamAt(log, offset, astray).log
    /\ A!StreamOff \in Streams /\ A!StreamOff.offset <= A!StreamOff.log
    /\ A!Free \in [state : {"free", "sent", "read", "empty"}, log : 0..MaxLog]
    /\ [state |-> "sent", log |-> 0] \in [state : {"free", "sent", "read", "empty"}, log : 0..MaxLog]
    /\ A!Free.state = "free"
<1>1. 0 \in 0..MaxLog /\ MaxLog \in Nat /\ <<>> \in Seq(A!Entries)
  BY ActConstantsOK DEF ActConstants
<1>2. ASSUME NEW log \in 0..MaxLog, NEW offset \in 0..log, NEW astray \in BOOLEAN
      PROVE  /\ A!StreamAt(log, offset, astray) \in Streams
             /\ A!StreamAt(log, offset, astray).offset <= A!StreamAt(log, offset, astray).log
  <2>1. offset \in 0..MaxLog /\ offset <= log
    BY <1>1
  <2> QED BY <1>1, <2>1 DEF A!StreamAt, Streams
<1>3. A!StreamOff \in Streams /\ A!StreamOff.offset <= A!StreamOff.log
  BY <1>1 DEF A!StreamOff, A!StreamAt, Streams
<1> QED BY <1>1, <1>2, <1>3 DEF A!Free

LEMMA ActMountKeeps == ASSUME A!ActMount PROVE ActInv'
<1>1. act' = A!Panel(TRUE, "connecting") /\ stream' \in Streams /\ stream'.offset <= stream'.log
  BY StreamFresh DEF A!ActMount, A!ActStart
<1>2. PICK first \in Slots, second \in Slots :
        gets' = [s \in Slots |-> IF s \in {first, second}
                                 THEN [state |-> "sent", log |-> 0] ELSE A!Free]
  BY DEF A!ActMount
<1>3. gets' \in Gets /\ gets'[first].state = "sent" /\ stream' \in Streams
  BY <1>1, <1>2, StreamFresh DEF Gets
<1>4. /\ act' \in ActRecords /\ act'.mounted = TRUE /\ act'.es = "connecting"
      /\ act'.timer = FALSE /\ act'.entries = <<>> /\ act'.live = FALSE
      /\ act'.post = "none" /\ act'.posting = FALSE /\ act'.calm = FALSE /\ act'.blurred = TRUE
  BY <1>1, ActPanel
<1>5. Len(act'.entries) <= Cap
  BY <1>4, ActConstantsOK DEF ActConstants
<1>6. A!KeepsTrying' /\ A!ListSettles' /\ CalmInv' /\ A!StreamExact'
  BY <1>1, <1>3, <1>4 DEF A!KeepsTrying, A!ListSettles, A!QuietAct, CalmInv, A!StreamExact
<1> QED BY <1>3, <1>4, <1>5, <1>6 DEF ActInv

LEMMA ActUnmountKeeps == ASSUME A!ActUnmount PROVE ActInv'
<1>1. /\ act' = A!Panel(FALSE, "none") /\ stream' = A!StreamOff
      /\ gets' = [s \in Slots |-> A!Free]
  BY DEF A!ActUnmount, A!ActOff
<1>3. gets' \in Gets /\ stream' \in Streams /\ stream'.offset <= stream'.log
  BY <1>1, StreamFresh DEF Gets
<1>4. /\ act' \in ActRecords /\ act'.mounted = FALSE /\ act'.es = "none"
      /\ act'.timer = FALSE /\ act'.entries = <<>> /\ act'.loading = FALSE /\ act'.live = FALSE
      /\ act'.post = "none" /\ act'.posting = FALSE /\ act'.calm = FALSE /\ act'.blurred = TRUE
  BY <1>1, ActPanel
<1>5. Len(act'.entries) <= Cap
  BY <1>4, ActConstantsOK DEF ActConstants
<1>6. A!KeepsTrying' /\ A!ListSettles' /\ CalmInv' /\ A!StreamExact'
  BY <1>3, <1>4 DEF A!KeepsTrying, A!ListSettles, CalmInv, A!StreamExact
<1> QED BY <1>3, <1>4, <1>5, <1>6 DEF ActInv

LEMMA ActStarts == ASSUME A!ActInit PROVE ActInv
<1>1. /\ act = A!Panel(FALSE, "none") /\ stream = A!StreamOff
      /\ gets = [s \in Slots |-> A!Free]
  BY DEF A!ActInit, A!ActOff
<1>3. gets \in Gets /\ stream \in Streams /\ stream.offset <= stream.log
  BY <1>1, StreamFresh DEF Gets
<1>4. /\ act \in ActRecords /\ act.mounted = FALSE /\ act.es = "none"
      /\ act.timer = FALSE /\ act.entries = <<>> /\ act.loading = FALSE /\ act.live = FALSE
      /\ act.post = "none" /\ act.posting = FALSE /\ act.calm = FALSE /\ act.blurred = TRUE
  BY <1>1, ActPanel
<1>5. Len(act.entries) <= Cap
  BY <1>4, ActConstantsOK DEF ActConstants
<1>6. A!KeepsTrying /\ A!ListSettles /\ CalmInv /\ A!StreamExact
  BY <1>3, <1>4 DEF A!KeepsTrying, A!ListSettles, CalmInv, A!StreamExact
<1> QED BY <1>3, <1>4, <1>5, <1>6 DEF ActInv

LEMMA ActStays == ASSUME ActInv, UNCHANGED activityVars PROVE ActInv'
<1>1. UNCHANGED <<act, gets, stream>>
  BY DEF activityVars
<1>2. A!KeepsTrying' /\ A!ListSettles' /\ CalmInv'
  BY <1>1 DEF ActInv, A!KeepsTrying, A!ListSettles, A!QuietAct, CalmInv, A!NothingOnItsWay
<1>3. A!StreamExact'
  BY <1>1 DEF ActInv, A!StreamExact, A!Unseen, A!From, A!Capped, A!Reversed, A!Newest
<1> QED BY <1>1, <1>2, <1>3 DEF ActInv

LEMMA ActSteps == ASSUME ActInv, A!ActNext PROVE ActInv'
BY ActRefreshKeeps, EntryKeeps, BroadcastKeeps, MessageKeeps, ErrorKeeps, ComposerKeeps,
   FilesKeeps, DocChangeKeeps, RestartKeeps, ConnectKeeps, ReadsLogKeeps, LoadAnsweredKeeps, LoadFailsKeeps
DEF A!ActNext, A!ListProgress

-----------------------------------------------------------------------------
(* The page: each tab follows one panel, and a step of one leaves the      *)
(* others alone.                                                           *)
PageInv ==
    /\ tab \in Tabs \cup {"none"}
    /\ FeedInv /\ DbInv /\ MemoInv /\ ActInv /\ PullsInv

LEMMA FeedNames == \A t : F!FeedsOf(t) \subseteq F!Feeds
BY DEF F!FeedsOf, F!Feeds

LEMMA PageStarts == Init => PageInv
BY FeedStarts, DbStarts, MemoStarts, ActStarts, PullsStarts DEF Init, PageInv

LEMMA OthersStay ==
    ASSUME PageInv, NEW p, OthersThan(p)
    PROVE  /\ p # "feed"     => FeedInv'
           /\ p # "database" => DbInv'
           /\ p # "memo"     => MemoInv'
           /\ p # "activity" => ActInv'
           /\ p # "pulls"    => PullsInv'
BY FeedStays, DbStays, MemoStays, ActStays, PullsStay DEF PageInv, OthersThan

LEMMA PageKeeps == PageInv /\ [Next]_vars => PageInv'
<1> SUFFICES ASSUME PageInv, [Next]_vars PROVE PageInv'
  OBVIOUS
<1>1. ASSUME NEW t \in Tabs, NEW p \in PanelsOf(t), setActiveTab(t, p) PROVE PageInv'
  <2>1. tab' = t /\ OthersThan(p) /\ p \in {"feed", "database", "memo", "activity", "pulls"}
    BY <1>1 DEF setActiveTab, PanelsOf
  <2>2. CASE p = "feed"
    <3>1. PICK name \in F!FeedsOf(t) : F!FeedMount(name)
      BY <1>1, <2>2 DEF setActiveTab
    <3>2. FeedInv'
      BY <3>1, FeedNames, FeedMountKeeps
    <3> QED BY <2>1, <2>2, <3>2, OthersStay DEF PageInv
  <2>3. CASE p = "database"
    <3>1. D!DbMount
      BY <1>1, <2>3 DEF setActiveTab
    <3> QED BY <2>1, <2>3, <3>1, DbMountKeeps, OthersStay DEF PageInv
  <2>4. CASE p = "memo"
    <3>1. M!MemoMount
      BY <1>1, <2>4 DEF setActiveTab
    <3> QED BY <2>1, <2>4, <3>1, MemoMountKeeps, OthersStay DEF PageInv
  <2>5. CASE p = "activity"
    <3>1. A!ActMount
      BY <1>1, <2>5 DEF setActiveTab
    <3> QED BY <2>1, <2>5, <3>1, ActMountKeeps, OthersStay DEF PageInv
  <2>6. CASE p = "pulls"
    <3>1. P!PullsMount
      BY <1>1, <2>6 DEF setActiveTab
    <3> QED BY <2>1, <2>6, <3>1, PullsMountKeeps, OthersStay DEF PageInv
  <2> QED BY <2>1, <2>2, <2>3, <2>4, <2>5, <2>6
<1>2. CASE Refresh
  <2>1. UNCHANGED <<tab, databaseVars, memoVars, activityVars>>
    BY <1>2 DEF Refresh
  <2>2. DbInv' /\ MemoInv' /\ ActInv' /\ tab' \in Tabs \cup {"none"}
    BY <2>1, DbStays, MemoStays, ActStays DEF PageInv
  <2>3. CASE F!FeedMount(feed.name) /\ feed.name # "none" /\ UNCHANGED pullsVars
    <3>1. feed.name \in F!Feeds
      BY <2>3 DEF PageInv, FeedInv, FeedRecords
    <3> QED BY <2>2, <2>3, <3>1, FeedMountKeeps, PullsStay DEF PageInv
  <2>4. CASE P!PullsRemount /\ UNCHANGED feedVars
    BY <2>2, <2>4, FeedStays, PullsRemountKeeps DEF PageInv
  <2> QED BY <1>2, <2>3, <2>4 DEF Refresh
<1>3. CASE Unmount
  BY <1>3, FeedUnmountKeeps, DbMountKeeps, MemoUnmountKeeps, ActUnmountKeeps, PullsUnmountKeeps
  DEF Unmount, PageInv
<1>4. CASE FeedStep
  BY <1>4, FeedSteps, OthersStay DEF FeedStep, Within, PageInv
<1>5. CASE DatabaseStep
  BY <1>5, DbSteps, OthersStay DEF DatabaseStep, Within, PageInv
<1>6. CASE MemoStep
  BY <1>6, MemoSteps, OthersStay DEF MemoStep, Within, PageInv
<1>7. CASE ActivityStep
  BY <1>7, ActSteps, OthersStay DEF ActivityStep, Within, PageInv
<1>8. CASE PullsStep
  BY <1>8, PullsSteps, OthersStay DEF PullsStep, Within, PageInv
<1>9. CASE UNCHANGED vars
  BY <1>9, FeedStays, DbStays, MemoStays, ActStays, PullsStay
  DEF vars, feedVars, databaseVars, memoVars, activityVars, pullsVars, PageInv
<1> QED BY <1>1, <1>2, <1>3, <1>4, <1>5, <1>6, <1>7, <1>8, <1>9 DEF Next

(* The page's invariant: each panel's, for any number of requests. *)
THEOREM PageTheorem == Spec => []PageInv
BY PageStarts, PageKeeps, PTL DEF Spec

(* No panel waits for a request, a connection or an answer that is not     *)
(* under way.                                                              *)
THEOREM WaitingTheorem == Spec => []DashIInv
<1>1. PageInv => DashIInv
  BY FeedTypes, DbTypes, MemoGoals, ActTypes, PullsGoals
  DEF PageInv, DashIInv, TypeOK, WaitingIsTrue, FeedInv, DbInv, MemoInv, ActInv, PullsInv
<1> QED BY <1>1, PageTheorem, PTL

(* At rest a panel shows what is selected, unless its last request failed  *)
(* or crossed another.                                                     *)
THEOREM ShownTheorem == Spec => []ShownIsCurrent
<1>1. PageInv => ShownIsCurrent
  BY MemoGoals DEF PageInv, ShownIsCurrent, FeedInv, DbInv
<1> QED BY <1>1, PageTheorem, PTL

(* A card is green for a cause. *)
THEOREM CalmTheorem == Spec => []CalmHasCause
<1>1. PageInv => CalmHasCause
  BY CalmGoal DEF PageInv, CalmHasCause
<1> QED BY <1>1, PageTheorem, PTL

(* From a calm load on the activity list is exact, with what is on its way. *)
THEOREM StreamTheorem == Spec => []StreamExact
<1>1. PageInv => StreamExact
  BY DEF PageInv, StreamExact, ActInv
<1> QED BY <1>1, PageTheorem, PTL

(* The merge button merges what was read as green, and nothing else that   *)
(* did not move.                                                           *)
THEOREM MergeTheorem == Spec => []NothingRedUnlessMoved
<1>1. PageInv => NothingRedUnlessMoved
  BY PullsGoals DEF PageInv, NothingRedUnlessMoved
<1> QED BY <1>1, PageTheorem, PTL

(* What is filed or asked for twice had its button enabled by another. *)
THEOREM TwiceTheorem == Spec => []TwiceHasCause
<1>1. PageInv => TwiceHasCause
  BY MemoGoals, PullsGoals DEF PageInv, TwiceHasCause
<1> QED BY <1>1, PageTheorem, PTL

(* No memo of the panel is lost, and no draft but to another post. *)
THEOREM KeptTheorem == Spec => []MemosAreKept
<1>1. PageInv => MemosAreKept
  BY MemoGoals DEF PageInv, MemosAreKept
<1> QED BY <1>1, PageTheorem, PTL

==============================================================================
