------------------------------- MODULE DashFeeds -------------------------------
(***************************************************************************)
(* What most panels of the dashboard do (dashboard/src/App.tsx): they ask  *)
(* the API server for a document or a list when they are mounted, some of  *)
(* them again at a click or a tick, and show the answer.  The panels on a  *)
(* page share nothing but the tab they are on, and an unmounted panel      *)
(* loses its state and the answers that are still to come: the module      *)
(* follows one feed at a time, from its mount on.                          *)
(*                                                                         *)
(* Of a source (a document, a GitHub list, the backend's /health) it keeps *)
(* what the cards tell apart: all is "good", "mixed", or "bad".            *)
(***************************************************************************)
EXTENDS Integers, Sequences

CONSTANTS
    Slots,      \* bound: requests under way at once
    Keys,       \* what a click selects: the labels of issues, the agents
    All,        \* the label that the list of issues starts with
    NoKey,
    MaxChanges  \* bound: the states of a source while its feed is followed

FeedAssumption ==
    /\ All \in Keys /\ NoKey \notin Keys
    /\ MaxChanges \in Nat \ {0}

VARIABLES
    feed,  \* the feed followed
    src    \* history: the states of its source since the feed was mounted

feedVars == <<feed, src>>

Classes == {"good", "mixed", "bad"}

FeedsOf(tab) ==
    CASE tab = "overview"    -> {"health", "ci", "issues", "backend"}
      [] tab = "health"      -> {"healthTab", "phaseRows", "gaps"}
      [] tab = "issues"      -> {"issueList"}
      [] tab = "security"    -> {"security"}
      [] tab = "phases"      -> {"phases", "phaseGaps"}
      [] tab = "agents"      -> {"agentStats", "agentDoc"}
      [] tab = "governance"  -> {"governance", "hardRules", "freshness"}
      [] tab = "decisions"   -> {"decisions"}
      [] tab = "deployments" -> {"deployments", "releases"}
      [] tab = "memos"       -> {"outbox"}
      [] OTHER               -> {}

Feeds == {"health", "ci", "issues", "backend", "healthTab", "phaseRows", "gaps",
          "issueList", "security", "phases", "phaseGaps", "agentStats",
          "agentDoc", "governance", "hardRules", "freshness", "decisions",
          "deployments", "releases", "outbox"}

(* The cards of these wait for no answer of their own. *)
Unflagged == {"phaseRows", "gaps", "phaseGaps", "agentStats", "hardRules",
              "freshness", "backend"}

(* These put a failure in the place of what they have shown; the others    *)
(* keep it, IssuesPanel with its error beside it.                          *)
Tells == {"agentDoc", "backend"}

-----------------------------------------------------------------------------
(* What a feed shows: the state of the source that an answer told of, as a *)
(* position in src, or one of these.                                       *)

Nothing == 0   \* no answer yet
Failed  == -1  \* "could not load", as the panels in Tells put it
Refused == -2  \* an answer without data: GitHub's refusal, {error}, [], a
               \* health document without an OVERALL line that is known

Free == [state |-> "free", key |-> NoKey, at |-> Nothing]

Sent(key) == [state |-> "sent", key |-> key, at |-> Nothing]

Panel(name, key, asks, loading, crossed) ==
    [name |-> name, key |-> key, asks |-> asks,
     shown |-> [key |-> NoKey, at |-> Nothing], loading |-> loading,
     since |-> 1, crossed |-> crossed, failed |-> FALSE]

Idle(name) == Panel(name, NoKey, [s \in Slots |-> Free], FALSE, FALSE)

FeedOff == Idle("none")

Told == (-2)..MaxChanges

FeedTypeOK ==
    /\ feed \in
         [name : Feeds \cup {"none"}, key : Keys \cup {NoKey},
          asks : [Slots -> [state : {"free", "sent", "read"},
                            key : Keys \cup {NoKey}, at : Told]],
          shown : [key : Keys \cup {NoKey}, at : Told],
          loading : BOOLEAN, since : 1..MaxChanges, crossed : BOOLEAN,
          failed : BOOLEAN]
    /\ src \in Seq(Classes) /\ Len(src) \in 1..MaxChanges

Quiet == \A s \in Slots : feed.asks[s].state = "free"

(* fetch is called: the loading flag goes up, and nothing stops a request  *)
(* that is still under way.                                                *)
Ask(key) ==
    \E s \in Slots :
       /\ feed.asks[s].state = "free"
       /\ feed' = [feed EXCEPT !.key = key, !.asks[s] = Sent(key),
                               !.loading = feed.name \notin Unflagged,
                               !.since = Len(src), !.crossed = ~Quiet,
                               !.failed = FALSE]
       /\ UNCHANGED src

-----------------------------------------------------------------------------
(* The life of a feed                                                      *)

FeedInit ==
    /\ feed = FeedOff
    /\ src = <<"good">>

FeedUnmount ==
    /\ feed' = FeedOff
    /\ src' = <<"good">>

(* The effect that asks when the panel is mounted, twice in development    *)
(* (StrictMode, main.tsx); an agent's document is asked for at a click.    *)
FeedMount(name) ==
    /\ \E class \in Classes : src' = <<class>>
    /\ IF name = "agentDoc"
       THEN feed' = Idle(name)
       ELSE LET key == IF name = "issueList" THEN All ELSE NoKey IN
            \E first \in Slots, second \in Slots :
               feed' = Panel(name, key,
                             [s \in Slots |-> IF s \in {first, second}
                                              THEN Sent(key) ELSE Free],
                             name \notin Unflagged, first # second)

(* The button or, for the backend, the interval. *)
Reload ==
    /\ feed.name \in {"ci", "issueList", "outbox", "backend"}
    /\ Ask(feed.key)

SelectLabel(label) ==
    /\ feed.name = "issueList" /\ feed.key # label
    /\ Ask(label)

selectAgent(agent) ==
    /\ feed.name = "agentDoc" /\ feed.key # agent
    /\ Ask(agent)

deselectAgent ==
    /\ feed.name = "agentDoc" /\ feed.key # NoKey
    /\ feed' = [feed EXCEPT !.key = NoKey, !.shown = [key |-> NoKey, at |-> Nothing]]
    /\ UNCHANGED src

SourceChanges ==
    /\ feed.name # "none" /\ Len(src) < MaxChanges
    /\ \E class \in Classes : src' = Append(src, class)
    /\ UNCHANGED feed

(* The API server reads the file, asks GitHub or probes the backend. *)
ServerReads(s) ==
    /\ feed.asks[s].state = "sent"
    /\ \E at \in {Len(src), Refused} :
          feed' = [feed EXCEPT !.asks[s] = [state |-> "read", key |-> feed.asks[s].key,
                                             at |-> at]]
    /\ UNCHANGED src

(* Mutant: the answer is shown only to who has shown nothing yet. *)
Answered_FirstOnly(s) ==
    /\ feed.asks[s].state = "read"
    /\ feed' = [feed EXCEPT !.asks[s] = Free, !.loading = FALSE,
                            !.shown = IF feed.shown.at # Nothing THEN feed.shown
                                      ELSE [key |-> feed.asks[s].key, at |-> feed.asks[s].at]]
    /\ UNCHANGED src

(* then: whatever request it is, its answer is shown and the flag drops. *)
Answered(s) ==
    /\ feed.asks[s].state = "read"
    /\ feed' = [feed EXCEPT !.asks[s] = Free, !.loading = FALSE,
                            !.shown = [key |-> feed.asks[s].key, at |-> feed.asks[s].at]]
    /\ UNCHANGED src

(* catch: the API server is down, or the answer is no JSON. *)
FetchFails(s) ==
    /\ feed.asks[s].state # "free"
    /\ feed' = [feed EXCEPT !.asks[s] = Free, !.loading = FALSE, !.failed = TRUE,
                            !.shown = IF feed.name \in Tells
                                      THEN [key |-> feed.asks[s].key, at |-> Failed]
                                      ELSE feed.shown]
    /\ UNCHANGED src

FeedProgress == \E s \in Slots : ServerReads(s) \/ Answered(s) \/ FetchFails(s)

FeedNext ==
    \/ Reload \/ deselectAgent \/ SourceChanges
    \/ \E label \in Keys : SelectLabel(label)
    \/ \E agent \in Keys : selectAgent(agent)
    \/ FeedProgress

-----------------------------------------------------------------------------
(* What the cards say: "clear" in green, "trouble", or neither.            *)

HasRead == feed.shown.at >= 1

Class == src[feed.shown.at]

(* Counts, lists and documents of what is wrong are green when they are    *)
(* empty, whatever made them so.                                           *)
EmptyMeansClear == IF HasRead /\ Class # "good" THEN "trouble" ELSE "clear"

(* A document whose OVERALL line says HEALTHY, GAPS, or both ("mixed"): the *)
(* two panels that show it differ.  The line itself is green unless it     *)
(* tells of gaps, UNKNOWN too, which stands for a line that is not there.  *)
HealthPanel == IF feed.loading THEN "loading" ELSE EmptyMeansClear

HealthTabPanel ==
    IF HasRead /\ Class # "bad" THEN "clear" ELSE "trouble"

(* The badge with the count: a 0 from the start, also while the first      *)
(* answer is awaited.                                                      *)
IssuesPanel == EmptyMeansClear

IssuesTabPanel == EmptyMeansClear

(* Mutant: the error is not looked at. *)
NoOpenIssues_ErrorUnread == ~feed.loading /\ EmptyMeansClear = "clear"

(* IssuesPanel's sentence.  Its error stays: nothing asks a second time.   *)
NoOpenIssues == ~feed.loading /\ ~feed.failed /\ EmptyMeansClear = "clear"

SecurityPanel == EmptyMeansClear

GapsCard == EmptyMeansClear

(* null is CHECKING; ok, and status ok in the body, is green. *)
BackendHealthWidget ==
    CASE feed.shown.at = Nothing -> "loading"
      [] feed.shown.at # Nothing /\ HasRead /\ Class = "good" -> "clear"
      [] OTHER -> "trouble"

(* Rows with a colour each, which a list keeps while it is loaded again:   *)
(* workflow runs (running is "mixed"), documents' freshness.               *)
ColouredRows(none) ==
    IF ~HasRead THEN IF feed.loading THEN "loading" ELSE none
    ELSE CASE Class = "good" -> "clear" [] Class = "mixed" -> "unknown"
           [] Class = "bad" -> "trouble"

CIPanel == ColouredRows("no CI runs found")

FreshnessCard == ColouredRows("no card")

(* Panels that make no claim beyond their rows. *)
PlainRows(none) ==
    CASE feed.loading              -> "loading"
      [] ~feed.loading /\ HasRead  -> "rows"
      [] ~feed.loading /\ ~HasRead -> none

PhasesPanel      == PlainRows("could not parse phase data")
PhaseRowsCard    == PlainRows("no phase data") \* once the document is there
DecisionsPanel   == PlainRows("no decisions found")
DeploymentsPanel == PlainRows("no deployments recorded yet")
ReleasesPanel    == PlainRows("no releases found")
GovernancePanel  == PlainRows("")
HardRulesCard    == PlainRows("branch strategy")
OutboxView       == PlainRows("")
RosterStats      == PlainRows("no activity logged yet")

(* The document of the agent selected, none when none is selected. *)
RosterPanel ==
    IF feed.key = NoKey THEN "click an agent to view its role file"
    ELSE PlainRows(IF feed.shown.at = Failed THEN "could not load agent file"
                   ELSE "no doc found")

Card ==
    CASE feed.name = "health"      -> HealthPanel
      [] feed.name = "healthTab"   -> HealthTabPanel
      [] feed.name = "issues"      -> IssuesPanel
      [] feed.name = "issueList"   -> IssuesTabPanel
      [] feed.name = "security"    -> SecurityPanel
      [] feed.name \in {"gaps", "phaseGaps"} -> GapsCard
      [] feed.name = "backend"     -> BackendHealthWidget
      [] feed.name = "ci"          -> CIPanel
      [] feed.name = "freshness"   -> FreshnessCard
      [] feed.name = "phases"      -> PhasesPanel
      [] feed.name = "phaseRows"   -> PhaseRowsCard
      [] feed.name = "decisions"   -> DecisionsPanel
      [] feed.name = "deployments" -> DeploymentsPanel
      [] feed.name = "releases"    -> ReleasesPanel
      [] feed.name = "governance"  -> GovernancePanel
      [] feed.name = "hardRules"   -> HardRulesCard
      [] feed.name = "outbox"      -> OutboxView
      [] feed.name = "agentStats"  -> RosterStats
      [] feed.name = "agentDoc"    -> RosterPanel
      [] OTHER                     -> "off"

-----------------------------------------------------------------------------
(* Properties                                                              *)

(* No card waits for an answer that will not come, and none that waits has *)
(* stopped saying so, unless a second request crossed the first.           *)
LoadingIsTrue ==
    /\ feed.loading => ~Quiet
    /\ feed.name \notin Unflagged /\ ~feed.crossed /\ ~Quiet => feed.loading

(* When nothing is under way a feed shows what is selected, as it was when *)
(* it was asked for or later, unless its last request failed or crossed    *)
(* another (App.tsx: load, selectAgent, check; no request is aborted).     *)
FeedIsCurrent ==
    /\ Quiet /\ ~feed.crossed /\ ~feed.failed /\ HasRead
    /\ feed.name = "agentDoc" => feed.key # NoKey
    => feed.shown.key = feed.key /\ feed.shown.at >= feed.since

(* The panels that take an answer without data, or none, for a clear one. *)
Trusting == {"health", "issues", "issueList", "security", "gaps", "phaseGaps"}

(* A card is in green although its source was never clear since the panel  *)
(* was mounted only in these panels, and only while no document or list    *)
(* has reached them; once they wait for nothing it is because a request    *)
(* failed or was answered without data.  "No open issues", which IssuesPanel *)
(* writes under its badge, waits for an answer and is not written after a  *)
(* failed request: it is wrong only when GitHub refused.                   *)
CalmHasCause ==
    (\A p \in DOMAIN src : src[p] = "bad") =>
       /\ Card = "clear" =>
             /\ feed.name \in Trusting /\ ~HasRead
             /\ Quiet => feed.failed \/ feed.shown.at = Refused
       /\ feed.name = "issues" /\ NoOpenIssues => feed.shown.at = Refused

==============================================================================
