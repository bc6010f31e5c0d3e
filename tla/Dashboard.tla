------------------------------- MODULE Dashboard -------------------------------
(***************************************************************************)
(* The dashboard's page (App.tsx: App): twelve tabs, of which one is       *)
(* mounted.  Its panels share nothing: a state of this module follows one  *)
(* of them, from its mount on, and leaves the others off.  A panel that is *)
(* unmounted forgets its state, and the answers still to come are dropped. *)
(*                                                                         *)
(* On the overview, auto-refresh mounts the panels anew every 30 seconds.  *)
(* A panel that throws takes the whole page with it (DashDatabase), until  *)
(* it is loaded again.                                                     *)
(***************************************************************************)
EXTENDS Integers

CONSTANTS Slots, Keys, AllLabels, NoKey, MaxChanges, MaxQueries, Tables, NoTable,
          MaxPages, PagesOf, MaxDrafts, MaxPosts, MaxOthers, MaxLog, Cap,
          MaxDowns, Clicks, PullSlots, MaxPulls

VARIABLES
    tab,   \* activeTab, "none" between two tabs
    feed, src, db, reads, queries, memo, posts, loads, file, act, gets, stream,
    pr, panel, lists, merges

F == INSTANCE DashFeeds WITH All <- AllLabels
D == INSTANCE DashDatabase
M == INSTANCE DashMemo
A == INSTANCE DashActivity
P == INSTANCE DashPulls WITH Slots <- PullSlots, MaxChanges <- MaxPulls

ASSUME DashboardAssumption ==
    /\ F!FeedAssumption /\ D!TableAssumption /\ M!MemoAssumption
    /\ A!ActivityAssumption /\ P!PullsAssumption

feedVars     == <<feed, src>>
databaseVars == <<db, reads, queries>>
memoVars     == <<memo, posts, loads, file>>
activityVars == <<act, gets, stream>>
pullsVars    == <<pr, panel, lists, merges>>

vars == <<tab, feed, src, db, reads, queries, memo, posts, loads, file,
          act, gets, stream, pr, panel, lists, merges>>

Tabs == {"overview", "database", "phases", "agents", "governance", "activity",
         "memos", "decisions", "deployments", "security", "issues", "health"}

(* The panels of a tab that can be followed; "feed" is any of FeedsOf. *)
PanelsOf(t) ==
    CASE t = "overview" -> {"feed", "pulls"}
      [] t = "memos"    -> {"feed", "memo"}
      [] t = "database" -> {"database"}
      [] t = "activity" -> {"activity"}
      [] OTHER          -> {"feed"}

Init ==
    /\ tab = "none"
    /\ F!FeedInit /\ D!DbInit /\ M!MemoInit /\ A!ActInit /\ P!PullsInit

OthersThan(p) ==
    /\ p = "feed"     \/ UNCHANGED feedVars
    /\ p = "database" \/ UNCHANGED databaseVars
    /\ p = "memo"     \/ UNCHANGED memoVars
    /\ p = "activity" \/ UNCHANGED activityVars
    /\ p = "pulls"    \/ UNCHANGED pullsVars

Within(p) == OthersThan(p) /\ UNCHANGED tab

(* The tab's panels are unmounted: another one is selected, or the page is *)
(* closed, which is all that can be done about a blank one.                *)
Unmount ==
    /\ tab # "none"
    /\ tab' = "none"
    /\ F!FeedUnmount /\ D!DbUnmount /\ M!MemoUnmount /\ A!ActUnmount /\ P!PullsUnmount

(* A tab is rendered and the effects of its panels run: on a page that     *)
(* opens the overview, from which a click leads to any other.              *)
setActiveTab(t, p) ==
    /\ tab = "none"
    /\ tab' = t
    /\ CASE p = "feed"     -> \E name \in F!FeedsOf(t) : F!FeedMount(name)
         [] p = "database" -> D!DbMount
         [] p = "memo"     -> M!MemoMount
         [] p = "activity" -> A!ActMount
         [] p = "pulls"    -> P!PullsMount
    /\ OthersThan(p)

(* setOverviewKey: every 30 seconds while auto-refresh is switched on,     *)
(* which the button does on the overview.  The source of a feed, GitHub,   *)
(* and the requests there are as they were.                                *)
Refresh ==
    /\ tab = "overview"
    /\ \/ F!FeedMount(feed.name) /\ feed.name # "none" /\ UNCHANGED pullsVars
       \/ P!PullsRemount /\ UNCHANGED feedVars
    /\ UNCHANGED <<tab, databaseVars, memoVars, activityVars>>

FeedStep     == F!FeedNext /\ Within("feed")
DatabaseStep == D!DbNext /\ Within("database")
MemoStep     == M!MemoNext /\ Within("memo")
ActivityStep == A!ActNext /\ Within("activity")
PullsStep    == P!PullsNext /\ Within("pulls")

Next ==
    \/ \E t \in Tabs : \E p \in PanelsOf(t) : setActiveTab(t, p)
    \/ Refresh \/ Unmount
    \/ FeedStep \/ DatabaseStep \/ MemoStep \/ ActivityStep \/ PullsStep

Spec == Init /\ [][Next]_vars

-----------------------------------------------------------------------------
(* Properties                                                              *)

TypeOK ==
    /\ tab \in Tabs \cup {"none"}
    /\ F!FeedTypeOK /\ D!DbTypeOK /\ M!MemoTypeOK /\ A!ActTypeOK /\ P!PullsTypeOK

(* No panel waits without a request under way, a connection or a timer, or *)
(* hides one that is (the panels' loading, merging, posting and live).     *)
WaitingIsTrue ==
    /\ F!LoadingIsTrue /\ A!KeepsTrying /\ A!ListSettles
    /\ D!WaitingIsTrue /\ P!WaitingIsTrue /\ M!WaitingIsTrue

(* The invariant that is proved: types, and what waits is under way. *)
DashIInv == TypeOK /\ WaitingIsTrue

(* When no request is under way a panel shows what is selected, as it was  *)
(* when it was asked for or later, unless its last request failed or       *)
(* crossed another one (App.tsx: no fetch is aborted or numbered).         *)
ShownIsCurrent == F!FeedIsCurrent /\ D!TableIsSelected /\ D!PagerHasTable /\ M!InboxIsCurrent

(* A card in green has seen its source so, or is one of those that take    *)
(* what is not there for clear, until an answer comes (App.tsx: the panels *)
(* of DashFeeds!Trusting).                                                 *)
CalmHasCause == F!CalmHasCause

(* After a calm load the activity list, with what is on its way to it, is  *)
(* the newest of the log (App.tsx: ActivityPanel), for as long as none of  *)
(* what DashActivity lists has come between.                               *)
StreamExact == A!StreamExact

(* The merge button merges what was green unless it moved, and says so     *)
(* only when it did.                                                       *)
NothingRedUnlessMoved == P!NothingRedUnlessMoved /\ P!BadgeIsTrue

(* A memo is filed once, a merge asked for once, unless the flag that      *)
(* disables its button was dropped by another's timer, answer or mount.    *)
TwiceHasCause == M!TwiceHasCause /\ P!OneMergeAtATime

(* No memo is lost, and no draft, but to another process or another post.  *)
MemosAreKept == M!MemosAreKept

==============================================================================
