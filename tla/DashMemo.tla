------------------------------- MODULE DashMemo -------------------------------
(***************************************************************************)
(* The memo tab (App.tsx: MemoCenterPanel) and POST /api/memo              *)
(* (dashboard/server.js).  A memo is typed, posted, and filed in INBOX.md, *)
(* which other processes write too.  The endpoint reads the whole file and *)
(* writes it back with the memo before "## Processed"; without that        *)
(* heading it appends.                                                     *)
(*                                                                         *)
(* Posts are numbered 1..MaxPosts, the memos of others from there on; the  *)
(* inbox is the set of those it holds.                                     *)
(***************************************************************************)
EXTENDS Integers

CONSTANTS
    Slots,      \* bound: loads of the inbox under way at once
    MaxDrafts,  \* bound: what is typed while the panel is mounted
    MaxPosts,   \* bound: posts of the panel
    MaxOthers   \* bound: memos that other processes file meanwhile

MemoAssumption ==
    MaxDrafts \in Nat \ {0} /\ MaxPosts \in Nat \ {0} /\ MaxOthers \in Nat

VARIABLES
    memo,   \* the panel: form, button and list
    posts,  \* its posts, each with its draft
    loads,  \* its loads of the inbox
    file    \* INBOX.md, and what the endpoint holds of it

memoVars == <<memo, posts, loads, file>>

Drafts == 0..MaxDrafts  \* 0: subject or body is empty

Mine == 1..MaxPosts

Others == (MaxPosts + 1)..(MaxPosts + MaxOthers)

Memos == Mine \cup Others

Unused == [state |-> "unused", draft |-> 0]

Free == [state |-> "free", holds |-> {}]

(* typed is the newest draft; timers are the ones that will set 'idle'.    *)
(* History: told, the posts whose answer said ok; excused, the drafts of   *)
(* which a post was under way when one ended in an error or an old timer   *)
(* fired; overlapped, those that were in the form while another one was    *)
(* under way.                                                              *)
Panel(on, crossed) ==
    [mounted |-> on, status |-> "idle", draft |-> 0, typed |-> 0, timers |-> 0,
     shown |-> {}, loading |-> on, crossed |-> crossed, failed |-> FALSE,
     told |-> {}, excused |-> {}, overlapped |-> {}, abandoned |-> {}]

MemoOff == Panel(FALSE, FALSE)

(* handling is the post whose handler has read the file: snapshot.         *)
(* History: others, the memos that other processes have filed, and raced,  *)
(* those of them that came between a read and a write of the endpoint.     *)
FileStart(heading) ==
    [holds |-> {}, heading |-> heading, handling |-> 0, snapshot |-> {},
     others |-> {}, raced |-> {}]

MemoTypeOK ==
    /\ memo \in [mounted : BOOLEAN, status : {"idle", "sending", "sent", "error"},
                 draft : Drafts, typed : Drafts, timers : Nat,
                 shown : SUBSET Memos, loading : BOOLEAN, crossed : BOOLEAN,
                 failed : BOOLEAN, told : SUBSET Mine, excused : SUBSET Drafts,
                 overlapped : SUBSET Drafts, abandoned : SUBSET Drafts]
    /\ posts \in [Mine -> [state : {"unused", "sent", "filed", "answered"},
                           draft : Drafts]]
    /\ loads \in [Slots -> [state : {"free", "sent", "read"}, holds : SUBSET Memos]]
    /\ file \in [holds : SUBSET Memos, heading : BOOLEAN, handling : 0..MaxPosts,
                 snapshot : SUBSET Memos, others : SUBSET Others,
                 raced : SUBSET Others]

MemoInit ==
    /\ memo = MemoOff
    /\ posts = [p \in Mine |-> Unused]
    /\ loads = [s \in Slots |-> Free]
    /\ file = FileStart(TRUE)

MemoMount ==
    /\ posts' = [p \in Mine |-> Unused]
    /\ \E heading \in BOOLEAN : file' = FileStart(heading)
    /\ \E first \in Slots, second \in Slots :
          /\ loads' = [s \in Slots |-> IF s \in {first, second}
                                       THEN [state |-> "sent", holds |-> {}] ELSE Free]
          /\ memo' = Panel(TRUE, first # second)

MemoUnmount ==
    /\ memo' = MemoOff
    /\ posts' = [p \in Mine |-> Unused]
    /\ loads' = [s \in Slots |-> Free]
    /\ file' = FileStart(TRUE)

-----------------------------------------------------------------------------
(* The form                                                                *)

UnderWay == {p \in Mine : posts[p].state \in {"sent", "filed"}}

(* The fields can be edited at any time, while a memo is being sent too.   *)
Type ==
    /\ memo.mounted /\ memo.typed < MaxDrafts
    /\ memo' = [memo EXCEPT
                  !.draft = memo.typed + 1, !.typed = memo.typed + 1,
                  !.abandoned = memo.abandoned \cup {memo.draft},
                  !.overlapped = IF UnderWay = {} THEN memo.overlapped
                                 ELSE memo.overlapped \cup {memo.typed + 1}]
    /\ UNCHANGED <<posts, loads, file>>

(* The button is disabled while the status is 'sending'. *)
handleSend ==
    /\ memo.draft # 0 /\ memo.status # "sending"
    /\ \E p \in Mine :
          /\ posts[p].state = "unused" /\ \A q \in 1..p - 1 : posts[q].state # "unused"
          /\ posts' = [posts EXCEPT ![p] = [state |-> "sent", draft |-> memo.draft]]
    /\ memo' = [memo EXCEPT !.status = "sending"]
    /\ UNCHANGED <<loads, file>>

(* setTimeout(() => setSendStatus('idle'), 3000): whatever is being sent. *)
IdleTimer ==
    /\ memo.timers > 0
    /\ memo' = [memo EXCEPT !.timers = memo.timers - 1, !.status = "idle",
                            !.excused = memo.excused \cup {posts[p].draft : p \in UnderWay}]
    /\ UNCHANGED <<posts, loads, file>>

QuietMemo == \A s \in Slots : loads[s].state = "free"

loadInbox(m, s) ==
    /\ loads[s].state = "free"
    /\ loads' = [loads EXCEPT ![s] = [state |-> "sent", holds |-> {}]]
    /\ memo' = [m EXCEPT !.loading = TRUE, !.failed = FALSE, !.crossed = ~QuietMemo]

(* d.ok: the fields are emptied, the inbox is loaded, a timer is set. *)
SendAnswered(p) ==
    /\ posts[p].state = "filed"
    /\ posts' = [posts EXCEPT ![p].state = "answered"]
    /\ \E s \in Slots :
          loadInbox([memo EXCEPT !.status = "sent", !.draft = 0,
                                 !.timers = memo.timers + 1,
                                 !.told = memo.told \cup {p}], s)
    /\ UNCHANGED file

(* No answer, or one that is not ok: the endpoint had no INBOX.md, or the  *)
(* connection broke before or after the memo was filed.                    *)
SendFails(p) ==
    /\ posts[p].state \in {"sent", "filed"} /\ file.handling # p
    /\ posts' = [posts EXCEPT ![p].state = "answered"]
    /\ memo' = [memo EXCEPT !.status = "error",
                            !.excused = memo.excused \cup {posts[q].draft : q \in UnderWay}]
    /\ UNCHANGED <<loads, file>>

Refresh ==
    /\ memo.mounted
    /\ \E s \in Slots : loadInbox(memo, s)
    /\ UNCHANGED <<posts, file>>

InboxAnswered(s) ==
    /\ loads[s].state = "read"
    /\ loads' = [loads EXCEPT ![s] = Free]
    /\ memo' = [memo EXCEPT !.shown = loads[s].holds, !.loading = FALSE]
    /\ UNCHANGED <<posts, file>>

InboxFails(s) ==
    /\ loads[s].state # "free"
    /\ loads' = [loads EXCEPT ![s] = Free]
    /\ memo' = [memo EXCEPT !.loading = FALSE, !.failed = TRUE]
    /\ UNCHANGED <<posts, file>>

-----------------------------------------------------------------------------
(* The file.  The endpoint's handler runs to its end before the server     *)
(* takes another request, not before another process writes.               *)

EndpointReads(p) ==
    /\ posts[p].state = "sent" /\ file.handling = 0
    /\ file' = [file EXCEPT !.handling = p, !.snapshot = file.holds]
    /\ UNCHANGED <<memo, posts, loads>>

(* Mutant: the memos before the heading are not written back. *)
EndpointWrites_TailOnly(p) ==
    /\ file.handling = p
    /\ file' = [file EXCEPT !.handling = 0, !.snapshot = {},
                            !.holds = IF file.heading THEN {p} ELSE file.holds \cup {p}]
    /\ posts' = [posts EXCEPT ![p].state = "filed"]
    /\ UNCHANGED <<memo, loads>>

EndpointWrites(p) ==
    /\ file.handling = p
    /\ file' = [file EXCEPT !.handling = 0, !.snapshot = {},
                            !.holds = {p} \cup IF file.heading THEN file.snapshot
                                               ELSE file.holds]
    /\ posts' = [posts EXCEPT ![p].state = "filed"]
    /\ UNCHANGED <<memo, loads>>

ServerReadsInbox(s) ==
    /\ loads[s].state = "sent" /\ file.handling = 0
    /\ loads' = [loads EXCEPT ![s] = [state |-> "read", holds |-> file.holds]]
    /\ UNCHANGED <<memo, posts, file>>

(* An agent or a person files a memo. *)
OtherFiles ==
    /\ memo.mounted
    /\ \E o \in Others \ file.others :
          file' = [file EXCEPT !.holds = file.holds \cup {o},
                               !.others = file.others \cup {o},
                               !.raced = IF file.handling = 0 THEN file.raced
                                         ELSE file.raced \cup {o}]
    /\ UNCHANGED <<memo, posts, loads>>

PostProgress ==
    \E p \in Mine : SendAnswered(p) \/ SendFails(p) \/ EndpointReads(p) \/ EndpointWrites(p)

ListProgress == \E s \in Slots : ServerReadsInbox(s) \/ InboxAnswered(s) \/ InboxFails(s)

MemoNext ==
    \/ Type \/ handleSend \/ IdleTimer \/ Refresh \/ OtherFiles
    \/ PostProgress \/ ListProgress

-----------------------------------------------------------------------------

(* A draft is filed twice only if the button was enabled while a post of   *)
(* it was under way: a post, not always its own, ended in an error, or an  *)
(* old timer fired (App.tsx: handleSend).                                  *)
TwiceHasCause ==
    \A p, q \in Mine :
       p # q /\ {p, q} \subseteq file.holds /\ posts[p].draft = posts[q].draft
          => posts[p].draft \in memo.excused

(* When no load of it is under way, the inbox on display has every memo    *)
(* that the panel has reported as sent, unless the last load failed or     *)
(* crossed another.                                                        *)
InboxIsCurrent ==
    QuietMemo /\ ~memo.crossed /\ ~memo.failed => memo.told \subseteq memo.shown

(* Who waits for the inbox or for a memo to be sent waits for a request.   *)
WaitingIsTrue ==
    /\ memo.loading => ~QuietMemo
    /\ memo.status = "sending" => UnderWay # {}

(* What is no longer in the form was typed over or is filed, unless it was *)
(* typed while another memo was under way, whose answer emptied the form;  *)
(* and a memo is missing from the file only if another process filed it    *)
(* while the endpoint was between its read and its write.                  *)
MemosAreKept ==
    /\ \A d \in 1..memo.typed :
          \/ d = memo.draft \/ d \in memo.abandoned \cup memo.overlapped
          \/ \E p \in file.holds \cap Mine : posts[p].draft = d
    /\ \A p \in Mine : posts[p].state = "filed" => p \in file.holds
    /\ file.others \ file.raced \subseteq file.holds

==============================================================================
