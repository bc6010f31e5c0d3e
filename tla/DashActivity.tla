------------------------------ MODULE DashActivity ------------------------------
(***************************************************************************)
(* The activity tab (App.tsx: ActivityPanel; not what its views count): a  *)
(* list of the newest entries that is loaded from the server, and an       *)
(* EventSource that puts new entries before it.  Nothing relates the two:  *)
(* an entry that is loaded and streamed is shown twice, and one that is    *)
(* streamed while a load is under way is lost with the answer.             *)
(*                                                                         *)
(* Entries are numbered as they are in ACTIVITY.log.  The server watches   *)
(* the log from the position lastLogSize on, which it counts in characters *)
(* when it reads and moves by bytes when it writes; what it writes it also *)
(* sends at once.  How the position wanders is ActivityStream's; here it   *)
(* is a number of lines, exact or, astray, a bound from below.  Lines are  *)
(* whole: how one is read in two parts is ActivityStream's, too.           *)
(***************************************************************************)
EXTENDS Integers, Sequences

CONSTANTS
    Slots,     \* bound: loads under way at once
    MaxLog,    \* bound: the entries of the log
    Cap,       \* 200: what is loaded, and kept
    MaxDowns   \* bound: connections that fail or break

ActivityAssumption ==
    /\ MaxLog \in Nat /\ MaxDowns \in Nat
    /\ Cap \in Nat \ {0}

VARIABLES
    act,      \* the panel
    gets,     \* its loads under way
    stream    \* the log, and the connection's other end

actVars == <<act, gets, stream>>

Entries == 1..MaxLog

Free == [state |-> "free", log |-> 0]

(* es is the EventSource that esRef holds, timer that connectSSE is due.   *)
(* History: calm, that no entry has been on its way since the load that is *)
(* under way was asked for; blurred, that the list may have lost or        *)
(* doubled an entry since a calm load filled it.                           *)
Panel(on, es) ==
    [mounted |-> on, es |-> es, timer |-> FALSE, downs |-> 0,
     entries |-> <<>>, loading |-> on, live |-> FALSE,
     post |-> "none", posting |-> FALSE, calm |-> FALSE, blurred |-> TRUE]

ActStart == Panel(TRUE, "connecting")
ActOff   == Panel(FALSE, "none")

(* offset: the lines that the next broadcast leaves out, as the position   *)
(* is at their end or, when it is astray, beyond it; queue: sent, not yet  *)
(* received.                                                               *)
StreamAt(log, offset, astray) ==
    [log |-> log, offset |-> offset, astray |-> astray, registered |-> FALSE,
     queue |-> <<>>]

StreamOff == StreamAt(0, 0, FALSE)

ActTypeOK ==
    /\ act.mounted \in BOOLEAN /\ act.es \in {"none", "connecting", "open"}
    /\ act.timer \in BOOLEAN /\ act.downs \in 0..MaxDowns
    /\ act.entries \in Seq(Entries) /\ Len(act.entries) <= Cap
    /\ {act.loading, act.live, act.posting, act.calm, act.blurred} \subseteq BOOLEAN
    /\ act.post \in {"none", "sent", "filed", "lost"}
    /\ gets \in [Slots -> [state : {"free", "sent", "read", "empty"}, log : 0..MaxLog]]
    /\ stream.log \in 0..MaxLog /\ stream.offset \in 0..stream.log
    /\ {stream.astray, stream.registered} \subseteq BOOLEAN
    /\ stream.queue \in Seq(Entries)

ActInit ==
    /\ act = ActOff
    /\ gets = [s \in Slots |-> Free]
    /\ stream = StreamOff

(* The effect, load() and connectSSE(), with the log and the watcher as    *)
(* they are by then.                                                       *)
ActMount ==
    /\ act' = ActStart
    /\ \E first \in Slots, second \in Slots :
          gets' = [s \in Slots |-> IF s \in {first, second}
                                   THEN [state |-> "sent", log |-> 0] ELSE Free]
    /\ \E log \in 0..MaxLog : \E offset \in 0..log, astray \in BOOLEAN :
          stream' = StreamAt(log, offset, astray)

(* Its cleanup closes the EventSource and clears the timer. *)
ActUnmount ==
    /\ act' = ActOff
    /\ gets' = [s \in Slots |-> Free]
    /\ stream' = StreamOff

-----------------------------------------------------------------------------
(* The list                                                                *)

QuietAct == \A s \in Slots : gets[s].state = "free"

NothingOnItsWay ==
    stream.registered /\ stream.queue = <<>> /\ stream.offset = stream.log

load(a, s) ==
    /\ gets[s].state = "free"
    /\ gets' = [gets EXCEPT ![s] = [state |-> "sent", log |-> 0]]
    /\ act' = [a EXCEPT !.loading = TRUE, !.calm = QuietAct /\ NothingOnItsWay]

Refresh ==
    /\ act.mounted
    /\ \E s \in Slots : load(act, s)
    /\ UNCHANGED stream

(* A log that cannot be read is answered with an empty list, and an answer *)
(* that is no list is taken for one.                                       *)
ServerReadsLog(s) ==
    /\ gets[s].state = "sent"
    /\ \/ gets' = [gets EXCEPT ![s] = [state |-> "read", log |-> stream.log]]
       \/ gets' = [gets EXCEPT ![s] = [state |-> "empty", log |-> 0]]
    /\ UNCHANGED <<act, stream>>

(* The newest Cap of the first n entries, newest first. *)
Newest(n) == [i \in 1..(IF n < Cap THEN n ELSE Cap) |-> n + 1 - i]

LoadAnswered(s) ==
    /\ gets[s].state \in {"read", "empty"}
    /\ gets' = [gets EXCEPT ![s] = Free]
    /\ act' = [act EXCEPT !.entries = Newest(gets[s].log), !.loading = FALSE,
                          !.blurred = ~act.calm \/ gets[s].state = "empty"]
    /\ UNCHANGED stream

LoadFails(s) ==
    /\ gets[s].state # "free"
    /\ gets' = [gets EXCEPT ![s] = Free]
    /\ act' = [act EXCEPT !.loading = FALSE]
    /\ UNCHANGED stream

-----------------------------------------------------------------------------
(* The log                                                                 *)

Send(st, entries) == IF st.registered THEN st.queue \o entries ELSE st.queue

(* The lines of the log from the one after the first n. *)
From(n) == [i \in 1..stream.log - n |-> n + i]

(* Another process writes a line.  From a position that is astray it is    *)
(* not read, or not as a whole.                                            *)
EntryWritten ==
    /\ act.mounted /\ stream.log < MaxLog
    /\ stream' = [stream EXCEPT !.log = @ + 1]
    /\ act' = [act EXCEPT !.calm = FALSE,
                          !.blurred = @ \/ ~stream.registered \/ stream.astray]
    /\ UNCHANGED gets

(* The watcher's broadcast of what is beyond the position, without the     *)
(* rest of a line that the position has cut.                               *)
broadcastNewEntries ==
    /\ stream.offset < stream.log
    /\ \E n \in IF stream.astray THEN stream.offset..stream.log ELSE {stream.offset} :
          stream' = [stream EXCEPT !.offset = stream.log, !.astray = FALSE,
                                   !.queue = Send(stream, From(n))]
    /\ act' = [act EXCEPT !.calm = FALSE, !.blurred = @ \/ ~stream.registered]
    /\ UNCHANGED gets

(* Mutant: the position stays. *)
appendActivity_PositionStays(wide, a) ==
    /\ stream.log < MaxLog
    /\ stream' = [stream EXCEPT
          !.log = @ + 1, !.queue = Send(stream, <<stream.log + 1>>)]
    /\ act' = [a EXCEPT !.calm = FALSE,
                        !.blurred = \/ act.blurred \/ ~stream.registered
                                    \/ stream.offset < stream.log]
    /\ UNCHANGED gets

(* The server writes an entry, moves the position by the entry's bytes,    *)
(* wherever it was, and sends the entry.  One that is wide has more bytes  *)
(* than characters.                                                        *)
appendActivity(wide, a) ==
    /\ stream.log < MaxLog
    /\ stream' = [stream EXCEPT
          !.log = @ + 1, !.queue = Send(stream, <<stream.log + 1>>),
          !.offset = IF stream.astray /\ @ < stream.log THEN @ ELSE @ + 1,
          !.astray = @ \/ wide \/ stream.offset < stream.log]
    /\ act' = [a EXCEPT !.calm = FALSE,
                        !.blurred = \/ act.blurred \/ ~stream.registered
                                    \/ stream.offset < stream.log]
    /\ UNCHANGED gets

(* Its own entries, of memos and workflow runs: an arrow or a dash is in   *)
(* each.                                                                   *)
ServerLogs == act.mounted /\ appendActivity(TRUE, act)

(* A document has grown: its entry is written and sent, and the position   *)
(* stays, so that the watcher sends it again.                              *)
handleDocChange ==
    /\ act.mounted /\ stream.log < MaxLog
    /\ stream' = [stream EXCEPT !.log = @ + 1,
                                !.queue = Send(stream, <<stream.log + 1>>)]
    /\ act' = [act EXCEPT !.calm = FALSE, !.blurred = TRUE]
    /\ UNCHANGED gets

(* The position starts from the log's bytes. *)
ServerRestarts ==
    /\ act.mounted /\ ~stream.registered
    /\ \E astray \in BOOLEAN :
          stream' = [stream EXCEPT !.offset = stream.log, !.astray = astray]
    /\ UNCHANGED <<act, gets>>

Capped(entries) ==
    SubSeq(entries, 1, IF Len(entries) < Cap THEN Len(entries) ELSE Cap)

onmessage ==
    /\ act.es = "open" /\ stream.queue # <<>>
    /\ act' = [act EXCEPT !.entries = Capped(<<Head(stream.queue)>> \o @)]
    /\ stream' = [stream EXCEPT !.queue = Tail(@)]
    /\ UNCHANGED gets

-----------------------------------------------------------------------------
(* The connection                                                          *)

ServerAccepts ==
    /\ act.es = "connecting" /\ ~stream.registered
    /\ stream' = [stream EXCEPT !.registered = TRUE, !.queue = <<>>]
    /\ UNCHANGED <<act, gets>>

onopen ==
    /\ act.es = "connecting" /\ stream.registered
    /\ act' = [act EXCEPT !.es = "open", !.live = TRUE]
    /\ UNCHANGED <<gets, stream>>

(* Mutant: the EventSource is closed and nothing is scheduled. *)
onerror_GivesUp ==
    /\ act.es # "none" /\ act.downs < MaxDowns
    /\ act' = [act EXCEPT !.es = "none", !.live = FALSE, !.downs = @ + 1,
                          !.calm = FALSE, !.blurred = TRUE]
    /\ stream' = [stream EXCEPT !.registered = FALSE, !.queue = <<>>]
    /\ UNCHANGED gets

(* The connection breaks, or none is to be had. *)
onerror ==
    /\ act.es # "none" /\ act.downs < MaxDowns
    /\ act' = [act EXCEPT !.es = "none", !.live = FALSE, !.timer = TRUE, !.downs = @ + 1,
                          !.calm = FALSE, !.blurred = TRUE]
    /\ stream' = [stream EXCEPT !.registered = FALSE, !.queue = <<>>]
    /\ UNCHANGED gets

(* The timer, at twice the delay of the time before. *)
Reconnect ==
    /\ act.timer
    /\ act' = [act EXCEPT !.timer = FALSE, !.es = "connecting"]
    /\ UNCHANGED <<gets, stream>>

-----------------------------------------------------------------------------
(* The composer                                                            *)

postEntry ==
    /\ act.mounted /\ ~act.posting
    /\ act' = [act EXCEPT !.posting = TRUE, !.post = "sent"]
    /\ UNCHANGED <<gets, stream>>

ServerFiles ==
    /\ act.post = "sent"
    /\ \E wide \in BOOLEAN : appendActivity(wide, [act EXCEPT !.post = "filed"])

(* load() is awaited and returns at once. *)
PostAnswered ==
    /\ act.post = "filed"
    /\ \E s \in Slots : load([act EXCEPT !.post = "none", !.posting = FALSE], s)
    /\ UNCHANGED stream

(* Nothing catches the rejection: the button stays as it is. *)
PostFails ==
    /\ act.post \in {"sent", "filed"}
    /\ act' = [act EXCEPT !.post = "lost"]
    /\ UNCHANGED <<gets, stream>>

ConnectProgress == ServerAccepts \/ onopen \/ Reconnect

ListProgress == \E s \in Slots : ServerReadsLog(s) \/ LoadAnswered(s) \/ LoadFails(s)

ActNext ==
    \/ Refresh \/ EntryWritten \/ broadcastNewEntries \/ onmessage \/ onerror
    \/ ServerLogs \/ handleDocChange \/ ServerRestarts
    \/ postEntry \/ ServerFiles \/ PostAnswered \/ PostFails
    \/ ConnectProgress \/ ListProgress

-----------------------------------------------------------------------------
(* Properties                                                              *)

Unseen == From(stream.offset)

Reversed(q) == [i \in DOMAIN q |-> q[Len(q) + 1 - i]]

(* From a calm load on, the list with what is on its way before it is the  *)
(* newest of the log, in order, none twice and none left out, until        *)
(*   - the connection breaks, or a load is answered that was not calm, or  *)
(*     that had no data;                                                   *)
(*   - the server writes an entry while another's is not read yet, which   *)
(*     it overtakes and shifts the position into;                          *)
(*   - another process writes after the server wrote an entry with more    *)
(*     bytes than characters, or started on a log with such an entry;      *)
(*   - a document changes, whose entry is sent twice                       *)
(* (ActivityPanel: load, onmessage; server.js: appendActivity,             *)
(* broadcastNewEntries, handleDocChange).                                  *)
StreamExact ==
    ~act.blurred =>
       Capped(Reversed(stream.queue \o Unseen) \o act.entries) = Newest(stream.log)

(* The panel never stops trying: it has an EventSource or a timer, never   *)
(* both; LIVE is said of an open one; and the button of the composer waits *)
(* for an answer, or for ever for one that failed (postEntry).             *)
KeepsTrying ==
    /\ act.mounted => (act.es # "none") # act.timer
    /\ act.live <=> act.es = "open"
    /\ act.es = "open" => stream.registered
    /\ act.posting <=> act.post # "none"

(* A load that nothing answers any more is not waited for. *)
ListSettles == act.loading => ~QuietAct

==============================================================================
