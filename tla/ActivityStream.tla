---------------------------- MODULE ActivityStream ----------------------------
(***************************************************************************)
(* The activity log and its live stream (dashboard/server.js; server/src/  *)
(* activity.rs): processes append lines to ACTIVITY.log, the dashboard     *)
(* among them, and the dashboard tells its SSE clients of each line: of    *)
(* its own when it appends them, of the others when fs.watch says that the *)
(* file changed, from the offset lastLogSize on.                           *)
(*                                                                         *)
(* The file is a sequence of units: an entry (JSON on one line) or a       *)
(* newline.  A unit counts as one character; an entry that is wide (that   *)
(* holds a character beyond ASCII) counts as two bytes.  An offset         *)
(* past an entry's unit stands for one that cuts the entry: what is left   *)
(* of it is malformed, and dropped.  Node runs one callback at a time, so  *)
(* a step of the dashboard is a whole callback.                            *)
(***************************************************************************)
EXTENDS Integers, Sequences, FiniteSets

CONSTANTS
    Runs,       \* GitHub Actions runs, the subjects of CI entries
    Docs,       \* INBOX, OUTBOX, DECISIONS, HEALTH
    Clients,    \* SSE connections
    Wide,       \* the origins whose entries are wide
    MaxUnits,   \* bound of the file
    MaxDoc      \* bound of a document

Origins == {"backend", "post", "doc"} \cup Runs

ASSUME StreamAssumption ==
    /\ MaxUnits \in Nat /\ MaxDoc \in Nat
    /\ Runs \cap {"backend", "post", "doc", "newline"} = {}

VARIABLES
    file,        \* ACTIVITY.log
    writing,     \* the backend has written an entry and not yet its newline
    lastLogSize, \* what was broadcast, in characters or in bytes
    sseClients,  \* the clients connected
    since,       \* history: the length of the file when a client connected
    got,         \* history: got[c][p] = how often the unit at p was sent to c
    aligned,     \* history: since the dashboard started, lastLogSize was
                 \* never moved past units that it did not stand for
    docLen,      \* the length of each document, in characters
    docSizes     \* the length the watcher last took notice of, or the
                 \* size in bytes that the dashboard started on

streamVars == <<file, writing, lastLogSize, sseClients, since, got, aligned,
                docLen, docSizes>>

Unit      == Origins \cup {"newline"}
Positions == 1..MaxUnits

Line(origin) == <<origin, "newline">>

Chars == Len(file)

Bytes == Len(file) + Cardinality({p \in DOMAIN file : file[p] \in Wide})

IsEntry(p) == p \in DOMAIN file /\ file[p] # "newline"

StreamTypeOK ==
    /\ file \in Seq(Unit) /\ Len(file) <= MaxUnits
    /\ writing \in BOOLEAN
    /\ lastLogSize \in Nat
    /\ sseClients \in SUBSET Clients
    /\ since \in [Clients -> 0..MaxUnits]
    /\ got \in [Clients -> [Positions -> Nat]]
    /\ aligned \in BOOLEAN
    /\ docLen \in [Docs -> 0..MaxDoc]
    /\ docSizes \in [Docs -> 0..MaxDoc]

Nothing == [p \in Positions |-> 0]

(* What a start notes of the documents: their sizes in bytes, which are no *)
(* less than the lengths in characters that they are compared with later.  *)
SizesInBytes(lengths) ==
    {sizes \in [Docs -> 0..MaxDoc] : \A d \in Docs : lengths[d] <= sizes[d]}

StreamInit ==
    /\ file = <<>>
    /\ writing = FALSE
    /\ lastLogSize = 0
    /\ sseClients = {}
    /\ since = [c \in Clients |-> 0]
    /\ got = [c \in Clients |-> Nothing]
    /\ aligned = TRUE
    /\ docLen \in [Docs -> 0..MaxDoc]
    /\ docSizes \in SizesInBytes(docLen)

-----------------------------------------------------------------------------
(* Other processes                                                         *)

(* ActivityLogger::emit: writeln! gives the file the line and the newline  *)
(* in two writes.  The mutex is the process's own.                         *)
WriteEntry ==
    /\ ~writing
    /\ Len(file) < MaxUnits
    /\ file' = Append(file, "backend")
    /\ writing' = TRUE
    /\ UNCHANGED <<lastLogSize, sseClients, since, got, aligned, docLen, docSizes>>

WriteNewline ==
    /\ writing
    /\ Len(file) < MaxUnits
    /\ file' = Append(file, "newline")
    /\ writing' = FALSE
    /\ UNCHANGED <<lastLogSize, sseClients, since, got, aligned, docLen, docSizes>>

(* The backend ends between the two writes. *)
BackendEnds ==
    /\ writing
    /\ writing' = FALSE
    /\ UNCHANGED <<file, lastLogSize, sseClients, since, got, aligned, docLen, docSizes>>

(* An agent rewrites a document. *)
EditDoc(d) ==
    /\ \E length \in 0..MaxDoc : docLen' = [docLen EXCEPT ![d] = length]
    /\ UNCHANGED <<file, writing, lastLogSize, sseClients, since, got, aligned, docSizes>>

-----------------------------------------------------------------------------
(* The dashboard                                                           *)

(* What the clients were sent once these units are sent to all of them. *)
Sent(units) ==
    [c \in Clients |->
        IF c \in sseClients
        THEN [p \in Positions |-> IF p \in units THEN got[c][p] + 1 ELSE got[c][p]]
        ELSE got[c]]

(* appendActivity: append, count the bytes, broadcast. *)
appendActivity(origin) ==
    /\ Len(file) + 2 <= MaxUnits
    /\ file' = file \o Line(origin)
    /\ lastLogSize' = lastLogSize + (IF origin \in Wide THEN 3 ELSE 2)
    /\ got' = Sent({Len(file) + 1})
    /\ aligned' = (aligned /\ lastLogSize = Chars /\ origin \notin Wide)
    /\ UNCHANGED <<writing, sseClients, since, docLen, docSizes>>

PostActivity == appendActivity("post")

(* The entry at p is a line of its own in what is read from an offset on. *)
Parses(offset, p) ==
    /\ p > offset /\ IsEntry(p)
    /\ ~(p - 1 > offset /\ IsEntry(p - 1))
    /\ ~IsEntry(p + 1)

Readable(p) == Parses(0, p)

(* Mutant: the offset stays behind at the last entry. *)
broadcastNewEntries_Behind ==
    /\ Chars > lastLogSize
    /\ got' = Sent({p \in DOMAIN file : Parses(lastLogSize, p)})
    /\ lastLogSize' = Chars - 1
    /\ UNCHANGED <<file, writing, sseClients, since, aligned, docLen, docSizes>>

(* Mutant: an entry whose newline is not there yet is left out. *)
broadcastNewEntries_Whole ==
    /\ Chars > lastLogSize
    /\ got' = Sent({p \in DOMAIN file : Parses(lastLogSize, p) /\ p < Chars})
    /\ lastLogSize' = Chars
    /\ UNCHANGED <<file, writing, sseClients, since, aligned, docLen, docSizes>>

(* Mutant: what is no more than a newline is not looked at. *)
broadcastNewEntries_Late ==
    /\ Chars > lastLogSize + 1
    /\ got' = Sent({p \in DOMAIN file : Parses(lastLogSize, p)})
    /\ lastLogSize' = Chars
    /\ UNCHANGED <<file, writing, sseClients, since, aligned, docLen, docSizes>>

(* fs.watch reports a change of the log. *)
broadcastNewEntries ==
    /\ Chars > lastLogSize
    /\ got' = Sent({p \in DOMAIN file : Parses(lastLogSize, p)})
    /\ lastLogSize' = Chars
    /\ UNCHANGED <<file, writing, sseClients, since, aligned, docLen, docSizes>>

(* fs.watch reports a change of a document.  Only growth counts.  The      *)
(* entry it gives rise to (INBOX.md may give none) is appended and sent,   *)
(* and lastLogSize stays where it is.                                      *)
handleDocChange(d) ==
    /\ docLen[d] > docSizes[d]
    /\ docSizes' = [docSizes EXCEPT ![d] = docLen[d]]
    /\ \/ /\ Len(file) + 2 <= MaxUnits
          /\ file' = file \o Line("doc")
          /\ got' = Sent({Len(file) + 1})
       \/ UNCHANGED <<file, got>>
    /\ UNCHANGED <<writing, lastLogSize, sseClients, since, aligned, docLen>>

Connect(c) ==
    /\ c \notin sseClients
    /\ sseClients' = sseClients \cup {c}
    /\ since' = [since EXCEPT ![c] = Len(file)]
    /\ UNCHANGED <<file, writing, lastLogSize, got, aligned, docLen, docSizes>>

(* The connection is closed, or a write to it fails. *)
Disconnect(c) ==
    /\ c \in sseClients
    /\ sseClients' = sseClients \ {c}
    /\ since' = [since EXCEPT ![c] = 0]
    /\ got' = [got EXCEPT ![c] = Nothing]
    /\ UNCHANGED <<file, writing, lastLogSize, aligned, docLen, docSizes>>

(* The dashboard ends and starts again. *)
StreamRestart ==
    /\ sseClients' = {}
    /\ since' = [c \in Clients |-> 0]
    /\ got' = [c \in Clients |-> Nothing]
    /\ lastLogSize' = Bytes
    /\ aligned' = (Bytes = Chars)
    /\ docSizes' \in SizesInBytes(docLen)
    /\ UNCHANGED <<file, writing, docLen>>

OthersStep ==
    \/ WriteEntry
    \/ WriteNewline
    \/ BackendEnds
    \/ \E d \in Docs : EditDoc(d)

StreamStep ==
    \/ PostActivity
    \/ broadcastNewEntries
    \/ \E d \in Docs : handleDocChange(d)
    \/ \E c \in Clients : Connect(c) \/ Disconnect(c)

StreamNext == OthersStep \/ StreamStep \/ StreamRestart

(* fs.watch calls back after the log has changed. *)
StreamSpec ==
    /\ StreamInit /\ [][StreamNext]_streamVars
    /\ WF_streamVars(broadcastNewEntries)

-----------------------------------------------------------------------------
(* Properties                                                              *)

(* No client is sent a line of another process twice, and none of the      *)
(* dashboard's own more than twice, whatever lastLogSize counts, however   *)
(* appends, watches and partial lines interleave, and however often the    *)
(* watcher fires.                                                          *)
SentBounded ==
    \A c \in Clients : \A p \in DOMAIN file :
        got[c][p] <= (IF file[p] = "backend" THEN 1 ELSE 2)

(* As long as lastLogSize is aligned, that is, the dashboard started on    *)
(* an ASCII file and appended only ASCII, and only when it had nothing     *)
(* left to read, no line is passed over: every line before the offset that *)
(* can be read went to every client that was connected when it was begun.  *)
AlignedDelivers ==
    aligned =>
        \A c \in sseClients : \A p \in DOMAIN file :
            since[c] < p /\ p <= lastLogSize /\ Readable(p) => got[c][p] >= 1

(* As long as lastLogSize is aligned, every line that can be read goes to  *)
(* every client that was connected before and stays.                       *)
AlignedFollows ==
    \A c \in Clients : \A p \in Positions :
        c \in sseClients /\ since[c] < p /\ IsEntry(p)
            ~> got[c][p] >= 1 \/ c \notin sseClients \/ ~aligned \/ ~Readable(p)

(* "Backend (Rust) and Claude tool hooks write here directly; this picks   *)
(* them up" (server.js): no line of the backend is passed over.            *)
(* It does not hold: see the README, known divergences.                    *)
LinesPickedUp ==
    \A c \in sseClients : \A p \in DOMAIN file :
        since[c] < p /\ p <= lastLogSize /\ Readable(p) => got[c][p] >= 1

-----------------------------------------------------------------------------
(* The inductive invariant                                                 *)

(* What is behind the offset or not in the file yet was not sent by the    *)
(* watcher.                                                                *)
SentInv ==
    \A c \in Clients : \A p \in Positions :
        /\ p > Len(file) => got[c][p] = 0
        /\ p <= Len(file) => got[c][p] <= (IF file[p] = "backend" THEN 1 ELSE 2)
        /\ p <= Len(file) /\ p > lastLogSize
               => got[c][p] <= (IF file[p] = "backend" THEN 0 ELSE 1)

AlignedInv == (aligned => lastLogSize <= Len(file)) /\ AlignedDelivers

StreamInv == StreamTypeOK /\ SentInv /\ AlignedInv

==============================================================================
