----------------------------- MODULE StreamProofs -----------------------------
(* The safety properties of the live stream, alone and beside the CI       *)
(* poller, and the poller's own: it logs a run once and only when it was   *)
(* completed.  For any number of clients, documents, runs and polls, and a *)
(* log of any length.                                                      *)
EXTENDS CiPoller, FiniteSetTheorems, TLAPS

USE StreamAssumption DEF StreamAssumption

(* The length of the log in bytes is a natural number. *)
LEMMA BytesType == ASSUME StreamTypeOK PROVE Bytes \in Nat
<1>1. IsFiniteSet(1..Len(file))
  BY FS_Interval DEF StreamTypeOK
<1>2. IsFiniteSet({p \in DOMAIN file : file[p] \in Wide})
  <2>1. {p \in DOMAIN file : file[p] \in Wide} \subseteq 1..Len(file)
    BY DEF StreamTypeOK
  <2> QED BY <1>1, <2>1, FS_Subset
<1>3. Cardinality({p \in DOMAIN file : file[p] \in Wide}) \in Nat
  BY <1>2, FS_CardinalityType
<1> QED BY <1>3 DEF Bytes, StreamTypeOK

(* What the clients have got stays a table of numbers. *)
LEMMA SentType ==
    ASSUME StreamTypeOK, NEW units
    PROVE  Sent(units) \in [Clients -> [Positions -> Nat]]
BY DEF StreamTypeOK, Sent

LEMMA NothingType == Nothing \in [Positions -> Nat]
BY DEF Nothing

-----------------------------------------------------------------------------
(* Types                                                                   *)

LEMMA TypeInit == StreamInit => StreamTypeOK
<1> SUFFICES ASSUME StreamInit PROVE StreamTypeOK
  OBVIOUS
<1>1. file \in Seq(Unit) /\ Len(file) <= MaxUnits
  BY DEF StreamInit
<1>2. got \in [Clients -> [Positions -> Nat]]
  BY NothingType DEF StreamInit
<1>3. since \in [Clients -> 0..MaxUnits]
  BY DEF StreamInit
<1> QED BY <1>1, <1>2, <1>3 DEF StreamInit, StreamTypeOK, SizesInBytes

LEMMA TypeAppend ==
    ASSUME StreamTypeOK, NEW origin \in Origins, appendActivity(origin)
    PROVE  StreamTypeOK'
<1>1. file' \in Seq(Unit) /\ Len(file') <= MaxUnits
  BY DEF StreamTypeOK, appendActivity, Line, Unit
<1>2. got' \in [Clients -> [Positions -> Nat]]
  BY SentType DEF appendActivity
<1>3. lastLogSize' \in Nat /\ aligned' \in BOOLEAN
  BY DEF StreamTypeOK, appendActivity
<1> QED BY <1>1, <1>2, <1>3 DEF StreamTypeOK, appendActivity

LEMMA TypeStep ==
    ASSUME StreamTypeOK, [StreamNext]_streamVars
    PROVE  StreamTypeOK'
<1>1. CASE WriteEntry
  <2>1. file' \in Seq(Unit) /\ Len(file') <= MaxUnits
    BY <1>1 DEF WriteEntry, StreamTypeOK, Unit, Origins
  <2> QED BY <1>1, <2>1 DEF WriteEntry, StreamTypeOK
<1>2. CASE WriteNewline
  <2>1. file' \in Seq(Unit) /\ Len(file') <= MaxUnits
    BY <1>2 DEF WriteNewline, StreamTypeOK, Unit
  <2> QED BY <1>2, <2>1 DEF WriteNewline, StreamTypeOK
<1>3. CASE BackendEnds
  BY <1>3 DEF BackendEnds, StreamTypeOK
<1>4. CASE \E d \in Docs : EditDoc(d)
  BY <1>4 DEF EditDoc, StreamTypeOK
<1>5. CASE PostActivity
  BY <1>5, TypeAppend DEF PostActivity, Origins
<1>6. CASE broadcastNewEntries
  <2>1. got' \in [Clients -> [Positions -> Nat]]
    BY <1>6, SentType DEF broadcastNewEntries
  <2>2. lastLogSize' \in Nat
    BY <1>6 DEF broadcastNewEntries, StreamTypeOK, Chars
  <2> QED BY <1>6, <2>1, <2>2 DEF broadcastNewEntries, StreamTypeOK
<1>7. ASSUME NEW d \in Docs, handleDocChange(d) PROVE StreamTypeOK'
  <2>1. file' \in Seq(Unit) /\ Len(file') <= MaxUnits
    <3>1. CASE UNCHANGED file
      BY <3>1 DEF StreamTypeOK
    <3>2. CASE Len(file) + 2 <= MaxUnits /\ file' = file \o Line("doc")
      BY <3>2 DEF StreamTypeOK, Line, Unit, Origins
    <3> QED BY <1>7, <3>1, <3>2 DEF handleDocChange
  <2>2. got' \in [Clients -> [Positions -> Nat]]
    BY <1>7, SentType DEF handleDocChange, StreamTypeOK
  <2> QED BY <1>7, <2>1, <2>2 DEF handleDocChange, StreamTypeOK
<1>8. ASSUME NEW c \in Clients, Connect(c) PROVE StreamTypeOK'
  BY <1>8 DEF Connect, StreamTypeOK
<1>9. ASSUME NEW c \in Clients, Disconnect(c) PROVE StreamTypeOK'
  BY <1>9, NothingType DEF Disconnect, StreamTypeOK
<1>10. CASE StreamRestart
  BY <1>10, NothingType, BytesType DEF StreamRestart, StreamTypeOK, Chars, SizesInBytes
<1>11. CASE UNCHANGED streamVars
  BY <1>11 DEF streamVars, StreamTypeOK
<1> QED
  BY <1>1, <1>2, <1>3, <1>4, <1>5, <1>6, <1>7, <1>8, <1>9, <1>10, <1>11
  DEF StreamNext, OthersStep, StreamStep

-----------------------------------------------------------------------------
(* Who was sent what                                                       *)

(* The file only grows: what was in it stays, and an entry that can be     *)
(* read afterwards could be read before.                                   *)
Grows(n) ==
    /\ file' \in Seq(Unit)
    /\ Len(file') = Len(file) + n
    /\ \A p \in 1..Len(file) : file'[p] = file[p]

LEMMA StaysReadable ==
    ASSUME StreamTypeOK, NEW n \in Nat, Grows(n),
           NEW p \in 1..Len(file), Readable(p)'
    PROVE  Readable(p)
BY DEF StreamTypeOK, Grows, Readable, Parses, IsEntry

LEMMA LineGrows ==
    ASSUME StreamTypeOK, NEW origin \in Origins, file' = file \o Line(origin)
    PROVE  /\ Grows(2)
           /\ file'[Len(file) + 1] = origin
           /\ file'[Len(file) + 2] = "newline"
BY DEF StreamTypeOK, Grows, Line, Unit

LEMMA UnitGrows ==
    ASSUME StreamTypeOK, NEW unit \in Unit, file' = Append(file, unit)
    PROVE  Grows(1) /\ file'[Len(file) + 1] = unit
BY DEF StreamTypeOK, Grows

(* A step that sends the entry of the line that it appends. *)
LEMMA SentAppend ==
    ASSUME StreamTypeOK, SentInv, NEW origin \in Origins, origin # "backend",
           Len(file) + 2 <= MaxUnits, file' = file \o Line(origin),
           got' = Sent({Len(file) + 1}), lastLogSize' \in Nat, lastLogSize' >= lastLogSize
    PROVE  SentInv'
<1>1. Grows(2) /\ file'[Len(file) + 1] = origin /\ file'[Len(file) + 2] = "newline"
  BY LineGrows
<1>2. SUFFICES ASSUME NEW c \in Clients, NEW p \in Positions
      PROVE  /\ p > Len(file') => got'[c][p] = 0
             /\ p <= Len(file') => got'[c][p] <= (IF file'[p] = "backend" THEN 1 ELSE 2)
             /\ p <= Len(file') /\ p > lastLogSize'
                    => got'[c][p] <= (IF file'[p] = "backend" THEN 0 ELSE 1)
  BY DEF SentInv
<1>3. /\ Len(file) \in Nat /\ p \in Nat /\ lastLogSize \in Nat /\ got[c][p] \in Nat
      /\ Len(file') = Len(file) + 2
  BY <1>1 DEF StreamTypeOK, Positions, Grows
<1>4. CASE p = Len(file) + 1
  <2>1. got[c][p] = 0
    BY <1>3, <1>4 DEF SentInv
  <2>2. got'[c][p] \in {0, 1}
    BY <2>1 DEF Sent, StreamTypeOK
  <2> QED BY <1>1, <1>3, <1>4, <2>2
<1>5. CASE p # Len(file) + 1
  <2>1. got'[c][p] = got[c][p]
    BY <1>5 DEF Sent, StreamTypeOK
  <2>2. CASE p <= Len(file)
    <3>1. file'[p] = file[p]
      BY <1>1, <1>3, <2>2 DEF Grows, Positions
    <3> QED BY <1>3, <2>1, <2>2, <3>1 DEF SentInv
  <2>3. CASE ~(p <= Len(file))
    <3>1. got'[c][p] = 0
      BY <1>3, <2>1, <2>3 DEF SentInv
    <3>2. 0 <= (IF file'[p] = "backend" THEN 1 ELSE 2)
          /\ 0 <= (IF file'[p] = "backend" THEN 0 ELSE 1)
      OBVIOUS
    <3> QED BY <3>1, <3>2
  <2> QED BY <2>2, <2>3
<1> QED BY <1>4, <1>5

(* A step of another process that appends a unit. *)
LEMMA SentGrow ==
    ASSUME StreamTypeOK, SentInv, Grows(1), UNCHANGED <<got, lastLogSize>>
    PROVE  SentInv'
<1>1. SUFFICES ASSUME NEW c \in Clients, NEW p \in Positions
      PROVE  /\ p > Len(file') => got[c][p] = 0
             /\ p <= Len(file') => got[c][p] <= (IF file'[p] = "backend" THEN 1 ELSE 2)
             /\ p <= Len(file') /\ p > lastLogSize
                    => got[c][p] <= (IF file'[p] = "backend" THEN 0 ELSE 1)
  BY DEF SentInv
<1>2. /\ Len(file) \in Nat /\ p \in Nat /\ Len(file') = Len(file) + 1
  BY DEF StreamTypeOK, Positions, Grows
<1>3. CASE p <= Len(file)
  <2>1. file'[p] = file[p]
    BY <1>2, <1>3 DEF Grows, Positions
  <2> QED BY <1>2, <1>3, <2>1 DEF SentInv
<1>4. CASE p > Len(file)
  BY <1>2, <1>4 DEF SentInv
<1> QED BY <1>2, <1>3, <1>4

LEMMA SentInit == StreamInit => SentInv
BY DEF StreamInit, SentInv, Nothing, Positions

LEMMA SentStep ==
    ASSUME StreamTypeOK, SentInv,
           [StreamNext \/ \E r \in Runs : appendActivity(r) ]_streamVars
    PROVE  SentInv'
<1>1. CASE WriteEntry
  <2>1. Grows(1)
    BY <1>1, UnitGrows DEF WriteEntry, Unit, Origins
  <2> QED BY <1>1, <2>1, SentGrow DEF WriteEntry
<1>2. CASE WriteNewline
  <2>1. Grows(1)
    BY <1>2, UnitGrows DEF WriteNewline, Unit
  <2> QED BY <1>2, <2>1, SentGrow DEF WriteNewline
<1>3. CASE BackendEnds
  BY <1>3 DEF BackendEnds, SentInv
<1>4. CASE \E d \in Docs : EditDoc(d)
  BY <1>4 DEF EditDoc, SentInv
<1>5. ASSUME NEW origin \in Runs \cup {"post"}, appendActivity(origin)
      PROVE  SentInv'
  <2>1. lastLogSize' \in Nat /\ lastLogSize' >= lastLogSize
    BY <1>5 DEF appendActivity, StreamTypeOK
  <2>2. origin \in Origins /\ origin # "backend"
    BY DEF Origins
  <2> QED BY <1>5, <2>1, <2>2, SentAppend DEF appendActivity
<1>6. CASE broadcastNewEntries
  <2> SUFFICES ASSUME NEW c \in Clients, NEW p \in Positions
      PROVE  /\ p > Len(file') => got'[c][p] = 0
             /\ p <= Len(file') => got'[c][p] <= (IF file'[p] = "backend" THEN 1 ELSE 2)
             /\ p <= Len(file') /\ p > lastLogSize'
                    => got'[c][p] <= (IF file'[p] = "backend" THEN 0 ELSE 1)
    BY DEF SentInv
  <2>1. file' = file /\ lastLogSize' = Len(file)
    BY <1>6 DEF broadcastNewEntries, Chars
  <2>2. Len(file) \in Nat /\ p \in Nat /\ lastLogSize \in Nat /\ got[c][p] \in Nat
    BY DEF StreamTypeOK, Positions
  <2>3. CASE p \in DOMAIN file /\ Parses(lastLogSize, p)
    <3>1. p <= Len(file) /\ p > lastLogSize
      BY <2>2, <2>3 DEF Parses, StreamTypeOK
    <3>2. got'[c][p] \in {got[c][p], got[c][p] + 1}
      BY <1>6 DEF broadcastNewEntries, Sent, StreamTypeOK
    <3>3. got[c][p] <= (IF file[p] = "backend" THEN 0 ELSE 1)
      BY <3>1 DEF SentInv
    <3>4. got'[c][p] <= (IF file[p] = "backend" THEN 1 ELSE 2)
      BY <2>2, <3>2, <3>3
    <3> QED BY <2>1, <2>2, <3>1, <3>4
  <2>4. CASE ~(p \in DOMAIN file /\ Parses(lastLogSize, p))
    <3>1. got'[c][p] = got[c][p]
      BY <1>6, <2>4 DEF broadcastNewEntries, Sent, StreamTypeOK
    <3> QED BY <2>1, <2>2, <3>1 DEF SentInv
  <2> QED BY <2>3, <2>4
<1>7. ASSUME NEW d \in Docs, handleDocChange(d) PROVE SentInv'
  <2>1. CASE UNCHANGED <<file, got>>
    BY <1>7, <2>1 DEF handleDocChange, SentInv
  <2>2. CASE ~UNCHANGED <<file, got>>
    <3>1. /\ Len(file) + 2 <= MaxUnits /\ file' = file \o Line("doc")
          /\ got' = Sent({Len(file) + 1}) /\ lastLogSize' = lastLogSize
      BY <1>7, <2>2 DEF handleDocChange
    <3>2. lastLogSize' \in Nat /\ lastLogSize' >= lastLogSize
      BY <3>1 DEF StreamTypeOK
    <3> QED BY <3>1, <3>2, SentAppend DEF Origins
  <2> QED BY <2>1, <2>2
<1>8. ASSUME NEW c \in Clients, Connect(c) PROVE SentInv'
  BY <1>8 DEF Connect, SentInv
<1>9. ASSUME NEW c \in Clients, Disconnect(c) PROVE SentInv'
  <2>1. \A k \in Clients : got'[k] \in {got[k], Nothing}
    BY <1>9 DEF Disconnect, StreamTypeOK
  <2> QED BY <1>9, <2>1 DEF Disconnect, SentInv, Nothing
<1>10. CASE StreamRestart
  BY <1>10 DEF StreamRestart, SentInv, Nothing
<1>11. CASE UNCHANGED streamVars
  BY <1>11 DEF streamVars, SentInv
<1> QED
  BY <1>1, <1>2, <1>3, <1>4, <1>5, <1>6, <1>7, <1>8, <1>9, <1>10, <1>11
  DEF StreamNext, OthersStep, StreamStep, PostActivity

-----------------------------------------------------------------------------
(* An aligned offset passes nothing over                                   *)

(* A step that appends to the file, sends what it will, and leaves the     *)
(* offset where it is.                                                     *)
LEMMA AlignedGrow ==
    ASSUME StreamTypeOK, StreamTypeOK', AlignedInv, NEW n \in Nat, Grows(n),
           UNCHANGED <<sseClients, since>>, aligned' => aligned,
           lastLogSize' = lastLogSize,
           \A c \in Clients, p \in Positions : got'[c][p] >= got[c][p]
    PROVE  AlignedInv'
<1> SUFFICES ASSUME aligned'
    PROVE  /\ lastLogSize' <= Len(file')
           /\ \A c \in sseClients : \A p \in DOMAIN file' :
                  since[c] < p /\ p <= lastLogSize /\ Readable(p)' => got'[c][p] >= 1
  BY DEF AlignedInv, AlignedDelivers
<1>1. lastLogSize <= Len(file) /\ Len(file) \in Nat /\ lastLogSize \in Nat
      /\ Len(file') = Len(file) + n /\ DOMAIN file' = 1..Len(file') /\ Len(file) <= MaxUnits
  BY DEF AlignedInv, StreamTypeOK, Grows
<1>2. ASSUME NEW c \in sseClients, NEW p \in DOMAIN file',
             since[c] < p, p <= lastLogSize, Readable(p)'
      PROVE  got'[c][p] >= 1
  <2>1. p \in 1..Len(file) /\ p \in DOMAIN file /\ p \in Positions /\ c \in Clients
    <3>1. c \in Clients
      BY DEF StreamTypeOK
    <3>2. DOMAIN file = 1..Len(file)
      BY DEF StreamTypeOK
    <3>3. p \in 1..Len(file)
      BY <1>1, <1>2
    <3> QED BY <1>1, <3>1, <3>2, <3>3 DEF Positions
  <2>2. Readable(p)
    BY <1>2, <2>1, StaysReadable
  <2>3. got[c][p] >= 1
    BY <1>2, <2>1, <2>2 DEF AlignedInv, AlignedDelivers
  <2>4. got'[c][p] >= got[c][p]
    BY <2>1
  <2>5. got[c][p] \in Nat
    BY <2>1 DEF StreamTypeOK
  <2>6. got'[c][p] \in Int
    BY <2>1 DEF StreamTypeOK
  <2> QED BY <2>3, <2>4, <2>5, <2>6
<1> QED BY <1>1, <1>2

(* Sending never takes back what was sent. *)
LEMMA SentGrows ==
    ASSUME StreamTypeOK, NEW units, NEW c \in Clients, NEW p \in Positions
    PROVE  Sent(units)[c][p] >= got[c][p]
BY DEF Sent, StreamTypeOK

LEMMA AlignedAppend ==
    ASSUME StreamTypeOK, StreamTypeOK', AlignedInv,
           NEW origin \in Origins, appendActivity(origin)
    PROVE  AlignedInv'
<1> SUFFICES ASSUME aligned'
    PROVE  /\ lastLogSize' <= Len(file')
           /\ \A c \in sseClients : \A p \in DOMAIN file' :
                  since[c] < p /\ p <= lastLogSize' /\ Readable(p)' => got'[c][p] >= 1
  BY DEF AlignedInv, AlignedDelivers, appendActivity
<1>1. aligned /\ lastLogSize = Len(file) /\ lastLogSize' = Len(file) + 2
  BY DEF appendActivity, Chars, StreamTypeOK
<1>2. Grows(2) /\ file'[Len(file) + 2] = "newline"
  BY LineGrows DEF appendActivity
<1>3. /\ Len(file) \in Nat /\ Len(file) <= MaxUnits
      /\ Len(file') = Len(file) + 2 /\ DOMAIN file' = 1..Len(file')
  BY <1>2 DEF StreamTypeOK, Grows
<1>4. ASSUME NEW c \in sseClients, NEW p \in DOMAIN file', since[c] < p, Readable(p)'
      PROVE  got'[c][p] >= 1
  <2>1. c \in Clients /\ p \in Positions /\ p \in Nat
    BY <1>3 DEF StreamTypeOK, Positions
  <2>2. got' = Sent({Len(file) + 1}) /\ got[c][p] \in Nat /\ got'[c][p] \in Nat
    <3>1. got[c][p] \in Nat /\ got'[c][p] \in Nat
      BY <2>1 DEF StreamTypeOK
    <3> QED BY <3>1 DEF appendActivity
  <2>3. CASE p <= Len(file)
    <3>1. p \in 1..Len(file) /\ p \in DOMAIN file
      BY <1>3, <2>1, <2>3 DEF StreamTypeOK
    <3>2. Readable(p)
      BY <1>2, <1>4, <3>1, StaysReadable
    <3>3. got[c][p] >= 1
      BY <1>1, <1>4, <2>3, <3>1, <3>2 DEF AlignedInv, AlignedDelivers
    <3>4. got'[c][p] >= got[c][p]
      BY <2>1, <2>2, SentGrows
    <3> QED BY <2>2, <3>3, <3>4
  <2>4. CASE p = Len(file) + 1
    <3>1. got'[c][p] = got[c][p] + 1
      BY <2>1, <2>2, <2>4 DEF Sent
    <3> QED BY <2>2, <3>1
  <2>5. CASE p = Len(file) + 2
    BY <1>2, <1>4, <2>5 DEF Readable, Parses, IsEntry
  <2> QED BY <1>3, <2>1, <2>3, <2>4, <2>5
<1> QED BY <1>1, <1>3, <1>4

LEMMA AlignedBroadcast ==
    ASSUME StreamTypeOK, StreamTypeOK', AlignedInv, broadcastNewEntries
    PROVE  AlignedInv'
<1> SUFFICES ASSUME aligned
    PROVE  /\ lastLogSize' <= Len(file')
           /\ \A c \in sseClients : \A p \in DOMAIN file :
                  since[c] < p /\ p <= lastLogSize' /\ Readable(p) => got'[c][p] >= 1
  BY DEF AlignedInv, AlignedDelivers, broadcastNewEntries, Readable, Parses, IsEntry
<1>1. /\ lastLogSize' = Len(file) /\ file' = file /\ Len(file) \in Nat
      /\ Len(file) <= MaxUnits /\ DOMAIN file = 1..Len(file) /\ lastLogSize \in Nat
  BY DEF broadcastNewEntries, Chars, StreamTypeOK
<1>2. ASSUME NEW c \in sseClients, NEW p \in DOMAIN file, since[c] < p, Readable(p)
      PROVE  got'[c][p] >= 1
  <2>1. c \in Clients /\ p \in Positions /\ p \in Nat
    BY <1>1 DEF StreamTypeOK, Positions
  <2>2. got' = Sent({q \in DOMAIN file : Parses(lastLogSize, q)})
    BY DEF broadcastNewEntries
  <2>3. got[c][p] \in Nat /\ got'[c][p] \in Nat
    BY <2>1 DEF StreamTypeOK
  <2>4. CASE p <= lastLogSize
    <3>1. got[c][p] >= 1
      BY <1>2, <2>4 DEF AlignedInv, AlignedDelivers
    <3>2. got'[c][p] >= got[c][p]
      BY <2>1, <2>2, SentGrows
    <3> QED BY <2>3, <3>1, <3>2
  <2>5. CASE p > lastLogSize
    <3>1. Parses(lastLogSize, p)
      BY <1>1, <1>2, <2>1, <2>5 DEF Readable, Parses
    <3>2. got'[c][p] = got[c][p] + 1
      BY <1>2, <2>1, <2>2, <3>1 DEF Sent
    <3> QED BY <2>3, <3>2
  <2> QED BY <1>1, <2>1, <2>4, <2>5
<1> QED BY <1>1, <1>2

LEMMA AlignedInit == StreamInit => AlignedInv
BY DEF StreamInit, AlignedInv, AlignedDelivers

LEMMA AlignedStep ==
    ASSUME StreamTypeOK, StreamTypeOK', AlignedInv,
           [StreamNext \/ \E r \in Runs : appendActivity(r)]_streamVars
    PROVE  AlignedInv'
<1>g. \A c \in Clients, p \in Positions : got[c][p] >= got[c][p]
  BY DEF StreamTypeOK
<1>1. CASE WriteEntry
  <2>1. Grows(1)
    BY <1>1, UnitGrows DEF WriteEntry, Unit, Origins
  <2> QED BY <1>1, <1>g, <2>1, AlignedGrow DEF WriteEntry
<1>2. CASE WriteNewline
  <2>1. Grows(1)
    BY <1>2, UnitGrows DEF WriteNewline, Unit
  <2> QED BY <1>2, <1>g, <2>1, AlignedGrow DEF WriteNewline
<1>3. CASE BackendEnds
  BY <1>3 DEF BackendEnds, AlignedInv, AlignedDelivers, Readable, Parses, IsEntry
<1>4. CASE \E d \in Docs : EditDoc(d)
  BY <1>4 DEF EditDoc, AlignedInv, AlignedDelivers, Readable, Parses, IsEntry
<1>5. ASSUME NEW origin \in Runs \cup {"post"}, appendActivity(origin)
      PROVE  AlignedInv'
  BY <1>5, AlignedAppend DEF Origins
<1>6. CASE broadcastNewEntries
  BY <1>6, AlignedBroadcast
<1>7. ASSUME NEW d \in Docs, handleDocChange(d) PROVE AlignedInv'
  <2>1. CASE UNCHANGED <<file, got>>
    BY <1>7, <2>1
    DEF handleDocChange, AlignedInv, AlignedDelivers, Readable, Parses, IsEntry
  <2>2. CASE ~UNCHANGED <<file, got>>
    <3>1. file' = file \o Line("doc") /\ got' = Sent({Len(file) + 1})
      BY <1>7, <2>2 DEF handleDocChange
    <3>2. Grows(2)
      BY <3>1, LineGrows DEF Origins
    <3>3. \A c \in Clients, p \in Positions : got'[c][p] >= got[c][p]
      BY <3>1, SentGrows
    <3> QED BY <1>7, <3>2, <3>3, AlignedGrow DEF handleDocChange
  <2> QED BY <2>1, <2>2
<1>8. ASSUME NEW c \in Clients, Connect(c) PROVE AlignedInv'
  <2>1. \A k \in sseClients' :
            (k \in sseClients /\ since'[k] = since[k]) \/ since'[k] = Len(file)
    BY <1>8 DEF Connect, StreamTypeOK
  <2>2. /\ UNCHANGED <<file, lastLogSize, got, aligned>>
        /\ Len(file) \in Nat /\ DOMAIN file = 1..Len(file)
    BY <1>8 DEF Connect, StreamTypeOK
  <2> QED BY <2>1, <2>2 DEF AlignedInv, AlignedDelivers, Readable, Parses, IsEntry
<1>9. ASSUME NEW c \in Clients, Disconnect(c) PROVE AlignedInv'
  <2>1. \A k \in sseClients' : k \in sseClients /\ since'[k] = since[k] /\ got'[k] = got[k]
    BY <1>9 DEF Disconnect, StreamTypeOK
  <2> QED BY <1>9, <2>1
      DEF Disconnect, AlignedInv, AlignedDelivers, Readable, Parses, IsEntry
<1>10. CASE StreamRestart
  <2>1. sseClients' = {} /\ file' = file /\ lastLogSize' = Bytes
    BY <1>10 DEF StreamRestart
  <2>2. aligned' => Bytes = Len(file)
    BY <1>10 DEF StreamRestart, Chars
  <2>3. aligned' => lastLogSize' <= Len(file')
    BY <2>1, <2>2 DEF StreamTypeOK
  <2> QED BY <2>1, <2>3 DEF AlignedInv, AlignedDelivers
<1>11. CASE UNCHANGED streamVars
  BY <1>11 DEF streamVars, AlignedInv, AlignedDelivers, Readable, Parses, IsEntry
<1> QED
  BY <1>1, <1>2, <1>3, <1>4, <1>5, <1>6, <1>7, <1>8, <1>9, <1>10, <1>11
  DEF StreamNext, OthersStep, StreamStep, PostActivity

-----------------------------------------------------------------------------
(* The theorems                                                            *)

(* What the stream has sent and where its offset stands is inductive, also *)
(* when the CI poller appends to the log.                                  *)
THEOREM StreamInvStep ==
    ASSUME StreamInv, [StreamNext \/ \E r \in Runs : appendActivity(r)]_streamVars
    PROVE  StreamInv'
<1>1. StreamTypeOK'
  <2>1. CASE [StreamNext]_streamVars
    BY <2>1, TypeStep DEF StreamInv
  <2>2. CASE \E r \in Runs : appendActivity(r)
    BY <2>2, TypeAppend DEF StreamInv, Origins
  <2> QED BY <2>1, <2>2
<1>2. SentInv'
  BY SentStep DEF StreamInv
<1>3. AlignedInv'
  BY <1>1, AlignedStep DEF StreamInv
<1> QED BY <1>1, <1>2, <1>3 DEF StreamInv

LEMMA StreamInvInit == StreamInit => StreamInv
BY TypeInit, SentInit, AlignedInit DEF StreamInv

(* The invariant holds of the stream in every state. *)
THEOREM StreamInvariance == StreamSpec => []StreamInv
<1>1. StreamInv /\ [StreamNext]_streamVars => StreamInv'
  BY StreamInvStep
<1> QED BY <1>1, StreamInvInit, PTL DEF StreamSpec

(* Types: the log is one of entries and newlines, the offset a number. *)
THEOREM StreamTypeCorrect == StreamSpec => []StreamTypeOK
BY StreamInvariance, PTL DEF StreamInv

LEMMA InvBounds == StreamInv => SentBounded
<1> SUFFICES ASSUME StreamInv, NEW c \in Clients, NEW p \in DOMAIN file
    PROVE  got[c][p] <= (IF file[p] = "backend" THEN 1 ELSE 2)
  BY DEF SentBounded
<1>1. Len(file) <= MaxUnits /\ Len(file) \in Nat /\ DOMAIN file = 1..Len(file)
  BY DEF StreamInv, StreamTypeOK
<1>2. p \in Positions /\ p <= Len(file)
  BY <1>1 DEF Positions
<1> QED BY <1>2 DEF StreamInv, SentInv

(* No client is sent a line of the backend twice, nor any three times. *)
THEOREM SentBoundedTheorem == StreamSpec => []SentBounded
BY StreamInvariance, InvBounds, PTL

(* An aligned offset has passed over no line that can be read. *)
THEOREM AlignedDeliversTheorem == StreamSpec => []AlignedDelivers
<1>1. StreamInv => AlignedDelivers
  BY DEF StreamInv, AlignedInv
<1> QED BY <1>1, StreamInvariance, PTL
-----------------------------------------------------------------------------
(* The poller                                                              *)

(* A step of anyone but the poller appends no line of a run. *)
ForeignGrowth(n) ==
    /\ Grows(n)
    /\ \A p \in (Len(file) + 1)..(Len(file) + n) : file'[p] \notin Runs

LEMMA OthersGrow ==
    ASSUME StreamTypeOK, [StreamNext]_streamVars
    PROVE  \E n \in Nat : ForeignGrowth(n)
<1>0. Len(file) \in Nat /\ file \in Seq(Unit)
  BY DEF StreamTypeOK
<1>1. CASE UNCHANGED file
  <2>1. ForeignGrowth(0)
    BY <1>0, <1>1 DEF ForeignGrowth, Grows
  <2> QED BY <2>1
<1>2. ASSUME NEW unit \in {"backend", "newline"}, file' = Append(file, unit)
      PROVE  \E n \in Nat : ForeignGrowth(n)
  <2>1. Grows(1) /\ file'[Len(file) + 1] = unit
    BY <1>2, UnitGrows DEF Unit, Origins
  <2>2. unit \notin Runs
    OBVIOUS
  <2>3. ForeignGrowth(1)
    BY <1>0, <2>1, <2>2 DEF ForeignGrowth
  <2> QED BY <2>3
<1>3. ASSUME NEW origin \in {"post", "doc"}, file' = file \o Line(origin)
      PROVE  \E n \in Nat : ForeignGrowth(n)
  <2>1. Grows(2) /\ file'[Len(file) + 1] = origin /\ file'[Len(file) + 2] = "newline"
    BY <1>3, LineGrows DEF Origins
  <2>2. origin \notin Runs /\ "newline" \notin Runs
    OBVIOUS
  <2>3. ASSUME NEW p \in (Len(file) + 1)..(Len(file) + 2) PROVE file'[p] \notin Runs
    <3>1. p = Len(file) + 1 \/ p = Len(file) + 2
      BY <1>0
    <3> QED BY <2>1, <2>2, <3>1
  <2>4. ForeignGrowth(2)
    BY <2>1, <2>3 DEF ForeignGrowth
  <2> QED BY <2>4
<1>4. CASE WriteEntry
  BY <1>2, <1>4 DEF WriteEntry
<1>5. CASE WriteNewline
  BY <1>2, <1>5 DEF WriteNewline
<1>6. CASE PostActivity
  BY <1>3, <1>6 DEF PostActivity, appendActivity
<1>7. CASE \E d \in Docs : handleDocChange(d)
  BY <1>1, <1>3, <1>7 DEF handleDocChange
<1>8. CASE ~(WriteEntry \/ WriteNewline \/ PostActivity \/ \E d \in Docs : handleDocChange(d))
  <2>1. UNCHANGED file
    BY <1>8 DEF StreamNext, OthersStep, StreamStep, BackendEnds, EditDoc,
                broadcastNewEntries, Connect, Disconnect, StreamRestart, streamVars
  <2> QED BY <1>1, <2>1
<1> QED BY <1>4, <1>5, <1>6, <1>7, <1>8

-----------------------------------------------------------------------------
(* Types                                                                   *)

Poll == [pc : {"idle", "asking", "answered"},
         unfinished : SUBSET Runs, completed : SUBSET Runs]

LEMMA IdleType == Idle \in Poll
BY DEF Idle, Poll

(* A poll that goes on, or ends, with one run less. *)
LEMMA HandledType ==
    ASSUME TypeOK, NEW q \in Polls, NEW r \in Runs, Handled(q, r)
    PROVE  /\ poll' \in [Polls -> Poll]
           /\ looping' \in SUBSET Polls
           /\ shown' \in [Runs -> {"no", "yes", "append_failed"}]
           /\ \A k \in Polls : poll'[k].completed \subseteq poll[k].completed
<1> DEFINE rest == [pc         |-> "answered",
                    unfinished |-> poll[q].unfinished \ {r},
                    completed  |-> poll[q].completed \ {r}]
           over == rest.unfinished \cup rest.completed = {}
<1>1. poll \in [Polls -> Poll] /\ poll[q] \in Poll
  BY DEF TypeOK, Poll
<1>3. rest \in Poll /\ rest.completed \subseteq poll[q].completed
  BY <1>1 DEF Poll
<1>4. /\ poll' = [poll EXCEPT ![q] = IF over THEN Idle ELSE rest]
      /\ looping' = IF over THEN {} ELSE {q}
      /\ shown' = IF r \in poll[q].completed /\ shown[r] = "no"
                  THEN [shown EXCEPT ![r] = "yes"] ELSE shown
  BY DEF Handled
<1> HIDE DEF rest, over
<1>5. poll' \in [Polls -> Poll]
  BY <1>1, <1>3, <1>4, IdleType
<1>6. looping' \in SUBSET Polls
  BY <1>4
<1>7. shown' \in [Runs -> {"no", "yes", "append_failed"}]
  BY <1>4 DEF TypeOK
<1>8. ASSUME NEW k \in Polls PROVE poll'[k].completed \subseteq poll[k].completed
  <2>1. poll'[k] \in {poll[k], Idle} \/ (k = q /\ poll'[k] = rest)
    BY <1>1, <1>4
  <2> QED BY <1>3, <2>1 DEF Idle
<1> QED BY <1>5, <1>6, <1>7, <1>8

LEMMA TypeInitCi == Init => TypeOK
BY StreamInvInit, IdleType DEF Init, TypeOK, StreamInv, Poll, RunStatus

LEMMA TypeStepCi ==
    ASSUME TypeOK, StreamTypeOK', [Next]_vars
    PROVE  TypeOK'
<1>1. CASE UNCHANGED ciVars
  BY <1>1 DEF ciVars, TypeOK
<1>2. ASSUME NEW r \in Runs, Advance(r) PROVE TypeOK'
  <2>1. github' \in [Runs -> RunStatus]
    BY <1>2 DEF Advance, TypeOK, RunStatus
  <2> QED BY <1>2, <2>1 DEF Advance, TypeOK
<1>3. ASSUME NEW q \in Polls, Ask(q) PROVE TypeOK'
  <2>1. poll' \in [Polls -> Poll]
    BY <1>3 DEF Ask, TypeOK, Poll
  <2> QED BY <1>3, <2>1 DEF Ask, TypeOK, Poll
<1>4. ASSUME NEW q \in Polls, AnswerPoll(q) PROVE TypeOK'
  <2>1. PICK told \in SUBSET {r \in Runs : github[r] # "unknown"} :
           poll' = [poll EXCEPT ![q] =
               IF told = {} THEN Idle
               ELSE [pc         |-> "answered",
                     unfinished |-> {r \in told : github[r] # "completed"},
                     completed  |-> {r \in told : github[r] = "completed"}]]
    BY <1>4 DEF AnswerPoll
  <2>2. [pc         |-> "answered",
         unfinished |-> {r \in told : github[r] # "completed"},
         completed  |-> {r \in told : github[r] = "completed"}] \in Poll
    BY DEF Poll
  <2>3. poll' \in [Polls -> Poll]
    BY <2>1, <2>2, IdleType DEF TypeOK, Poll
  <2> QED BY <1>4, <2>3 DEF AnswerPoll, TypeOK, Poll
<1>5. ASSUME NEW q \in Polls, NEW r \in Runs, HandleRun(q, r) PROVE TypeOK'
  <2>1. Handled(q, r) /\ seenRunIds' = seenRunIds \cup {r} /\ github' = github
    BY <1>5 DEF HandleRun
  <2> QED BY <2>1, HandledType DEF TypeOK, Poll
<1>6. ASSUME NEW q \in Polls, NEW r \in Runs, FailRun(q, r) PROVE TypeOK'
  <2>1. poll' \in [Polls -> Poll]
    BY <1>6, IdleType DEF FailRun, TypeOK, Poll
  <2> QED BY <1>6, <2>1 DEF FailRun, TypeOK, Poll
<1>7. CASE Restart
  <2>1. poll' \in [Polls -> Poll]
    BY <1>7, IdleType DEF Restart
  <2> QED BY <1>7, <2>1 DEF Restart, LoggedRuns, TypeOK, Poll
<1> QED
  BY <1>1, <1>2, <1>3, <1>4, <1>5, <1>6, <1>7 DEF Next, CiStep, vars, ciVars

-----------------------------------------------------------------------------
(* The stream beside the poller                                            *)

(* Every step is one of the stream, the append of a run's line, or none. *)
LEMMA StreamSimulates ==
    ASSUME Next
    PROVE  [StreamNext \/ \E r \in Runs : appendActivity(r)]_streamVars
BY DEF Next, StreamNext, Advance, CiStep, Ask, AnswerPoll, HandleRun, FailRun, Restart

LEMMA StreamBesides == Spec => []StreamInv
<1>1. Init => StreamInv
  BY StreamInvInit DEF Init
<1>2. StreamInv /\ [Next]_vars => StreamInv'
  <2> SUFFICES ASSUME StreamInv, [Next]_vars PROVE StreamInv'
    OBVIOUS
  <2>1. [StreamNext \/ \E r \in Runs : appendActivity(r)]_streamVars
    <3>1. CASE Next
      BY <3>1, StreamSimulates
    <3>2. CASE UNCHANGED vars
      BY <3>2 DEF vars
    <3> QED BY <3>1, <3>2
  <2> QED BY <2>1, StreamInvStep
<1> QED BY <1>1, <1>2, PTL DEF Spec

-----------------------------------------------------------------------------
(* What the log says of the runs                                           *)

(* A run's entry that was in the file before. *)
OldEntry(p) ==
    /\ p \in DOMAIN file /\ file'[p] = file[p]
    /\ Readable(p)' => Readable(p)

LEMMA OldEntries ==
    ASSUME StreamTypeOK, NEW n \in Nat, Grows(n), NEW p \in DOMAIN file', p <= Len(file)
    PROVE  OldEntry(p)
<1>1. DOMAIN file = 1..Len(file) /\ DOMAIN file' = 1..Len(file') /\ Len(file) \in Nat
      /\ Len(file') = Len(file) + n
  BY DEF StreamTypeOK, Grows
<1>2. p \in 1..Len(file)
  BY <1>1
<1> QED BY <1>1, <1>2, StaysReadable DEF OldEntry, Grows

LEMMA ForeignEntries ==
    ASSUME StreamTypeOK, NEW n \in Nat, ForeignGrowth(n),
           NEW p \in DOMAIN file', file'[p] \in Runs
    PROVE  OldEntry(p)
<1>1. DOMAIN file' = 1..(Len(file) + n) /\ Len(file) \in Nat
  BY DEF StreamTypeOK, ForeignGrowth, Grows
<1>2. p <= Len(file)
  BY <1>1 DEF ForeignGrowth
<1> QED BY <1>2, OldEntries DEF ForeignGrowth

(* The poller's own line is the one new entry of a run. *)
LEMMA OwnEntries ==
    ASSUME StreamTypeOK, NEW r \in Runs, appendActivity(r),
           NEW p \in DOMAIN file', file'[p] \in Runs
    PROVE  OldEntry(p) \/ (p = Len(file) + 1 /\ file'[p] = r)
<1>1. Grows(2) /\ file'[Len(file) + 1] = r /\ file'[Len(file) + 2] = "newline"
  BY LineGrows DEF appendActivity, Origins
<1>2. DOMAIN file' = 1..(Len(file) + 2) /\ Len(file) \in Nat
  BY <1>1 DEF StreamTypeOK, Grows
<1>3. CASE p <= Len(file)
  BY <1>1, <1>3, OldEntries
<1>4. CASE p = Len(file) + 1
  BY <1>1, <1>4
<1>5. CASE p = Len(file) + 2
  BY <1>1, <1>5
<1> QED BY <1>2, <1>3, <1>4, <1>5

LogInv == SeenInv /\ ToldInv /\ RunLoggedOnce /\ LoggedIsCompleted

(* A step after which the log has the runs' entries it had before. *)
LEMMA LogUnchanged ==
    ASSUME LogInv, \A p \in DOMAIN file' : file'[p] \in Runs => OldEntry(p)
    PROVE  /\ RunLoggedOnce'
           /\ seenRunIds \subseteq seenRunIds' => SeenInv'
           /\ UNCHANGED github => LoggedIsCompleted'
<1>1. RunLoggedOnce'
  BY DEF LogInv, RunLoggedOnce, OldEntry
<1>2. seenRunIds \subseteq seenRunIds' => SeenInv'
  BY DEF LogInv, SeenInv, OldEntry
<1>3. UNCHANGED github => LoggedIsCompleted'
  BY DEF LogInv, LoggedIsCompleted, OldEntry
<1> QED BY <1>1, <1>2, <1>3

LEMMA SameFile ==
    ASSUME UNCHANGED file
    PROVE  \A p \in DOMAIN file' : file'[p] \in Runs => OldEntry(p)
BY DEF OldEntry, Readable, Parses, IsEntry

(* The turn of the loop that logs a run nobody has seen. *)
LEMMA LogAppend ==
    ASSUME TypeOK, LogInv, NEW r \in Runs, r \notin seenRunIds,
           github[r] \in {"completed", "in_progress_again"}, UNCHANGED github,
           appendActivity(r), seenRunIds' = seenRunIds \cup {r}
    PROVE  SeenInv' /\ RunLoggedOnce' /\ LoggedIsCompleted'
<1>1. \A p \in DOMAIN file' : file'[p] \in Runs =>
          OldEntry(p) \/ (p = Len(file) + 1 /\ file'[p] = r)
  BY OwnEntries DEF TypeOK
<1>2. SeenInv'
  BY <1>1 DEF LogInv, SeenInv, OldEntry
<1>3. LoggedIsCompleted'
  BY <1>1 DEF LogInv, LoggedIsCompleted, OldEntry
<1>4. RunLoggedOnce'
  <2> SUFFICES ASSUME NEW p \in DOMAIN file', NEW q \in DOMAIN file',
                      file'[p] = file'[q], file'[p] \in Runs, Readable(p)', Readable(q)'
      PROVE  p = q
    BY DEF RunLoggedOnce
  <2>1. ASSUME NEW k \in {p, q}, OldEntry(k) PROVE file'[k] # r
    BY <2>1 DEF LogInv, SeenInv, OldEntry
  <2>2. CASE OldEntry(p) /\ OldEntry(q)
    BY <2>2 DEF LogInv, RunLoggedOnce, OldEntry
  <2>3. CASE ~OldEntry(p) \/ ~OldEntry(q)
    BY <1>1, <2>1, <2>3
  <2> QED BY <2>2, <2>3
<1> QED BY <1>2, <1>3, <1>4

LEMMA LogInit == Init => LogInv
BY DEF Init, StreamInit, Idle, LogInv, SeenInv, ToldInv, RunLoggedOnce, LoggedIsCompleted

LEMMA LogStep ==
    ASSUME TypeOK, TypeOK', LogInv, [Next]_vars
    PROVE  LogInv'
<1>1. CASE [StreamNext]_streamVars /\ UNCHANGED ciVars
  <2>1. PICK n \in Nat : ForeignGrowth(n)
    BY <1>1, OthersGrow DEF TypeOK
  <2>2. \A p \in DOMAIN file' : file'[p] \in Runs => OldEntry(p)
    BY <2>1, ForeignEntries DEF TypeOK
  <2>3. ToldInv'
    BY <1>1 DEF LogInv, ToldInv, ciVars
  <2> QED BY <1>1, <2>2, <2>3, LogUnchanged DEF LogInv, ciVars
<1>2. ASSUME NEW r \in Runs, Advance(r) PROVE LogInv'
  <2>1. \A k \in Runs : github[k] \in {"completed", "in_progress_again"}
                        => github'[k] \in {"completed", "in_progress_again"}
    BY <1>2 DEF Advance, TypeOK
  <2>2. UNCHANGED <<file, seenRunIds, poll>>
    BY <1>2 DEF Advance, streamVars
  <2>3. SeenInv' /\ RunLoggedOnce'
    BY <2>2, SameFile, LogUnchanged
  <2>4. ToldInv'
    BY <2>1, <2>2 DEF LogInv, ToldInv, TypeOK
  <2>5. LoggedIsCompleted'
    BY <2>1, <2>2 DEF LogInv, LoggedIsCompleted
  <2> QED BY <2>3, <2>4, <2>5 DEF LogInv
<1>3. ASSUME NEW q \in Polls, Ask(q) PROVE LogInv'
  <2>1. UNCHANGED <<file, github, seenRunIds>>
    BY <1>3 DEF Ask, streamVars
  <2>2. \A k \in Polls : poll'[k].completed = poll[k].completed
    BY <1>3 DEF Ask, TypeOK
  <2>3. ToldInv'
    BY <2>1, <2>2 DEF LogInv, ToldInv
  <2> QED BY <2>1, <2>3, SameFile, LogUnchanged DEF LogInv
<1>4. ASSUME NEW q \in Polls, AnswerPoll(q) PROVE LogInv'
  <2>1. UNCHANGED <<file, github, seenRunIds>>
    BY <1>4 DEF AnswerPoll, streamVars
  <2>2. \A k \in Polls : \A r \in poll'[k].completed :
            r \in poll[k].completed \/ github[r] = "completed"
    BY <1>4 DEF AnswerPoll, TypeOK, Idle
  <2>3. ToldInv'
    BY <2>1, <2>2 DEF LogInv, ToldInv
  <2> QED BY <2>1, <2>3, SameFile, LogUnchanged DEF LogInv
<1>5. ASSUME NEW q \in Polls, NEW r \in Runs, HandleRun(q, r) PROVE LogInv'
  <2>1. Handled(q, r) /\ seenRunIds' = seenRunIds \cup {r} /\ github' = github
    BY <1>5 DEF HandleRun
  <2>2. ToldInv'
    BY <2>1, HandledType DEF LogInv, ToldInv
  <2>3. CASE r \in poll[q].completed \ seenRunIds
    <3>1. appendActivity(r)
      BY <1>5, <2>3 DEF HandleRun
    <3>2. github[r] \in {"completed", "in_progress_again"}
      BY <2>3 DEF LogInv, ToldInv
    <3> QED BY <2>1, <2>2, <2>3, <3>1, <3>2, LogAppend DEF LogInv
  <2>4. CASE r \notin poll[q].completed \ seenRunIds
    <3>1. UNCHANGED file
      BY <1>5, <2>4 DEF HandleRun, streamVars
    <3> QED BY <2>1, <2>2, <3>1, SameFile, LogUnchanged DEF LogInv
  <2> QED BY <2>3, <2>4
<1>6. ASSUME NEW q \in Polls, NEW r \in Runs, FailRun(q, r) PROVE LogInv'
  <2>1. UNCHANGED <<file, github>> /\ seenRunIds' = seenRunIds \cup {r}
    BY <1>6 DEF FailRun, streamVars
  <2>2. \A k \in Polls : poll'[k].completed \subseteq poll[k].completed
    BY <1>6 DEF FailRun, TypeOK, Idle
  <2>3. ToldInv'
    BY <2>1, <2>2 DEF LogInv, ToldInv
  <2> QED BY <2>1, <2>3, SameFile, LogUnchanged DEF LogInv
<1>7. CASE Restart
  <2>1. UNCHANGED <<file, github>> /\ seenRunIds' = LoggedRuns
    BY <1>7 DEF Restart, StreamRestart
  <2>2. ToldInv'
    BY <1>7 DEF Restart, ToldInv, Idle
  <2>3. RunLoggedOnce' /\ LoggedIsCompleted'
    BY <2>1, SameFile, LogUnchanged
  <2>4. SeenInv'
    BY <2>1 DEF SeenInv, LoggedRuns, Readable, Parses, IsEntry
  <2> QED BY <2>2, <2>3, <2>4 DEF LogInv
<1> QED
  BY <1>1, <1>2, <1>3, <1>4, <1>5, <1>6, <1>7
  DEF Next, CiStep, StreamNext, vars, ciVars

-----------------------------------------------------------------------------
(* The theorems                                                            *)

(* What the log, the polls and seenRunIds say of the runs is inductive. *)
THEOREM CiInvariance == Spec => []CiInv
<1>1. Init => TypeOK /\ LogInv
  BY TypeInitCi, LogInit
<1>2. TypeOK /\ LogInv /\ StreamInv' /\ [Next]_vars => (TypeOK /\ LogInv)'
  BY TypeStepCi, LogStep DEF StreamInv
<1>3. TypeOK /\ LogInv => CiInv
  BY DEF LogInv, CiInv
<1> QED BY <1>1, <1>2, <1>3, StreamBesides, PTL DEF Spec

(* Types of the poller and of the stream beside it. *)
THEOREM TypeCorrect == Spec => []TypeOK
BY CiInvariance, PTL DEF CiInv

(* However polls overlap and restarts fall, no run has two readable lines. *)
THEOREM RunLoggedOnceTheorem == Spec => []RunLoggedOnce
BY CiInvariance, PTL DEF CiInv

(* A run in the log has been completed. *)
THEOREM LoggedIsCompletedTheorem == Spec => []LoggedIsCompleted
BY CiInvariance, PTL DEF CiInv

(* The poller's appends leave the stream's promises as they are. *)
THEOREM StreamKept == Spec => [](SentBounded /\ AlignedDelivers)
<1>1. StreamInv => SentBounded /\ AlignedDelivers
  BY InvBounds DEF StreamInv, AlignedInv
<1> QED BY <1>1, StreamBesides, PTL
==============================================================================
