----------------------------- MODULE DashDatabase -----------------------------
(***************************************************************************)
(* The database tab (App.tsx: DatabasePanel) and its endpoints             *)
(* (dashboard/server.js: /api/db/...): a table is read page by page, a     *)
(* query is typed, and one of the two results is on display.  An error     *)
(* comes back as {error}, without rows and columns, and to render it       *)
(* throws: React then removes the whole page.                              *)
(***************************************************************************)
EXTENDS Integers

CONSTANTS
    Slots,       \* bound: reads of a table under way at once
    MaxQueries,  \* bound: queries under way at once
    Tables,
    NoTable,
    MaxPages,
    PagesOf      \* the number of pages of each table

TableAssumption ==
    /\ NoTable \notin Tables
    /\ MaxPages \in Nat \ {0} /\ MaxQueries \in Nat
    /\ PagesOf \in [Tables -> 1..MaxPages]

VARIABLES
    db,      \* the panel's state
    reads,   \* its reads of tables under way
    queries  \* its queries under way

dbVars == <<db, reads, queries>>

Pages == 0 .. MaxPages - 1

Rows(table, page) == [kind |-> "rows", table |-> table, page |-> page]
None   == [kind |-> "none", table |-> NoTable, page |-> 0]
Error  == [kind |-> "error", table |-> NoTable, page |-> 0]
Result == [kind : {"none", "rows", "error"}, table : Tables \cup {NoTable}, page : Pages]

Free == [state |-> "free", result |-> None]

Panel(status) ==
    [status |-> status, tables |-> "none", selected |-> NoTable, page |-> 0,
     data |-> None, loading |-> FALSE, queryMode |-> FALSE, queryResult |-> None,
     queryLoading |-> FALSE, crossed |-> FALSE, failed |-> FALSE, strayed |-> FALSE]

DbStart == Panel("connecting")
DbOff   == Panel("off")
Blank   == Panel("blank")

DbTypeOK ==
    /\ db \in [status : {"off", "connecting", "ready", "unavailable", "blank"},
               tables : {"none", "asked", "listed"},
               selected : Tables \cup {NoTable}, page : Pages, data : Result,
               loading : BOOLEAN, queryMode : BOOLEAN, queryResult : Result,
               queryLoading : BOOLEAN, crossed : BOOLEAN, failed : BOOLEAN,
               strayed : BOOLEAN]
    /\ reads \in [Slots -> [state : {"free", "sent", "read"}, result : Result]]
    /\ queries \in 0..MaxQueries

DbInit ==
    /\ db = DbOff
    /\ reads = [s \in Slots |-> Free]
    /\ queries = 0

DbMount ==
    /\ db' = DbStart
    /\ reads' = [s \in Slots |-> Free]
    /\ queries' = 0

DbUnmount ==
    /\ db' = DbOff
    /\ reads' = [s \in Slots |-> Free]
    /\ queries' = 0

-----------------------------------------------------------------------------

displayData(d) == IF d.queryMode THEN d.queryResult ELSE d.data

(* Every change of the state is rendered: columns.length and rows.length   *)
(* of {error} throw.                                                       *)
Show(d) == db' = IF displayData(d).kind = "error" THEN Blank ELSE d

QuietDb == \A s \in Slots : reads[s].state = "free"

(* /api/db/status, and then /api/db/tables, whose own error is no list. *)
StatusAnswered ==
    /\ db.status = "connecting"
    /\ \/ db' = [db EXCEPT !.status = "ready", !.tables = "asked"]
       \/ db' = [db EXCEPT !.status = "unavailable"]
    /\ UNCHANGED <<reads, queries>>

TablesAnswered ==
    /\ db.status = "ready" /\ db.tables = "asked"
    /\ \/ db' = [db EXCEPT !.tables = "listed"]
       \/ db' = [db EXCEPT !.tables = "none"]
       \/ db' = Blank
    /\ UNCHANGED <<reads, queries>>

(* loadTable leaves the query mode, and asks. *)
loadTable(d, table, page) ==
    /\ \E s \in Slots :
          /\ reads[s].state = "free"
          /\ reads' = [reads EXCEPT ![s] = [state |-> "sent", result |-> Rows(table, page)]]
    /\ Show([d EXCEPT !.loading = TRUE, !.queryMode = FALSE,
                      !.crossed = ~QuietDb, !.failed = FALSE])
    /\ UNCHANGED queries

Ready == db.status = "ready"

selectTable(table) ==
    /\ Ready /\ db.tables = "listed"
    /\ loadTable([db EXCEPT !.selected = table, !.page = 0, !.strayed = FALSE], table, 0)

ReloadTable ==
    /\ Ready /\ ~db.queryMode /\ db.selected # NoTable
    /\ loadTable(db, db.selected, db.page)

(* Prev and Next: the number of pages is that of the table on display,     *)
(* which need not be the one selected.                                     *)
totalPages == IF db.data.kind = "rows" THEN PagesOf[db.data.table] ELSE 0

TurnPage(page) ==
    /\ Ready /\ ~db.queryMode /\ totalPages > 1
    /\ \/ page = db.page - 1 /\ db.page # 0
       \/ page = db.page + 1 /\ db.page < totalPages - 1
    /\ loadTable([db EXCEPT !.page = page,
                            !.strayed = db.strayed \/ db.data.table # db.selected],
                 db.selected, page)

(* The SQL Query button. *)
OpenQuery ==
    /\ Ready
    /\ Show([db EXCEPT !.queryMode = TRUE, !.selected = NoTable])
    /\ UNCHANGED <<reads, queries>>

(* The button, which is disabled while a query runs, or Ctrl+Enter, which  *)
(* is not.                                                                 *)
runQuery ==
    /\ Ready /\ db.queryMode
    /\ queries < MaxQueries
    /\ queries' = queries + 1
    /\ Show([db EXCEPT !.queryLoading = TRUE])
    /\ UNCHANGED reads

ServerReadsTable(s) ==
    /\ Ready /\ reads[s].state = "sent"
    /\ \E result \in {reads[s].result, Error} :
          reads' = [reads EXCEPT ![s] = [state |-> "read", result |-> result]]
    /\ UNCHANGED <<db, queries>>

TableAnswered(s) ==
    /\ Ready /\ reads[s].state = "read"
    /\ reads' = [reads EXCEPT ![s] = Free]
    /\ Show([db EXCEPT !.data = reads[s].result, !.loading = FALSE])
    /\ UNCHANGED queries

(* catch: the table on display stays, under the name of the one selected. *)
TableFails(s) ==
    /\ Ready /\ reads[s].state # "free"
    /\ reads' = [reads EXCEPT ![s] = Free]
    /\ Show([db EXCEPT !.loading = FALSE, !.failed = TRUE])
    /\ UNCHANGED queries

(* Rows, or {error}: not a SELECT or PRAGMA, or not SQL that the database  *)
(* takes.  Failing, fetch gives an error with empty rows and columns,      *)
(* which can be rendered.                                                  *)
QueryAnswered ==
    /\ Ready /\ queries > 0
    /\ queries' = queries - 1
    /\ \E result \in {Rows(NoTable, 0), Error} :
          Show([db EXCEPT !.queryLoading = FALSE, !.queryResult = result])
    /\ UNCHANGED reads

ReadProgress ==
    \E s \in Slots : ServerReadsTable(s) \/ TableAnswered(s) \/ TableFails(s)

(* On a blank page nothing is left that could be pressed or answered. *)
DbNext ==
    \/ StatusAnswered \/ TablesAnswered \/ ReloadTable \/ OpenQuery \/ runQuery
    \/ \E table \in Tables : selectTable(table)
    \/ \E page \in Pages : TurnPage(page)
    \/ ReadProgress \/ QueryAnswered

-----------------------------------------------------------------------------

(* Who waits for a table or a query waits for a request. *)
WaitingIsTrue ==
    /\ db.loading => ~QuietDb
    /\ db.queryLoading => queries > 0

(* The rows on display under a table's name, and exported under it, are    *)
(* those of that table and page, unless the last read failed or crossed    *)
(* another (App.tsx: DatabasePanel, exportCsv).                            *)
TableIsSelected ==
    /\ ~db.queryMode /\ db.data.kind = "rows"
    /\ QuietDb /\ ~db.crossed /\ ~db.failed
    => db.data.table = db.selected /\ db.data.page = db.page

(* Rows of a table are on display only under a table's name: the buttons   *)
(* that page through them, and the export, never meet a null; and a page   *)
(* beyond the last one was asked for while another table was on display.   *)
PagerHasTable ==
    /\ ~db.queryMode /\ db.data.kind # "none" => db.selected # NoTable
    /\ db.selected # NoTable => db.page < PagesOf[db.selected] \/ db.strayed

==============================================================================
