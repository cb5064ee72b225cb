------------------------------- MODULE RowEditor -------------------------------
(***************************************************************************)
(* Rows edited in the panel (src/pgforge/editor.go): a side panel opened   *)
(* on a row, kept open while others work, and handed in as one UPDATE by   *)
(* primary key; cells of the grid; inserts, deletes; and the import of a   *)
(* CSV column, whose type is guessed from its cells.                       *)
(***************************************************************************)
EXTENDS Naturals, FiniteSets

CONSTANTS
    Keys,           \* values of the primary key
    Fields,         \* the other columns
    Entries,
    RowEditors,
    MaxRows,        \* bound: rows ever made
    MaxPanels       \* bound: side panels ever opened

ASSUME RowAssumption == Keys # {} /\ Entries # {} /\ MaxRows \in Nat /\ MaxPanels \in Nat

VARIABLES
    grid,       \* by primary key; each is known by a number of its own
    panel,      \* what each editor has on the screen
    made,       \* rows ever made
    opened,     \* panels ever opened
    typed,      \* history: what was last typed into a field and acknowledged
    sheet       \* the last column imported: its cells, the type, whether it went in

rowVars == <<grid, panel, made, opened, typed, sheet>>

NoRow == [id |-> 0, val |-> [f \in Fields |-> CHOOSE v \in Entries : TRUE]]
Closed == [open |-> FALSE]
Panels == [open : {TRUE}, key : Keys, val : [Fields -> Entries]]
Cells == {"empty", "blank", "whole", "padded", "zeros", "long", "decimal", "truth", "date", "words"}
Types == {"text", "bigint", "numeric", "boolean", "timestamptz"}
NoSheet == [cells |-> {}, type |-> "text", imported |-> TRUE]

RowTypeOK ==
    /\ grid \in [Keys -> [id : 0..MaxRows, val : [Fields -> Entries]]]
    /\ panel \in [RowEditors -> {Closed} \cup Panels]
    /\ made \in 0..MaxRows /\ opened \in 0..MaxPanels
    /\ typed \in [1..MaxRows -> [Fields -> Entries]]
    /\ sheet \in [cells : SUBSET Cells, type : Types, imported : BOOLEAN]

RowInit ==
    /\ grid = [k \in Keys |-> NoRow] /\ made = 0 /\ opened = 0
    /\ panel = [e \in RowEditors |-> Closed]
    /\ typed = [i \in 1..MaxRows |-> NoRow.val]
    /\ sheet = NoSheet

Is(k) == grid[k].id # 0

-----------------------------------------------------------------------------

rowInsert(k, val) ==
    /\ ~Is(k) /\ made < MaxRows /\ made' = made + 1
    /\ grid' = [grid EXCEPT ![k] = [id |-> made + 1, val |-> val]]
    /\ typed' = [typed EXCEPT ![made + 1] = val]
    /\ sheet' = NoSheet
    /\ UNCHANGED <<panel, opened>>

\* rowJSON: the panel reads the row anew when it opens.
rowJSON(e, k) ==
    /\ ~panel[e].open /\ Is(k) /\ opened < MaxPanels /\ opened' = opened + 1
    /\ panel' = [panel EXCEPT ![e] = [open |-> TRUE, key |-> k, val |-> grid[k].val]]
    /\ UNCHANGED <<grid, made, typed, sheet>>

\* The columns of the UPDATE: the dirty ones, and not all that were posted.
Sets(posted, old, dirty) == [f \in Fields |-> IF f \in dirty THEN posted[f] ELSE old[f]]

\* UPDATE ... WHERE key: whichever row has the key by now.
Update(k, posted, dirty) ==
    /\ Is(k)
    /\ grid' = [grid EXCEPT ![k].val = Sets(posted, @, dirty)]
    /\ typed' = [typed EXCEPT ![grid[k].id] =
                   [f \in Fields |-> IF f \in dirty THEN posted[f] ELSE @[f]]]

\* rowUpdateFull: every field is posted, with a list of those that were touched.
rowUpdateFull(e, dirty, val) ==
    LET posted == [f \in Fields |-> IF f \in dirty THEN val[f] ELSE panel[e].val[f]] IN
    /\ panel[e].open /\ dirty # {}
    /\ Update(panel[e].key, posted, dirty)
    /\ panel' = [panel EXCEPT ![e] = Closed]
    /\ UNCHANGED <<made, opened, sheet>>

\* No row has the key: 409, nothing is written.
UpdateMatchesNone(e) ==
    /\ panel[e].open /\ ~Is(panel[e].key)
    /\ panel' = [panel EXCEPT ![e] = Closed]
    /\ UNCHANGED <<grid, made, opened, typed, sheet>>

\* rowUpdate, one cell of the grid.
rowUpdate(k, f, v) ==
    /\ Update(k, [g \in Fields |-> v], {f})
    /\ UNCHANGED <<panel, made, opened, sheet>>

\* rowUpdate of the key itself: the row goes on under another.
Rekey(k, to) ==
    /\ Is(k) /\ ~Is(to)
    /\ grid' = [grid EXCEPT ![to] = grid[k], ![k] = NoRow]
    /\ UNCHANGED <<panel, made, opened, typed, sheet>>

\* rowDelete and bulkDeleteRows, the latter in one transaction; a selected row
\* that is gone is passed over.
bulkDeleteRows(keys) ==
    /\ \E k \in keys : Is(k)
    /\ grid' = [k \in Keys |-> IF k \in keys THEN NoRow ELSE grid[k]]
    /\ typed' = [i \in 1..MaxRows |->
                    IF i \in {grid[k].id : k \in keys} THEN NoRow.val ELSE typed[i]]
    /\ UNCHANGED <<panel, made, opened, sheet>>

-----------------------------------------------------------------------------
(* The import.  Cells by their look: " 12 " is padded, "007" has zeros,    *)
(* long is a number of more than 18 digits.                                *)

\* Blank cells say nothing of the type.
Telling(cells) == cells \ {"empty", "blank"}

inferColType(cells) ==
    LET t == Telling(cells) IN
    CASE t = {} -> "text"
      [] t # {} /\ t \subseteq {"whole", "padded"} -> "bigint"
      [] t # {} /\ t \subseteq {"decimal"} -> "numeric"
      [] t # {} /\ t \subseteq {"truth"}   -> "boolean"
      [] t # {} /\ t \subseteq {"date"}    -> "timestamptz"
      [] OTHER -> "text"

\* What PostgreSQL takes for a value of the type; an empty cell is NULL.
Takes(type) ==
    {"empty"} \cup CASE type = "bigint"      -> {"whole", "padded", "zeros"}
                     [] type = "numeric"     -> {"whole", "padded", "zeros", "long", "decimal"}
                     [] type = "boolean"     -> {"truth"}
                     [] type = "timestamptz" -> {"date"}
                     [] type = "text"        -> Cells

\* importCSV, before the editing starts: the table and all rows, or neither.
importCSVColumn(cells) ==
    /\ made = 0 /\ sheet = NoSheet
    /\ LET type == inferColType(cells)
       IN sheet' = [cells |-> cells, type |-> type, imported |-> cells \subseteq Takes(type)]
    /\ UNCHANGED <<grid, panel, made, opened, typed>>

RowNext ==
    \/ \E k \in Keys, val \in [Fields -> Entries] : rowInsert(k, val)
    \/ \E e \in RowEditors, k \in Keys : rowJSON(e, k)
    \/ \E e \in RowEditors, dirty \in SUBSET Fields, val \in [Fields -> Entries] :
         rowUpdateFull(e, dirty, val)
    \/ \E e \in RowEditors : UpdateMatchesNone(e)
    \/ \E k \in Keys, f \in Fields, v \in Entries : rowUpdate(k, f, v)
    \/ \E k, to \in Keys : Rekey(k, to)
    \/ \E keys \in SUBSET Keys : bulkDeleteRows(keys)
    \/ \E cells \in SUBSET Cells : importCSVColumn(cells)

RowSpec == RowInit /\ [][RowNext]_rowVars

-----------------------------------------------------------------------------
\* "only dirty columns are written, so untouched fields can never clobber
\* concurrent changes" (editor.go:1006-1008): every field of every row is what
\* was last typed into it, however long a panel was open over the row, and
\* whichever row had come to have its key.
NothingClobbered ==
    \A k \in Keys : Is(k) => grid[k].val = typed[grid[k].id]

\* "picks the tightest Postgres type that fits every non-empty value"
\* (editor.go:1923): an import is refused for no cell but one of white space,
\* and a number whose zeros or length matter is kept as text.
TypeFitsCells ==
    /\ ~sheet.imported => "blank" \in sheet.cells
    /\ sheet.cells \cap {"zeros", "long"} # {} => sheet.type = "text"

\* What is typed or imported is what is there.
RowsAsTyped == NothingClobbered /\ TypeFitsCells
=============================================================================
