----------------------------- MODULE StructList -----------------------------
(***************************************************************************)
(* One matrix setting (StructListSetting in Setting.js) on a properties    *)
(* form: the sheet of rows is loaded from the stored list (findBestDefault *)
(* and insertNewInput), the operator edits cells and appends rows, the     *)
(* form's validation gates the submission, and sendIfNeeded sorts the      *)
(* rows by the key column, clears the stored list and rewrites it, either  *)
(* one dedicated setMethod call per non-empty row or one setAutoType of    *)
(* the whole list.  Every remote call may be rejected by the CE.           *)
(*                                                                         *)
(* The matrix has two columns, ordered by their "order": k, the Int column *)
(* flagged key == 1, and d, a String column.  A cell holds a value, or     *)
(* Empty ("" in its input).  A list stored at the setting's path is a      *)
(* record: dim 2, a list of rows; dim 1, a flat list of cells, which is    *)
(* represented as its single row.                                          *)
(***************************************************************************)
EXTENDS Naturals, Sequences, SequencesExt

CONSTANTS
    KeyVals,        \* integers an operator types into the key column
    DataVals,       \* values of the data column
    Empty,          \* an empty input
    Absent,         \* nothing stored at the setting's path
    MaxRows,        \* bound on the rows of the sheet
    Grow,           \* the structList's grow attribute
    SortOrder,      \* the sort attribute: "ascending", "descending", "none"
    HasSetMethod    \* the setting declares a setMethod

ASSUME KeyVals \subseteq Nat \ {0} /\ MaxRows \in Nat \ {0}
ASSUME SortOrder \in {"ascending", "descending", "none"}
ASSUME {Empty, Absent} \cap (KeyVals \cup DataVals \cup {0}) = {}

VARIABLES
    exists,     \* the entity exists on the CE
    cfg,        \* the list stored at the setting's path in the CE configuration
    phase,      \* "idle", "open", "sorting", "clearing", "sending", "finishing", "done"
    bound,      \* the form was opened on the existing entity (this.segment)
    dim,        \* this.dim
    sheet,      \* this.valSheet: rows of [cell, base, isNew]
    submitted,  \* the cells of the sheet when the form was submitted
    row,        \* sendIfNeeded: the next row of the per-row loop
    ret,        \* sendIfNeeded's local ret: "undefined", "ok", "rejected"
    rejected,   \* some remote call of this submission was rejected
    reported,   \* "Setting Rejected by CE" was shown
    wrote       \* needsUpdate() held when the form was submitted

vars == <<exists, cfg, phase, bound, dim, sheet, submitted, row, ret,
          rejected, reported, wrote>>

(***************************************************************************)
(* Cells, rows and stored lists.                                           *)
(***************************************************************************)
KeyCell  == KeyVals \cup {0, Empty}
DataCell == DataVals \cup {Empty}
Cells    == [k : KeyCell, d : DataCell]
EmptyRow == [k |-> Empty, d |-> Empty]

\* A row as stored: the Int column is a number.
StoredRows == [k : KeyVals \cup {0}, d : DataCell]

\* s is a sequence of at most MaxRows elements of S.
IsRowSeq(s, S) ==
    /\ DOMAIN s = 1..Len(s)
    /\ Len(s) <= MaxRows
    /\ \A i \in 1..Len(s) : s[i] \in S

IsStored(c) ==
    c = Absent \/ (/\ DOMAIN c = {"dim", "rows"}
                  /\ c.dim \in {1, 2}
                  /\ IsRowSeq(c.rows, StoredRows))

SheetRows == [cell : Cells, base : Cells, isNew : BOOLEAN]

TypeOK ==
    /\ exists \in BOOLEAN
    /\ IsStored(cfg)
    /\ phase \in {"idle", "open", "sorting", "clearing", "sending",
                  "finishing", "done"}
    /\ bound \in BOOLEAN
    /\ dim \in {1, 2}
    /\ IsRowSeq(sheet, SheetRows)
    /\ IsRowSeq(submitted, Cells)
    /\ row \in 1..MaxRows + 1
    /\ ret \in {"undefined", "ok", "rejected"}
    /\ rejected \in BOOLEAN
    /\ reported \in BOOLEAN
    /\ wrote \in BOOLEAN

\* The configuration holds a list of complete rows written earlier, or
\* nothing; a per-segment path of an entity that does not exist holds
\* nothing.
Init ==
    /\ exists \in BOOLEAN
    /\ cfg \in {Absent} \cup
               {[dim |-> 2, rows |-> s] :
                   s \in BoundedSeq([k : KeyVals, d : DataVals], MaxRows) \ {<<>>}}
    /\ ~exists => cfg = Absent
    /\ phase = "idle"
    /\ bound = FALSE
    /\ dim = 2
    /\ sheet = <<>>
    /\ submitted = <<>>
    /\ row = 1
    /\ ret = "undefined"
    /\ rejected = FALSE
    /\ reported = FALSE
    /\ wrote = FALSE

(***************************************************************************)
(* Opening the form.                                                       *)
(***************************************************************************)

\* addEmptySpreadsheetRow: every cell a fresh copy of its column, isNew,
\* its input showing the column's (undefined) default, i.e. empty.
NewRowUndefined == [cell |-> [k |-> Absent, d |-> Absent], base |-> EmptyRow,
                    isNew |-> TRUE]

NewRow == [cell |-> EmptyRow, base |-> EmptyRow, isNew |-> TRUE]

\* findBestDefault: dim is 2 iff the stored list's first element is itself
\* a list; each stored row (or, for dim 1, the flat list) becomes a row of
\* cells whose defaultVal is the stored cell, isNew false; the input shows
\* the stored value.  insertNewInput adds one empty row only when no
\* valSheet was created.
LoadDim(c) == IF c.dim = 2 /\ c.rows # <<>> THEN 2 ELSE 1

LoadSheet(c) ==
    [i \in 1..Len(c.rows) |-> [cell |-> c.rows[i], base |-> c.rows[i],
                               isNew |-> FALSE]]

\* SegmentDLL.propertiesForm for a form holding the matrix setting.
OpenForm ==
    /\ phase \in {"idle", "done"}
    /\ bound' = exists
    /\ IF exists /\ cfg # Absent
       THEN /\ dim' = LoadDim(cfg)
            /\ sheet' = LoadSheet(cfg)
       ELSE /\ dim' = 2
            /\ sheet' = <<NewRow>>
    /\ phase' = "open"
    /\ submitted' = <<>>
    /\ row' = 1
    /\ ret' = "undefined"
    /\ rejected' = FALSE
    /\ reported' = FALSE
    /\ wrote' = FALSE
    /\ UNCHANGED <<exists, cfg>>

\* The "Add Row" button (present only when grow is not false).
AddRow ==
    /\ phase = "open"
    /\ Grow
    /\ Len(sheet) < MaxRows
    /\ sheet' = Append(sheet, NewRow)
    /\ UNCHANGED <<exists, cfg, phase, bound, dim, submitted, row, ret,
                   rejected, reported, wrote>>

\* The operator types into one cell.
EditCell(i, c, v) ==
    /\ phase = "open"
    /\ i \in 1..Len(sheet)
    /\ sheet' = [sheet EXCEPT ![i].cell[c] = v]
    /\ UNCHANGED <<exists, cfg, phase, bound, dim, submitted, row, ret,
                   rejected, reported, wrote>>

(***************************************************************************)
(* Submitting.                                                             *)
(***************************************************************************)

\* Setting.static_inputIsEmpty on every cell of a row (rowInputIsEmpty).
RowInputIsEmpty(cells) == cells.k = Empty /\ cells.d = Empty

\* validateRow: a row holding a value must hold one in every cell.
RowAllOrNothing(cells) == RowInputIsEmpty(cells) \/ (cells.k # Empty /\ cells.d # Empty)

\* Mutation-test variant of Validate: the matrix is not validated.
ValidateSkipsRows == TRUE

\* DLL.validate reaches StructListSetting.validate through the matrix's own
\* input element only when that element's value is non-empty: the "Add
\* Row" button of a growable matrix; the hidden input of a fixed one holds
\* "" and is skipped.  Every typed cell passes its column's validator.
Validate == Grow => \A i \in 1..Len(sheet) : RowAllOrNothing(sheet[i].cell)

\* rowNeedsUpdate: a cell of a new row needs updating when non-empty, a
\* loaded cell when its input differs from its defaultVal.
RowNeedsUpdate(r) ==
    IF r.isNew THEN ~RowInputIsEmpty(r.cell) ELSE r.cell # r.base

NeedsUpdate == \E i \in 1..Len(sheet) : RowNeedsUpdate(sheet[i])

\* The form's submit handler runs applyChangesToCE only when validate()
\* passes; applyChangesToCE calls sendIfNeeded, which returns at once when
\* nothing needs updating.
Submit ==
    /\ phase = "open"
    /\ Validate
    /\ submitted' = [i \in 1..Len(sheet) |-> sheet[i].cell]
    /\ wrote' = NeedsUpdate
    /\ phase' = IF NeedsUpdate THEN "sorting" ELSE "finishing"
    /\ UNCHANGED <<exists, cfg, bound, dim, sheet, row, ret, rejected, reported>>

\* The comparator's view of a key cell: getInputVal() - getInputVal()
\* converts "" to 0.
KeyNum(cells) == IF cells.k = Empty THEN 0 ELSE cells.k

\* Mutation-test variant of SortedBy: the comparator's operands swapped.
SortedBySwapped(s, ord) ==
    LET n == Len(s)
        Before(a, b) == IF ord = "ascending" THEN KeyNum(a.cell) >= KeyNum(b.cell)
                        ELSE KeyNum(a.cell) <= KeyNum(b.cell)
    IN {t \in {[i \in 1..n |-> s[p[i]]] : p \in Bijection(1..n, 1..n)} :
           IsSorted(t, Before)}

\* valSheet.sort with the comparator on the key column: some permutation
\* of the rows ordered by the comparator; which one among rows with equal
\* keys is left to the engine's sort.
SortedBy(s, ord) ==
    LET n == Len(s)
        Before(a, b) == IF ord = "ascending" THEN KeyNum(a.cell) <= KeyNum(b.cell)
                        ELSE KeyNum(a.cell) >= KeyNum(b.cell)
    IN {t \in {[i \in 1..n |-> s[p[i]]] : p \in Bijection(1..n, 1..n)} :
           IsSorted(t, Before)}

\* sendIfNeeded, first step: sort the rows when a sort is declared and
\* dim > 1.  The key column is the one with key == 1 in row 0, k.
SortSheet ==
    /\ phase = "sorting"
    /\ IF SortOrder # "none" /\ dim > 1
       THEN sheet' \in SortedBy(sheet, SortOrder)
       ELSE UNCHANGED sheet
    /\ phase' = "clearing"
    /\ UNCHANGED <<exists, cfg, bound, dim, submitted, row, ret, rejected,
                   reported, wrote>>

\* sendIfNeeded writes row by row to a bound entity with a setMethod.
PerRow == bound /\ HasSetMethod

\* A refused clear leaves the old rows, to which the rewrite appends: the
\* refusal is explored while the list this builds stays within MaxRows.
ClearRefusalInBound ==
    LET old == IF cfg = Absent THEN 0 ELSE Len(cfg.rows)
        new == Len(SelectSeq(sheet, LAMBDA r : ~RowInputIsEmpty(r.cell)))
    IN old + new <= MaxRows

\* Mutant: the clear removes nothing (the path it is given misses the
\* stored list) while its call succeeds.
ClearStoredMissesPath ==
    /\ phase = "clearing"
    /\ IF bound
       THEN \E ok \in BOOLEAN :
              /\ ~ok /\ PerRow => ClearRefusalInBound
              /\ cfg' = cfg
              /\ rejected' = (rejected \/ ~ok)
       ELSE UNCHANGED <<cfg, rejected>>
    /\ phase' = "sending"
    /\ row' = 1
    /\ UNCHANGED <<exists, bound, dim, sheet, submitted, ret, reported, wrote>>

\* Second step, for a bound entity only: the unsetMethod, else
\* deleteFromCE (setting.remove); either leaves nothing at the path, and
\* the result is not looked at.  (An unsetMethod named DO_NOT_UNSET skips
\* this step; no such setting is modelled.)
ClearStored ==
    /\ phase = "clearing"
    /\ IF bound
       THEN \E ok \in BOOLEAN :
              /\ ~ok /\ PerRow => ClearRefusalInBound
              /\ cfg' = IF ok THEN Absent ELSE cfg
              /\ rejected' = (rejected \/ ~ok)
       ELSE UNCHANGED <<cfg, rejected>>
    /\ phase' = "sending"
    /\ row' = 1
    /\ UNCHANGED <<exists, bound, dim, sheet, submitted, ret, reported, wrote>>

\* The value a cell is sent as: Number() of an Int cell ("" gives 0).
WrittenRow(cells) == [k |-> KeyNum(cells), d |-> cells.d]

\* The setMethod adds one row to the module's list, in the configuration
\* as in the running module.
AppendRow(c, r) ==
    IF c = Absent THEN [dim |-> 2, rows |-> <<r>>]
    ELSE [c EXCEPT !.rows = Append(@, r)]

\* Mutant: the row index advanced only when a row was sent.
SendRowAdvancingOnCall ==
    /\ phase = "sending"
    /\ PerRow
    /\ row <= Len(sheet)
    /\ IF ~RowInputIsEmpty(sheet[row].cell)
       THEN /\ \E ok \in BOOLEAN :
                 /\ cfg' = IF ok THEN AppendRow(cfg, WrittenRow(sheet[row].cell)) ELSE cfg
                 /\ ret' = IF ok THEN "ok" ELSE "rejected"
                 /\ rejected' = (rejected \/ ~ok)
            /\ row' = row + 1
       ELSE UNCHANGED <<cfg, ret, rejected, row>>
    /\ UNCHANGED <<exists, phase, bound, dim, sheet, submitted, reported, wrote>>

\* Third step, per-row path: one setMethod call for every non-empty row, in
\* sheet order; ret keeps the result of the last call.
SendRow ==
    /\ phase = "sending"
    /\ PerRow
    /\ row <= Len(sheet)
    /\ IF ~RowInputIsEmpty(sheet[row].cell)
       THEN \E ok \in BOOLEAN :
              /\ cfg' = IF ok THEN AppendRow(cfg, WrittenRow(sheet[row].cell)) ELSE cfg
              /\ ret' = IF ok THEN "ok" ELSE "rejected"
              /\ rejected' = (rejected \/ ~ok)
       ELSE UNCHANGED <<cfg, ret, rejected>>
    /\ row' = row + 1
    /\ UNCHANGED <<exists, phase, bound, dim, sheet, submitted, reported, wrote>>

EndRows ==
    /\ phase = "sending"
    /\ PerRow
    /\ row = Len(sheet) + 1
    /\ phase' = "finishing"
    /\ UNCHANGED <<exists, cfg, bound, dim, sheet, submitted, row, ret,
                   rejected, reported, wrote>>

\* val2XmlrpcVal: for dim > 1 the non-empty rows; for dim 1 row 0 alone, as
\* a flat list.
WholeList ==
    IF dim > 1
    THEN [dim |-> 2,
          rows |-> [i \in 1..Len(SelectSeq(sheet, LAMBDA r : ~RowInputIsEmpty(r.cell)))
                      |-> WrittenRow(SelectSeq(sheet, LAMBDA r : ~RowInputIsEmpty(r.cell))[i].cell)]]
    ELSE [dim |-> 1, rows |-> <<WrittenRow(sheet[1].cell)>>]

\* Third step, otherwise: Setting.static_sendToCE of the whole list.
SendWhole ==
    /\ phase = "sending"
    /\ ~PerRow
    /\ \E ok \in BOOLEAN :
         /\ cfg' = IF ok THEN WholeList ELSE cfg
         /\ ret' = IF ok THEN "ok" ELSE "rejected"
         /\ rejected' = (rejected \/ ~ok)
    /\ phase' = "finishing"
    /\ UNCHANGED <<exists, bound, dim, sheet, submitted, row, reported, wrote>>

Finish ==
    /\ phase = "finishing"
    /\ reported' = (wrote /\ ret # "ok")
    /\ exists' = TRUE
    /\ phase' = "done"
    /\ UNCHANGED <<cfg, bound, dim, sheet, submitted, row, ret, rejected, wrote>>

Next ==
    \/ OpenForm
    \/ AddRow
    \/ \E i \in 1..MaxRows, v \in KeyVals \cup {Empty} : EditCell(i, "k", v)
    \/ \E i \in 1..MaxRows, v \in DataCell : EditCell(i, "d", v)
    \/ Submit
    \/ SortSheet
    \/ ClearStored
    \/ SendRow
    \/ EndRows
    \/ SendWhole
    \/ Finish

Spec == Init /\ [][Next]_vars

(***************************************************************************)
(* Properties.                                                             *)
(***************************************************************************)

\* The rows a stored list holds.
RowsOf(c) == IF c = Absent THEN <<>> ELSE c.rows

\* The complete rows the operator submitted, as they are written.
SubmittedRows ==
    LET full == SelectSeq(submitted, LAMBDA c : ~RowInputIsEmpty(c))
    IN [i \in 1..Len(full) |-> WrittenRow(full[i])]

\* The declared order on stored rows.
InDeclaredOrder(x, y) ==
    IF SortOrder = "ascending" THEN x.k <= y.k ELSE x.k >= y.k

(***************************************************************************)
(* The refinement mapping onto MatrixStore: the rows stored at the path;   *)
(* a submission runs from Submit to Finish; its goal is the bag of the     *)
(* complete rows submitted; it has failed once a call was refused.         *)
(***************************************************************************)
Store == INSTANCE MatrixStore WITH
    Rows   <- StoredRows,
    list   <- RowsOf(cfg),
    busy   <- phase \in {"sorting", "clearing", "sending", "finishing"},
    goal   <- ToBag(SubmittedRows),
    failed <- rejected

(***************************************************************************)
(* ImplementsMatrixStore: sendIfNeeded keeps MatrixStore's promise at      *)
(* every step: the stored list changes only inside a submission, and then  *)
(* only by the clear, by appending one submitted row (the per-row          *)
(* setMethod, after a clear that may have been refused) or by the whole    *)
(* list written at once; and the submission ends with exactly the          *)
(* submitted rows stored unless some call was refused.                     *)
(***************************************************************************)
ImplementsMatrixStore == Store!Spec

(***************************************************************************)
(* MatrixStored: once a submission that changed the matrix has finished    *)
(* and the CE accepted every call, the configuration holds a two-         *)
(* dimensional list made of exactly the complete rows the operator         *)
(* submitted, each once, in the declared key order (spec 4.6) -- through   *)
(* the load of the stored list, the sort, the clear and the rewrite of     *)
(* StructListSetting.sendIfNeeded.                                         *)
(***************************************************************************)
MatrixStored ==
    phase = "done" /\ wrote /\ ~rejected =>
        /\ cfg = Absent \/ cfg.dim = 2
        /\ ToBag(RowsOf(cfg)) = ToBag(SubmittedRows)
        /\ SortOrder # "none" => IsSorted(RowsOf(cfg), InDeclaredOrder)

(***************************************************************************)
(* WrittenRowsComplete: no submission reaches the write protocol with a    *)
(* row that has a value in one cell and none in another (spec 3: the row   *)
(* all-or-nothing rule is a validation error); DLL.validate is what stops  *)
(* it.                                                                     *)
(***************************************************************************)
WrittenRowsComplete ==
    phase \in {"sorting", "clearing", "sending", "finishing"} =>
        \A i \in 1..Len(submitted) : RowAllOrNothing(submitted[i])

=============================================================================
