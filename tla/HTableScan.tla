----------------------------- MODULE HTableScan -----------------------------
(***************************************************************************)
(* The HBase-style scan engine of ob_htable_filter_operator.h: a column    *)
(* tracker (explicit or wildcard), the scan matcher that turns one cell    *)
(* into an ObHTableMatchCode, and the row iterator that drives the         *)
(* underlying scan cursor with next/seek steps and assembles one hbase row *)
(* per get_next_result() call under the batch and size limits.             *)
(*                                                                         *)
(* The underlying table is chosen in Init among all subsets of            *)
(* Rows \X Quals \X Stamps.  The scan cursor is the current cell; seeks   *)
(* move it to the first later cell of the next column or row.  One step   *)
(* of the iterator is one iteration of the get_next_result() loop.        *)
(***************************************************************************)
EXTENDS Integers, Sequences, FiniteSets

CONSTANTS
  Rows,               \* row keys, ordered by <
  Quals,              \* qualifiers, ordered by <
  Stamps,             \* positive cell timestamps
  Requested,          \* requested qualifiers; {} is a wildcard scan
  MaxVersions,        \* max_versions_ of the column tracker
  OldestStamp,        \* oldest_stamp_: 0 when time_to_live_ is 0
  MinStamp, MaxStamp, \* time range [MinStamp, MaxStamp) of the query
  OffsetPerRow,       \* offset_per_row_per_cf_
  LimitPerRow,        \* limit_per_row_per_cf_, -1 is unlimited
  BatchSize,          \* batch_size_, -1 is unlimited
  MaxResultSize,      \* max_result_size_, one unit per cell, -1 unlimited
  Reverse,            \* scan_order_ is reverse
  PastLastColumnCode, \* code of an explicit tracker past its last column
  MaxCells            \* most cells a table of the model holds

ASSUME Rows \subseteq Nat \ {0} /\ Quals \subseteq Nat \ {0} /\ Stamps \subseteq Nat \ {0}
ASSUME Requested \subseteq Quals /\ MaxVersions \in Nat /\ OldestStamp \in Nat
ASSUME OffsetPerRow \in Nat /\ LimitPerRow \in Int /\ BatchSize \in Int
ASSUME Reverse \in BOOLEAN
ASSUME PastLastColumnCode \in {"DONE", "SEEK_NEXT_ROW"}

VARIABLES
  table,          \* the cells the underlying table scan returns
  curr_cell,      \* curr_cell_: the cell under the scan cursor, or EndCell
  curr_row,       \* the matcher's curr_row_ (its row key), or NoRow
  tracker,        \* column tracker state: columns_ index, current_count_, current_qualifier_
  count_per_row,  \* count_per_row_
  one_hbase_row,  \* one_hbase_row_: cells of the result being assembled
  has_more_cells, \* has_more_cells_
  pc,             \* "idle" between get_next_result() calls, "scan" inside one
  out,            \* history: the cells of every returned result, in order
  expected        \* ghost: Reference of the table, fixed in Init

vars == <<table, curr_cell, curr_row, tracker, count_per_row, one_hbase_row,
          has_more_cells, pc, out, expected>>

NoRow == 0
NoQual == 0
Cell == [row : Rows, qual : Quals, ts : Stamps]
EndCell == [row |-> NoRow, qual |-> NoQual, ts |-> 0]

\* ObHTableMatchCode
MatchCodes == {"INCLUDE", "INCLUDE_AND_SEEK_NEXT_COL", "INCLUDE_AND_SEEK_NEXT_ROW",
               "SKIP", "SEEK_NEXT_COL", "SEEK_NEXT_ROW", "SEEK_NEXT_USING_HINT",
               "DONE", "DONE_SCAN", "DONE_REVERSE_SCAN"}
RowBefore(r1, r2) == IF Reverse THEN r1 > r2 ELSE r1 < r2

Before(a, b) ==
  \/ RowBefore(a.row, b.row)
  \/ a.row = b.row /\ a.qual < b.qual
  \/ a.row = b.row /\ a.qual = b.qual /\ a.ts > b.ts

FirstOf(S) == IF S = {} THEN EndCell
              ELSE CHOOSE c \in S : \A d \in S \ {c} : Before(c, d)

Later(c) == {d \in table : Before(c, d)}

\* next_cell(): advance the cursor by one cell
NextCell(c) == FirstOf(Later(c))
\* seek_or_skip_to_next_col(): past every remaining version of c's column
NextCol(c) == FirstOf({d \in Later(c) : d.row # c.row \/ d.qual # c.qual})
\* seek_or_skip_to_next_row(): to the first cell of the following row
NextRow(c) == FirstOf({d \in Later(c) : d.row # c.row})

-----------------------------------------------------------------------------
(* ObHTableColumnTracker                                                   *)
IsExplicit == Requested # {}
NumColumns == Cardinality(Requested)
\* columns_: the requested qualifiers sorted ascending
Columns == [i \in 1..NumColumns |->
              CHOOSE q \in Requested : Cardinality({p \in Requested : p < q}) = i - 1]

\* Fault variant: an expiry test off by one at the oldest retained stamp.
is_expired_inclusive(timestamp) == (-timestamp) <= OldestStamp

\* is_expired(): the cell timestamp is stored negated
is_expired(timestamp) == (-timestamp) < OldestStamp

TrackerInit == [idx |-> 1, count |-> 0, qual |-> NoQual]

\* Fault variant: the wildcard tracker keeps counting across qualifiers.
check_versions_no_reset_cell(cell, t) ==
  LET n == t.count + 1
  IN IF is_expired(-cell.ts) THEN [code |-> "SEEK_NEXT_COL", tr |-> t]
     ELSE IF n < MaxVersions THEN [code |-> "INCLUDE", tr |-> [t EXCEPT !.count = n]]
     ELSE IF n = MaxVersions
          THEN [code |-> "INCLUDE_AND_SEEK_NEXT_COL", tr |-> [t EXCEPT !.count = n]]
     ELSE [code |-> "SEEK_NEXT_COL", tr |-> t]

\* check_versions(): count the version unless it is expired; the budget
\* is reached on the MaxVersions-th live version of the column.
check_versions(cell, t) ==
  LET t1 == IF IsExplicit \/ t.qual = cell.qual THEN t
            ELSE [t EXCEPT !.qual = cell.qual, !.count = 0]   \* reset_cell()
      n == t1.count + 1
  IN IF is_expired(-cell.ts) THEN [code |-> "SEEK_NEXT_COL", tr |-> t1]
     ELSE IF n < MaxVersions THEN [code |-> "INCLUDE", tr |-> [t1 EXCEPT !.count = n]]
     ELSE IF n = MaxVersions
          THEN [code |-> "INCLUDE_AND_SEEK_NEXT_COL", tr |-> [t1 EXCEPT !.count = n]]
     ELSE [code |-> "SEEK_NEXT_COL", tr |-> t1]

\* Fault variant: moving to the next requested column keeps the count.
check_column_keep_count(cell, t) ==
  IF ~IsExplicit THEN check_versions(cell, t)
  ELSE LET later == {i \in t.idx..NumColumns : Columns[i] >= cell.qual}
       IN IF later = {}
          THEN [code |-> PastLastColumnCode, tr |-> [t EXCEPT !.idx = NumColumns + 1]]
          ELSE LET j == CHOOSE i \in later : \A k \in later : i <= k
                   t2 == [t EXCEPT !.idx = j]
               IN IF Columns[j] = cell.qual THEN check_versions(cell, t2)
                  ELSE [code |-> "SEEK_NEXT_COL", tr |-> t2]

\* check_column(): the explicit tracker walks columns_ up to the first
\* requested qualifier >= the cell's; the wildcard tracker takes any column.
check_column(cell, t) ==
  IF ~IsExplicit THEN check_versions(cell, t)
  ELSE LET later == {i \in t.idx..NumColumns : Columns[i] >= cell.qual}
       IN IF later = {}
          THEN [code |-> PastLastColumnCode,
                tr |-> [t EXCEPT !.idx = NumColumns + 1, !.count = 0]]
          ELSE LET j == CHOOSE i \in later : \A k \in later : i <= k
                   t2 == IF j = t.idx THEN t ELSE [t EXCEPT !.idx = j, !.count = 0]
               IN IF Columns[j] = cell.qual THEN check_versions(cell, t2)
                  ELSE [code |-> "SEEK_NEXT_COL", tr |-> t2]

\* get_next_column_or_row(): give up the current column
get_next_column_or_row(t) ==
  IF ~IsExplicit THEN [code |-> "SEEK_NEXT_COL", tr |-> t]
  ELSE IF t.idx + 1 > NumColumns
       THEN [code |-> PastLastColumnCode,
             tr |-> [t EXCEPT !.idx = NumColumns + 1, !.count = 0]]
       ELSE [code |-> "SEEK_NEXT_COL", tr |-> [t EXCEPT !.idx = t.idx + 1, !.count = 0]]

-----------------------------------------------------------------------------
(* ObHTableScanMatcher                                                     *)
InTimeRange(ts) == MinStamp <= ts /\ ts < MaxStamp

\* match() without an hfilter_: row boundary, then time range, then column
\* and versions
match(cell, t) ==
  IF cell.row # curr_row THEN [code |-> "DONE", tr |-> t]
  ELSE IF ~InTimeRange(cell.ts) THEN [code |-> "SKIP", tr |-> t]
  ELSE check_column(cell, t)

-----------------------------------------------------------------------------
(* Reference result of a scan, defined directly from the table: per row,  *)
(* the requested columns' newest MaxVersions live versions inside the     *)
(* time range, in scan order, cut to the row's offset/limit window.       *)
RECURSIVE SortCells(_)
SortCells(S) == IF S = {} THEN <<>>
                ELSE <<FirstOf(S)>> \o SortCells(S \ {FirstOf(S)})

Wanted(q) == ~IsExplicit \/ q \in Requested
NumWanted == IF IsExplicit THEN NumColumns ELSE Cardinality(Quals)
\* a version is live inside [min_stamp, max_stamp) and no older than the TTL
Live(c) == MinStamp <= c.ts /\ c.ts < MaxStamp /\ c.ts >= OldestStamp
VersionRank(c) ==
  Cardinality({d \in table : d.row = c.row /\ d.qual = c.qual /\ Live(d) /\ d.ts > c.ts}) + 1
Included(r) ==
  {c \in table : c.row = r /\ Wanted(c.qual) /\ Live(c) /\ VersionRank(c) <= MaxVersions}
RowRank(c) == Cardinality({d \in Included(c.row) : Before(d, c)}) + 1
InWindow(c) ==
  RowRank(c) > OffsetPerRow /\ (LimitPerRow < 0 \/ RowRank(c) <= OffsetPerRow + LimitPerRow)

Reference == SortCells({c \in UNION {Included(r) : r \in Rows} : InWindow(c)})

-----------------------------------------------------------------------------
(* ObHTableRowIterator                                                     *)
reach_batch_limit(buf) == BatchSize > 0 /\ Len(buf) >= BatchSize
reach_size_limit(buf) == MaxResultSize > 0 /\ Len(buf) >= MaxResultSize

\* Leave get_next_result() returning the assembled result.
Return(buf) ==
  /\ out' = out \o buf
  /\ one_hbase_row' = <<>>
  /\ pc' = "idle"

Init ==
  /\ table \in {T \in SUBSET Cell : Cardinality(T) <= MaxCells}
  /\ curr_cell = FirstOf(table)
  /\ curr_row = NoRow
  /\ tracker = TrackerInit
  /\ count_per_row = 0
  /\ one_hbase_row = <<>>
  /\ has_more_cells = TRUE
  /\ pc = "idle"
  /\ out = <<>>
  /\ expected = Reference

\* ObHTableFilterOperator::get_next_result() calls the row iterator while
\* has_more_result() holds.
get_next_result ==
  /\ pc = "idle" /\ has_more_cells
  /\ pc' = "scan"
  /\ UNCHANGED <<table, curr_cell, curr_row, tracker, count_per_row,
                 one_hbase_row, has_more_cells, out, expected>>

\* Fault variant: the end of the scan does not clear has_more_cells_.
ScanExhaustedKeepMore ==
  /\ pc = "scan" /\ curr_cell = EndCell
  /\ Return(one_hbase_row)
  /\ UNCHANGED <<table, curr_cell, curr_row, tracker, count_per_row, has_more_cells, expected>>

\* The underlying scan is exhausted.
ScanExhausted ==
  /\ pc = "scan" /\ curr_cell = EndCell
  /\ has_more_cells' = FALSE
  /\ Return(one_hbase_row)
  /\ UNCHANGED <<table, curr_cell, curr_row, tracker, count_per_row, expected>>

\* Fault variant: a new row does not reset count_per_row_.
set_to_new_row_keep_count ==
  /\ pc = "scan" /\ curr_cell # EndCell /\ curr_row = NoRow
  /\ curr_row' = curr_cell.row
  /\ tracker' = TrackerInit
  /\ UNCHANGED <<table, curr_cell, count_per_row, one_hbase_row, has_more_cells, pc, out, expected>>

\* set_to_new_row(): the first cell of a row resets the tracker and counter.
set_to_new_row ==
  /\ pc = "scan" /\ curr_cell # EndCell /\ curr_row = NoRow
  /\ curr_row' = curr_cell.row
  /\ tracker' = TrackerInit
  /\ count_per_row' = 0
  /\ UNCHANGED <<table, curr_cell, one_hbase_row, has_more_cells, pc, out, expected>>

\* One iteration of the loop: the match of the current cell.
Matches ==
  IF pc = "scan" /\ curr_cell # EndCell /\ curr_row # NoRow
  THEN {match(curr_cell, tracker)}
  ELSE {}

\* A match r whose code is one of Codes: the tracker takes its new state.
MatchStep(Codes, r) ==
  /\ r.code \in Codes
  /\ tracker' = r.tr
  /\ UNCHANGED <<table, expected>>

\* INCLUDE, INCLUDE_AND_SEEK_NEXT_COL: count the cell, keep it past the offset and within the limit,
\* advance the cursor, and return once the batch or size limit is reached.
IncludeAct(code) ==
  LET n == count_per_row + 1
      keep == n > OffsetPerRow /\ (LimitPerRow < 0 \/ n <= OffsetPerRow + LimitPerRow)
      buf == IF keep THEN Append(one_hbase_row, curr_cell) ELSE one_hbase_row
  IN /\ count_per_row' = n
     /\ curr_cell' = IF code = "INCLUDE" THEN NextCell(curr_cell) ELSE NextCol(curr_cell)
     /\ IF reach_batch_limit(buf) \/ reach_size_limit(buf)
        THEN Return(buf)
        ELSE one_hbase_row' = buf /\ UNCHANGED <<pc, out>>
     /\ UNCHANGED <<curr_row, has_more_cells>>

\* SKIP, SEEK_NEXT_COL, SEEK_NEXT_ROW: move the cursor, keep assembling.
MoveAct(code) ==
  /\ curr_cell' = CASE code = "SKIP" -> NextCell(curr_cell)
                    [] code = "SEEK_NEXT_COL" -> NextCol(curr_cell)
                    [] code = "SEEK_NEXT_ROW" -> NextRow(curr_cell)
  /\ UNCHANGED <<curr_row, count_per_row, one_hbase_row, has_more_cells, pc, out>>

\* DONE: finalize the current row; the cursor stays as the resumption point.
DoneAct(code) ==
  /\ curr_row' = NoRow
  /\ Return(one_hbase_row)
  /\ UNCHANGED <<curr_cell, count_per_row, has_more_cells>>

MatchInclude == \E r \in Matches : MatchStep({"INCLUDE", "INCLUDE_AND_SEEK_NEXT_COL"}, r) /\ IncludeAct(r.code)
MatchMove == \E r \in Matches : MatchStep({"SKIP", "SEEK_NEXT_COL", "SEEK_NEXT_ROW"}, r) /\ MoveAct(r.code)
MatchDone == \E r \in Matches : MatchStep({"DONE"}, r) /\ DoneAct(r.code)

Next ==
  \/ get_next_result
  \/ ScanExhausted
  \/ set_to_new_row
  \/ MatchInclude
  \/ MatchMove
  \/ MatchDone

\* The invoking layer keeps calling while has_more_result(); inside a call
\* the iterator runs to its return.
Fairness == WF_vars(Next)

Spec == Init /\ [][Next]_vars
FairSpec == Spec /\ Fairness

-----------------------------------------------------------------------------
Abstract == INSTANCE ScanResult WITH expected <- expected, returned <- out,
                                           finished <- ~has_more_cells

-----------------------------------------------------------------------------
(* Properties                                                              *)
TypeOK ==
  /\ table \subseteq Cell
  /\ curr_cell \in table \cup {EndCell}
  /\ curr_row \in Rows \cup {NoRow}
  /\ tracker \in [idx : 1..NumColumns + 1, count : 0..MaxVersions, qual : Quals \cup {NoQual}]
  /\ count_per_row \in 0..NumWanted * MaxVersions
  /\ one_hbase_row \in Seq(Cell)
  /\ has_more_cells \in BOOLEAN
  /\ pc \in {"idle", "scan"}
  /\ out \in Seq(Cell)
  /\ expected \in Seq(Cell)

\* Whatever mix of next, seek-to-next-column and seek-to-next-row steps the
\* matcher codes cause, and however results are cut by the batch and size
\* limits, the cells returned so far plus the result being assembled are a
\* prefix of the reference result: no cell is lost, repeated or reordered.
ScanOutputIsReferencePrefix ==
  LET s == out \o one_hbase_row
  IN Len(s) <= Len(expected) /\ s = SubSeq(expected, 1, Len(s))

\* The scan engine implements the abstract scan: every call returns the next
\* slice of the reference result, and the scan ends having returned all of it.
ScanRefinesResult == Abstract!FairSpec

\* Every scan ends: has_more_result() eventually turns false.
ScanTerminates == <>(~has_more_cells)
=============================================================================
