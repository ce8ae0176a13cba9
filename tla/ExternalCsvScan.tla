--------------------------- MODULE ExternalCsvScan ---------------------------
(***************************************************************************)
(* ObCSVTableRowIterator of ob_external_table_access_service.cpp reading   *)
(* an external table: a list of scan tasks (key_ranges_), each a file with *)
(* a line range, read through ObExternalStreamFileReader into a growable   *)
(* buffer and cut into lines by the CSV parser.                            *)
(*                                                                         *)
(* Bytes are abstracted to offsets: a file is the sequence of the offsets *)
(* just past its lines (each ends with its newline), the buffer holds the  *)
(* file bytes [bstart, dend) of the open file, pos is the parse position.  *)
(* A call of get_next_row(s) runs as a sequence of steps, one per         *)
(* iteration of its do-while and of the loops of skip_lines(),             *)
(* load_next_buf() and open_next_file(); pc says where the call is.        *)
(***************************************************************************)
EXTENDS Integers, Sequences, FiniteSets
LOCAL INSTANCE SequencesExt

CONSTANTS
  FileIds,        \* external files
  MaxLines,       \* most lines in one file
  MaxLineLen,     \* longest line, newline included
  Tasks,          \* key_ranges_: [file_id, part_id, start, end] per task
  SkipHeader,     \* skip_header_lines_ of the CSV format
  InitBufLen,     \* first buffer size chosen by expand_buf()
  MaxBufferSize,  \* MAX_BUFFER_SIZE of expand_buf()
  Capacities,     \* capacity arguments of get_next_rows()
  MaxRescans,     \* bound on table_rescan() calls
  IoErrors,       \* the storage may answer a size probe with OB_IO_ERROR
  ChangeKinds,    \* how files change after listing: "rewrite", "truncate",
                  \* "remove"
  MaxChanges,     \* bound on such changes
  ReuseLimits     \* values line_count_limit_ may have after init() or reuse()

MinLine == 1           \* MIN_EXTERNAL_TABLE_LINE_NUMBER
Int64Max == 1000       \* INT64_MAX: exceeds every line count of the model

ASSUME Tasks \in Seq([file_id : FileIds, part_id : Nat, start : Nat, end : Nat])
ASSUME InitBufLen \in Nat \ {0} /\ MaxBufferSize >= InitBufLen
ASSUME IoErrors \in BOOLEAN
\* StateValues and its reuse() are declared in a header that is not in the
\* repository: line_count_limit_ starts at 0 or at INT64_MAX there.
ASSUME ReuseLimits \subseteq {0, Int64Max} /\ ReuseLimits # {}

\* answers of one size probe: does the storage report OB_IO_ERROR?
IoAnswers == IF IoErrors THEN BOOLEAN ELSE {FALSE}

VARIABLES
  files,    \* offset just past each line of each external file
  it,       \* state_ of the iterator and its file_reader_
  ret,      \* result code of the last call
  rescans,  \* table_rescan() calls so far
  out,      \* history: <<file_id, line, part_id>> of every row of this scan
  pc,       \* where the running call is; "idle" between calls
  call,     \* the running call: "get_next_row", "get_next_rows" or "none"
  batch,    \* its batch size: 1, or the capacity of get_next_rows()
  changes,  \* changes made to files since they were listed
  removed_at \* ghost: per file, "none", "before_probe" or "after_probe"

vars == <<files, it, ret, rescans, out, pc, call, batch, changes, removed_at>>

NumTasks == Len(Tasks)
Size(f) == IF files[f] = <<>> THEN 0 ELSE Last(files[f])
\* file offset just past the k-th line of file f
LineEnd(f, k) == files[f][k]

Result(s, r) == [it |-> s, ret |-> r]

-----------------------------------------------------------------------------
(* ObExternalDataAccessDriver / ObExternalStreamFileReader                 *)

Exists(f) == removed_at[f] = "none"

\* get_file_size(): OB_OBJECT_NOT_EXIST and OB_IO_ERROR become size -1
get_file_size(f, io_error) == IF io_error \/ ~Exists(f) THEN -1 ELSE Size(f)

\* close(): only an opened reader is reset
close(s) == IF s.opened
            THEN [s EXCEPT !.opened = FALSE, !.eof = TRUE, !.foffset = 0, !.fsize = 0]
            ELSE s

\* open(): the size is probed again; no decompressor for plain files
open(s, f, io_error) ==
  [s EXCEPT !.opened = TRUE, !.file = f, !.eof = FALSE,
            !.fsize = get_file_size(f, io_error)]

\* ObExternalDataAccessDriver::open(): refused on an opened driver, and the
\* storage adapter cannot open a file that is no longer there
driver_open(s, f) ==
  CASE s.opened   -> "INIT_TWICE"
    [] ~Exists(f) -> "OBJECT_NOT_EXIST"
    [] OTHER      -> "OK"

\* bytes pread() delivers: what the file still holds, up to the capacity
ReadSize(s, cap) ==
  IF s.opened THEN Max({0, Min({cap, Size(s.file) - s.foffset})}) ELSE 0

\* fault variant: end of file only once the offset is past the size
read_eof_strict(s, cap) ==
  LET n == ReadSize(s, cap)
  IN [s EXCEPT !.foffset = @ + n, !.eof = s.foffset + n > s.fsize]

\* read() through read_from_driver(): end of file is judged against the
\* file_size_ probed by open(), not against what pread() returned.
read(s, cap) ==
  LET n == ReadSize(s, cap)
  IN [s EXCEPT !.foffset = @ + n, !.eof = s.foffset + n >= s.fsize]


-----------------------------------------------------------------------------
(* ObCSVTableRowIterator                                                   *)

\* expand_buf() on an allocated buffer: double it, keep [pos, data_end)
expand_buf(s) ==
  IF 2 * s.buf_len > MaxBufferSize
  THEN Result(s, "SIZE_OVERFLOW")
  ELSE Result([s EXCEPT !.buf_len = 2 * @, !.bstart = s.pos], "OK")

\* fault variant: a line range skips one line too many
next_task_skip_start(s, t) ==
  LET whole == t.start = MinLine /\ t.end = Int64Max
  IN [s EXCEPT !.part_id = IF t.part_id # 0 THEN t.part_id ELSE @,
               !.cur_file_id = t.file_id,
               !.cur_line = IF whole THEN MinLine ELSE t.start,
               !.skip = IF whole THEN SkipHeader ELSE SkipHeader + t.start,
               !.limit = IF whole THEN Int64Max ELSE t.end - t.start + 1]

\* one pass of the do-while of open_next_file(): state_ takes the task's
\* partition, file, first line, lines to skip and line count
next_task(s, t) ==
  LET whole == t.start = MinLine /\ t.end = Int64Max
  IN [s EXCEPT !.part_id = IF t.part_id # 0 THEN t.part_id ELSE @,
               !.cur_file_id = t.file_id,
               !.cur_line = IF whole THEN MinLine ELSE t.start,
               !.skip = IF whole THEN SkipHeader ELSE SkipHeader + t.start - 1,
               !.limit = IF whole THEN Int64Max ELSE t.end - t.start + 1]

\* fault variant: the unfinished tail always makes the buffer grow
prepare_load_always_expand(s) ==
  IF s.dend - s.pos > 0
  THEN expand_buf([s EXCEPT !.bstart = s.pos])
  ELSE Result([s EXCEPT !.bstart = s.pos], "OK")

\* load_next_buf() on an open file: the unfinished tail is moved to the
\* front of the buffer, or the buffer is expanded when the tail already
\* starts there
prepare_load(s) ==
  IF s.dend - s.pos > 0 /\ s.pos = s.bstart
  THEN expand_buf(s)
  ELSE Result([s EXCEPT !.bstart = s.pos], "OK")

\* room left behind the data kept in the buffer
ReadCap(s) == s.buf_len - (s.dend - s.bstart)

\* fault variant: the read ignores the tail already in the buffer
load_whole_capacity(q) ==
  [read(q, q.buf_len) EXCEPT !.pos = q.bstart, !.dend = q.dend + ReadSize(q, q.buf_len)]

\* read() into the prepared buffer: parsing restarts at its front
load(q) ==
  [read(q, ReadCap(q)) EXCEPT !.pos = q.bstart, !.dend = q.dend + ReadSize(q, ReadCap(q))]

\* lines of file f that end at or before offset off
LinesUpTo(f, off) == Cardinality({k \in DOMAIN files[f] : LineEnd(f, k) <= off})

\* ObCSVGeneralParser::scan(): consume up to nrows complete lines of
\* [pos, data_end); returns the advanced state and the lines consumed.
scan(s, nrows) ==
  IF s.pos = s.dend THEN [it |-> s, n |-> 0] ELSE
  LET first == LinesUpTo(s.file, s.pos)
      k == Min({nrows, LinesUpTo(s.file, s.dend) - first})
  IN [it |-> IF k = 0 THEN s ELSE [s EXCEPT !.pos = LineEnd(s.file, first + k)],
      n |-> k]

\* rows of a call: file id, line number and partition of each
Rows(s, n) == [i \in 1 .. n |-> <<s.cur_file_id, s.cur_line + i - 1, s.part_id>>]

\* fault variant: the line number is not advanced past the returned rows
Returned_keep_line(s, n) == [s EXCEPT !.limit = @ - n]

\* after the do-while: line_count_limit_ and cur_line_number_ advance
Returned(s, n) == [s EXCEPT !.limit = @ - n, !.cur_line = @ + n]

\* the end of a call: on success the rows are output and counted,
\* get_next_rows() turns OB_ITER_END after rows into success
Finish(s, r, n) ==
  LET ok == r = "OK" \/ (call = "get_next_rows" /\ r = "ITER_END" /\ n > 0)
  IN /\ it' = IF ok /\ n > 0 THEN Returned(s, n) ELSE s
     /\ out' = IF ok THEN out \o Rows(s, n) ELSE out
     /\ ret' = IF ok THEN "OK" ELSE r
     /\ pc' = "idle"
     /\ call' = "none"
     /\ batch' = 0

-----------------------------------------------------------------------------
(* The steps of a call                                                     *)

\* get_next_row(): a call for one row begins at the top of its do-while
get_next_row ==
  /\ pc = "idle" /\ ret = "OK"
  /\ pc' = "loop" /\ call' = "get_next_row" /\ batch' = 1
  /\ UNCHANGED <<files, changes, removed_at, it, ret, rescans, out>>

\* get_next_rows(count, capacity): a call for a batch of rows begins
get_next_rows ==
  /\ pc = "idle" /\ ret = "OK"
  /\ \E capacity \in Capacities : batch' = capacity
  /\ pc' = "loop" /\ call' = "get_next_rows"
  /\ UNCHANGED <<files, changes, removed_at, it, ret, rescans, out>>

\* skip_lines(), one pass: scan away up to skip_lines_ lines; while some
\* remain, load_next_buf() and pass again (back at the top of the call's
\* do-while, which calls skip_lines() while skip_lines_ > 0)
SkipLines ==
  /\ pc = "loop" /\ it.skip > 0
  /\ LET sc == scan(it, it.skip)
     IN /\ it' = [sc.it EXCEPT !.skip = @ - sc.n]
        /\ pc' = IF it.skip - sc.n > 0 THEN "load" ELSE "loop"
  /\ UNCHANGED <<files, changes, removed_at, ret, rescans, out, call, batch>>

\* the body of the do-while: scan MIN(batch_size, line_count_limit_)
\* lines; the call ends once a row came, else load_next_buf() follows
ScanRows ==
  /\ pc = "loop" /\ it.skip <= 0
  /\ LET nrows == Min({batch, it.limit})
         sc == IF nrows = 0 THEN [it |-> it, n |-> 0] ELSE scan(it, nrows)
     IN IF sc.n >= 1
        THEN Finish(sc.it, "OK", sc.n)
        ELSE /\ it' = sc.it
             /\ pc' = "load"
             /\ UNCHANGED <<ret, out, call, batch>>
  /\ UNCHANGED <<files, changes, removed_at, rescans>>

\* fault variant: open_next_file() without its leading close()
LoadNextFile_no_close ==
  /\ pc = "load" /\ it.eof
  /\ pc' = "next_task"
  /\ UNCHANGED <<it, files, changes, removed_at, ret, rescans, out, call, batch>>

\* load_next_buf() at the end of the file: open_next_file() closes the
\* reader and looks for the next task
LoadNextFile ==
  /\ pc = "load" /\ it.eof
  /\ it' = close(it)
  /\ pc' = "next_task"
  /\ UNCHANGED <<files, changes, removed_at, ret, rescans, out, call, batch>>

\* load_next_buf() within the file: keep the unfinished tail, expanding
\* the buffer if the tail fills it from its front
LoadTail ==
  /\ pc = "load" /\ ~it.eof
  /\ LET p == prepare_load(it)
     IN IF p.ret # "OK"
        THEN Finish(it, p.ret, 0)
        ELSE /\ it' = p.it
             /\ pc' = "read"
             /\ UNCHANGED <<ret, out, call, batch>>
  /\ UNCHANGED <<files, changes, removed_at, rescans>>

\* fault variant: only a probed size of 0 is passed over, not -1
NextTask_skip_empty_only ==
  /\ pc = "next_task"
  /\ IF it.file_idx >= NumTasks
     THEN Finish([it EXCEPT !.file_idx = @ + 1], "ITER_END", 0)
     ELSE \E io \in IoAnswers :
            LET t == Tasks[it.file_idx + 1]
            IN /\ it' = next_task([it EXCEPT !.file_idx = @ + 1], t)
               /\ pc' = IF get_file_size(t.file_id, io) = 0 THEN "next_task" ELSE "open"
               /\ UNCHANGED <<ret, out, call, batch>>
  /\ UNCHANGED <<files, changes, removed_at, rescans>>

\* open_next_file(), one pass of its do-while: take the next task
\* (OB_ITER_END past the last one) and probe its file; files of size 0
\* or -1 are passed over
NextTask ==
  /\ pc = "next_task"
  /\ IF it.file_idx >= NumTasks
     THEN Finish([it EXCEPT !.file_idx = @ + 1], "ITER_END", 0)
     ELSE \E io \in IoAnswers :
            LET t == Tasks[it.file_idx + 1]
            IN /\ it' = next_task([it EXCEPT !.file_idx = @ + 1], t)
               /\ pc' = IF get_file_size(t.file_id, io) <= 0 THEN "next_task" ELSE "open"
               /\ UNCHANGED <<ret, out, call, batch>>
  /\ UNCHANGED <<files, changes, removed_at, rescans>>

\* open_next_file() ends with file_reader_.open(); load_next_buf() then
\* reads into the whole buffer.  When the driver's open() fails, the call
\* ends with its error.
OpenFile ==
  /\ pc = "open"
  /\ IF driver_open(it, it.cur_file_id) = "OK"
     THEN /\ \E io \in IoAnswers :
               it' = [open(it, it.cur_file_id, io) EXCEPT !.bstart = 0, !.pos = 0, !.dend = 0]
          /\ pc' = "read"
          /\ UNCHANGED <<ret, out, call, batch>>
     ELSE Finish(it, driver_open(it, it.cur_file_id), 0)
  /\ UNCHANGED <<files, changes, removed_at, rescans>>

\* the read of load_next_buf(): a read of no bytes repeats its do-while,
\* otherwise the call's do-while continues; read() refuses an empty buffer
ReadBuf ==
  /\ pc = "read"
  /\ IF ReadCap(it) <= 0
     THEN Finish(it, "INVALID_ARGUMENT", 0)
     ELSE /\ it' = load(it)
          /\ pc' = IF ReadSize(it, ReadCap(it)) <= 0 THEN "load" ELSE "loop"
          /\ UNCHANGED <<ret, out, call, batch>>
  /\ UNCHANGED <<files, changes, removed_at, rescans>>

-----------------------------------------------------------------------------
(* The caller: ObExternalTableAccessService and the table scan operator    *)

\* line end offsets of a file whose lines have the lengths l
Ends(l) == [k \in DOMAIN l |-> FoldLeft(+, 0, SubSeq(l, 1, k))]

\* every content of up to n lines of 1 .. MaxLineLen bytes for each file
Contents(n) == {Ends(l) : l \in UNION {[1 .. k -> 1 .. MaxLineLen] : k \in 0 .. n}}
FilesOf(n) == [FileIds -> Contents(n)]
FileContents == Contents(MaxLines)

\* state_ and file_reader_ after init(): expand_buf() allocated the first
\* buffer, no file is open and the reader reports end of file;
\* line_count_limit_ is l, one of ReuseLimits.
IterInit(l) == [file_idx |-> 0, part_id |-> 0, cur_file_id |-> 0, cur_line |-> 0,
             skip |-> 0, limit |-> l, buf_len |-> InitBufLen,
             bstart |-> 0, pos |-> 0, dend |-> 0,
             opened |-> FALSE, file |-> 0, foffset |-> 0, fsize |-> 0, eof |-> TRUE]

\* reset() -> state_.reuse(): state_ back to its initial values with the
\* buffer kept empty; file_reader_ is left as it is.
reuse(s, l) == [IterInit(l) EXCEPT !.buf_len = s.buf_len,
               !.bstart = s.foffset, !.pos = s.foffset, !.dend = s.foffset,
               !.opened = s.opened, !.file = s.file, !.foffset = s.foffset,
               !.fsize = s.fsize, !.eof = s.eof]

\* an empty file belongs to no partition (open_next_file); part 0 tasks
\* list empty files only
Init ==
  /\ files \in FilesOf(MaxLines)
  /\ \A i \in 1 .. NumTasks : Tasks[i].part_id = 0 => files[Tasks[i].file_id] = <<>>
  /\ \E l \in ReuseLimits : it = IterInit(l)
  /\ ret = "OK"
  /\ rescans = 0
  /\ out = <<>>
  /\ pc = "idle"
  /\ call = "none"
  /\ batch = 0
  /\ changes = 0
  /\ removed_at = [f \in FileIds |-> "none"]

\* table_rescan() / reuse_scan_iter(): reset() the iterator, a new scan begins
table_rescan ==
  /\ pc = "idle"
  /\ ret \in {"OK", "ITER_END"}
  /\ rescans < MaxRescans
  /\ \E l \in ReuseLimits : it' = reuse(it, l)
  /\ ret' = "OK"
  /\ out' = <<>>
  /\ rescans' = rescans + 1
  /\ UNCHANGED <<files, changes, removed_at, pc, call, batch>>

-----------------------------------------------------------------------------
(* The files change after they were listed                                 *)

\* a file is rewritten between listing and the scan (or between two scans):
\* the tasks still name it with its old partition and line ranges
FileRewritten ==
  /\ "rewrite" \in ChangeKinds /\ changes < MaxChanges
  /\ pc = "idle" /\ it.file_idx = 0
  /\ \E f \in FileIds, c \in FileContents :
       Exists(f) /\ files' = [files EXCEPT ![f] = c]
  /\ changes' = changes + 1
  /\ UNCHANGED <<it, ret, rescans, out, pc, call, batch, removed_at>>

\* the open file is cut to whole lines while it is read, keeping what has
\* been read (log rotation, a rewrite in place)
FileTruncated ==
  /\ "truncate" \in ChangeKinds /\ changes < MaxChanges
  /\ it.opened /\ ~it.eof
  /\ \E k \in 0 .. Len(files[it.file]) - 1 :
       /\ (IF k = 0 THEN 0 ELSE LineEnd(it.file, k)) >= it.foffset
       /\ files' = [files EXCEPT ![it.file] = SubSeq(@, 1, k)]
  /\ changes' = changes + 1
  /\ UNCHANGED <<it, ret, rescans, out, pc, call, batch, removed_at>>

\* no task before the current one names file f; the current one may, once
\* open_next_file() has probed it and is about to open it
NotYetRead(f) ==
  /\ ~(it.opened /\ it.file = f)
  /\ \A i \in 1 .. Min({it.file_idx, NumTasks}) :
       Tasks[i].file_id = f => i = it.file_idx /\ pc = "open"

\* a listed file is deleted before the scan has read any of it: before
\* open_next_file() reaches it, or between its size probe and the open
FileRemoved ==
  /\ "remove" \in ChangeKinds /\ changes < MaxChanges
  /\ \E f \in FileIds :
       /\ Exists(f) /\ NotYetRead(f)
       /\ files' = [files EXCEPT ![f] = <<>>]
       /\ removed_at' = [removed_at EXCEPT ![f] =
             IF pc = "open" /\ f = it.cur_file_id THEN "after_probe" ELSE "before_probe"]
  /\ changes' = changes + 1
  /\ UNCHANGED <<it, ret, rescans, out, pc, call, batch>>

Next ==
  \/ FileRewritten \/ FileRemoved
  \/ get_next_row \/ get_next_rows \/ table_rescan
  \/ SkipLines \/ ScanRows \/ LoadNextFile \/ LoadTail \/ NextTask
  \/ OpenFile \/ ReadBuf

Spec == Init /\ [][Next]_vars

\* The iterator runs a call to its end on one thread, and the table scan
\* operator calls again while a call returned OB_SUCCESS.
FairSpec == Spec /\ WF_vars(Next)

\* the scan with the open file also cut while it is read
TruncNext == Next \/ FileTruncated

TruncFairSpec == Init /\ [][TruncNext]_vars /\ WF_vars(TruncNext)

-----------------------------------------------------------------------------
(* What the scan promises                                                  *)

Whole(t) == t.start = MinLine /\ t.end = Int64Max
DataLines(f) == Max({0, Len(files[f]) - SkipHeader})

\* rows of task i: the data lines of its range that the file holds, each
\* with its line number counted after the header, and the task's partition
TaskRows(i) ==
  LET t == Tasks[i]
      lo == IF Whole(t) THEN MinLine ELSE t.start
      hi == IF Whole(t) THEN DataLines(t.file_id) ELSE Min({t.end, DataLines(t.file_id)})
  IN [k \in 1 .. Max({0, hi - lo + 1}) |-> <<t.file_id, lo + k - 1, t.part_id>>]

RefRows == FlattenSeq([i \in 1 .. NumTasks |-> TaskRows(i)])

LineLen(f, k) == LineEnd(f, k) - (IF k = 1 THEN 0 ELSE LineEnd(f, k - 1))

LongestLine == Max({0} \cup UNION {{LineLen(f, k) : k \in DOMAIN files[f]} : f \in FileIds})

Pcs == {"idle", "loop", "load", "next_task", "open", "read"}

CsvTypeOK ==
  /\ files \in [FileIds -> Seq(Nat)]
  /\ it.file_idx \in 0 .. NumTasks + 1
  /\ it.buf_len \in {InitBufLen * 2^k : k \in 0 .. MaxBufferSize} \cap 1 .. MaxBufferSize
  /\ it.bstart <= it.pos /\ it.pos <= it.dend
  /\ it.dend - it.bstart <= it.buf_len
  /\ it.skip >= 0 /\ it.limit >= 0
  /\ ret \in {"OK", "ITER_END", "SIZE_OVERFLOW", "INVALID_ARGUMENT", "OBJECT_NOT_EXIST",
             "INIT_TWICE"}
  /\ rescans \in 0 .. MaxRescans
  /\ pc \in Pcs
  /\ (pc = "idle") = (call = "none")
  /\ batch \in {0, 1} \cup Capacities
  /\ changes \in 0 .. MaxChanges
  /\ removed_at \in [FileIds -> {"none", "before_probe", "after_probe"}]

\* Every row a call of get_next_row()/get_next_rows() returned since the
\* last rescan continues the expected rows of the tasks in order (header
\* skipped, line range respected, empty files left out, line numbers and
\* partition values right), and OB_ITER_END comes only after all of them.
RowsAreReferencePrefix ==
  /\ IsPrefix(out, RefRows)
  /\ ret = "ITER_END" => out = RefRows

\* The same for the first scan, before any table_rescan(): after a rescan
\* the rows also depend on line_count_limit_ as reuse() leaves it, which the
\* repository does not fix.
FirstScanRowsAreReferencePrefix == rescans = 0 => RowsAreReferencePrefix

\* load_next_buf() expands the buffer only when "the buffer is not big
\* enough to store data line": a buffer larger than the first one is at
\* most twice as long as the longest line.
BufferGrowsOnlyForLongLines ==
  it.buf_len > InitBufLen => LongestLine > it.buf_len \div 2

\* open_next_file() skips "empty file and non-exist file": a listed file
\* deleted before its size probe is passed over like an empty one, and the
\* scan fails with OB_OBJECT_NOT_EXIST only when the file disappeared in
\* the window between get_file_size() and file_reader_.open().
MissingFileFailsOnlyAfterProbe ==
  ret = "OBJECT_NOT_EXIST" => removed_at[it.cur_file_id] = "after_probe"

\* reset() leaves file_reader_ open for the next scan, and load_next_buf()
\* moves on at end of file without closing it: only the close() at the
\* top of open_next_file() keeps file_reader_.open() from answering
\* OB_INIT_TWICE, in every scan, rescans included.
ReaderNeverOpenedTwice == ret # "INIT_TWICE"

\* The scan ends: every call returns (the do-whiles of get_next_row(s),
\* skip_lines(), load_next_buf() and open_next_file() all exit), and a
\* caller that calls again after every success reaches OB_ITER_END or an
\* error, where it stays.
ScanEnds == <>[](pc = "idle" /\ ret # "OK")
=============================================================================
