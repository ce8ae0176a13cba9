# TLA+ models of the note_ob scan paths

This directory holds TLA+ models of the two parts of the repository that
have state and operations you can check: the HBase-compatible scan of the
table API (`src/src/observer/table/ob_htable_filter_operator.h`) and the
external-table CSV reader (`src/src/sql/engine/table/ob_external_table_access_service.cpp`).
The TLC model checker checks each model under small, bounded configurations.
`PROJECT.json` lists the components, runs, mutants, the map from each
definition to source lines, the findings and the hazards.

## The system

| Part | Source | What it does |
|---|---|---|
| Column trackers (explicit, wildcard) | `ob_htable_filter_operator.h:52-165` | Decide for each cell whether its column is requested, how many versions are kept, and whether the TTL has expired it. |
| Scan matcher | `ob_htable_filter_operator.h:167-203` | Turns a cell into an `ObHTableMatchCode`. It checks for a row change, then the time range, then the tracker, then merges in the filter's return code (the filters are not in the repository and are not modelled). |
| Row iterator and reversed row iterator | `ob_htable_filter_operator.h:205-309` | Drives the cursor over the child scan and acts on each match code. Assembles one row's result per `get_next_result`, within the per-row offset and limit and the batch and size limits. |
| Filter operator | `ob_htable_filter_operator.h:311-350` | The entry point. The caller calls it while `has_more_result()`. |
| Data access driver | `ob_external_table_access_service.cpp:45-343` | Opens, sizes and preads a file on local or object storage. |
| Stream file reader | `…access_service.cpp:353-556` | Reads a file sequentially, with or without decompression, and tracks the offset and end of file. |
| CSV row iterator | `…access_service.cpp:672-1319` | Walks the scan tasks (`key_ranges_`: file, partition, line range). Reads each file into a growable buffer and lets the CSV parser cut complete lines. Skips headers and applies the line range, then returns rows with their file id and line number. |
| Access service | `…access_service.cpp:558-670` | `table_scan` creates and initialises the iterator. `table_rescan` and `reuse_scan_iter` reset it. |

The two scan paths do not interact. The headers for the group-commit
manager, the DBMS scheduler job info, the column-store replica helpers and
`rb_is_empty` hold declarations only, so they are not modelled (see below).

For the HBase scan, only the header is in the repository. Its `.cpp` is not.
Where the header gives code (`is_expired`, `has_more_result`,
`set_to_new_row`/`clear_curr_row`, the match codes, the tracker fields), the
model follows it. The rest follows `spec.md`, and `PROJECT.json` marks those
definitions `spec_modelled`.

## Modules

### `HTableScan.tla`: the HBase scan engine

- **State:**
  - `table` is the set of cells the child scan would return. Cells are records of row, qualifier and timestamp.
  - The cursor `curr_cell`.
  - The matcher's `curr_row`.
  - The tracker record (`curr_column_idx_`, `current_count_`, current qualifier).
  - `count_per_row_`.
  - The result being assembled, `one_hbase_row`.
  - `has_more_cells`.
  - `pc`, which says whether a `get_next_result` call is in progress.
  - The history `out` of everything returned.
  - `expected`, the reference result. It is computed once in `Init`.
- **Helpers:**
  - The scan order is `Before`. It puts rows in ascending order, or descending when `Reverse`, then qualifiers ascending, then timestamps descending. Reversed order stands in for `ObHTableReversedRowIterator`.
  - `NextCell`, `NextCol`, `NextRow` and `Later` are the cursor moves of `next_cell` and `seek_or_skip_to_next_*`.
- **Tracker:**
  - `check_column` walks the requested columns.
  - `check_versions` counts versions and applies TTL expiry through `is_expired`.
  - `get_next_column_or_row` picks the next column or row.
  - What the explicit tracker answers past its last column is the constant `PastLastColumnCode`.
- **Matcher:**
  - `match` checks the row, then `InTimeRange`, then `check_column`. No `hfilter_` is attached: the filter classes, and where a `SEEK_NEXT_USING_HINT` hint may point, are not in the repository.
- **Actions:**
  - `get_next_result` starts a call while `has_more_cells`.
  - `ScanExhausted` ends the scan when the child scan is exhausted.
  - `set_to_new_row` starts a row.
  - `MatchInclude`, `MatchMove` and `MatchDone` each handle one arm of the match-code switch:
    - `INCLUDE` and `INCLUDE_AND_SEEK_NEXT_COL` append the cell when it falls in the per-row offset and limit window. They return when the batch or size limit is reached.
    - `SKIP`, `SEEK_NEXT_COL` and `SEEK_NEXT_ROW` move the cursor.
    - `DONE` finalizes the row without moving.
    - `SEEK_NEXT_USING_HINT` and `DONE_SCAN` come only from a filter, so they have no action.
  - A call ends by returning `one_hbase_row` (`Return`).
- **Reference:** `Reference` is the expected scan result, defined straight from the table. For each row it takes the requested columns' newest `MaxVersions` live versions in the time range, in scan order, cut to the per-row window.
- **Refinement:** the module instantiates `ScanResult` with `returned <- out` and `finished <- ~has_more_cells`.

### `ScanResult.tla`: what a scan promises

This is an abstract scan. Each call returns the next slice of the expected
result, and the scan ends only after it has returned all of it. `FairSpec`
makes the caller keep calling. Two modules refine it:
- `HTableScan` maps the returned cells to `returned`, and `~has_more_cells` to `finished`.
- `StreamFileReader` maps `out` to `returned` and the decompressed output of every file, one after another, to `expected`. `finished` is the scan's `OB_ITER_END`.

### `ExternalCsvScan.tla`: the external CSV reader

- **Bytes as offsets:**
  - A file is the sequence of the offsets just past its lines. Each line ends with its newline.
  - The buffer is the window `[bstart, dend)` of the open file. The parse position is `pos`, and `buf_len` is the buffer size.
  - `it` holds the fields of `state_` and `file_reader_`: task index, partition, file id, line number, `skip_lines_`, `line_count_limit_`, the buffer window, and the reader's open flag, file, offset, size and end-of-file flag.
- **Operators for the source functions:** operators from that state to a new state, or to a record `[it, ret]`:
  - `get_file_size`, `open`, `close` and `read`
  - `expand_buf`
  - `next_task`: the `state_` fields one task sets
  - `prepare_load` and `load`: the two halves of one pass of `load_next_buf`
  - `reuse`: what `reset()` does. `reset()` only calls `state_.reuse()`, whose class is declared in a header that is not in the repository. So `line_count_limit_` after `init()` and after `reuse()` is a choice from the constant `ReuseLimits` (0 or `INT64_MAX`); the code itself sets it only in `open_next_file` (lines 946 and 953).
  - `scan` is the parser's contract: it consumes up to `nrows` complete lines of `[pos, data_end)`.
- **A call as a sequence of steps:** `pc` says where the running call is. Each step is one pass of one of the call's loops:
  - `get_next_row` and `get_next_rows` start a call with its batch size.
  - `SkipLines` is one pass of `skip_lines()`.
  - `ScanRows` is one pass of the call's do-while. It ends the call through `Finish` once rows came.
  - `LoadNextFile`, `NextTask` and `OpenFile` are `load_next_buf()` at end of file and the do-while of `open_next_file()`.
  - `LoadTail` and `ReadBuf` are `load_next_buf()` within a file, and its read.
  - `table_rescan` runs between calls.
- **Why steps rather than one atomic call:** the iterator is single-threaded, so nothing interleaves inside a call. Splitting the call into steps makes each loop a cycle TLC can see. That lets `ScanEnds` check that the loops exit.
- **IO errors:** when `IoErrors` is set, every size probe (in `open_next_file` and in `open`) may answer `OB_IO_ERROR`.
- **Files that change after listing:** the file list and the tasks are computed before the scan; the files themselves live on shared storage. Two environment actions model this, bounded by `MaxChanges`:
  - `FileRewritten` (when `"rewrite" \in ChangeKinds`) gives a file any content while the scan has not reached its first task, i.e. between listing and the scan, or between two scans.
  - `FileTruncated` (when `"truncate" \in ChangeKinds`) cuts the open file to whole lines, keeping what has been read, while it is read. It is not in `Next`; only `TruncNext` and `TruncFairSpec` include it.
  - `FileRemoved` (when `"remove" \in ChangeKinds`) deletes a file no task has read yet. This can happen before `open_next_file` reaches the file, or in the window between its size probe and `file_reader_.open()` (`NotYetRead`). The ghost `removed_at` records which of the two it was. A removed file probes as -1 (`Exists`), and the driver's open of it fails (`driver_open`, which also has the driver's `OB_INIT_TWICE` guard). `OpenFile` then ends the call with that error.
- **Reference:** `RefRows` lists the expected rows. For each task in order, it lists the data lines of its range that the file holds, with their line numbers and the task's partition. Empty files contribute nothing.

### `StreamFileReader.tla`: the decompressing stream file reader

- **What it models:** `ObExternalStreamFileReader` (`…access_service.cpp:345-556`) reading files one after another, driven the way `open_next_file()` and `load_next_buf()` drive it. The CSV parsing is left out.
- **Data:** a stored byte is `<<file, index>>`. `files[f][i]` is how many output bytes it expands to. Plain files store one output byte per byte. A compressed file ends in a trailer (gzip CRC and size, zstd checksum) that expands to nothing. Every output byte carries its origin, so lost, repeated or foreign output shows in `out`.
- **State:** `r` holds the reader's members: `file_offset_`, `file_size_`, `is_file_end_`, the compressed buffer `buf` with `consumed_data_size_`, the decompressor's format `dec` (`"NONE"` is a null `decompressor_`), and the output it holds back, `pend`.
- **Operators:** one per function: `open`, `close`, `create_decompressor`, `read`, `read_decompress` and `read_compressed_data`. `DriverBytes` stands for `read_from_driver` and `pread`.
- **The decompressor:** `ObDecompressor` is not in the repository, so `decompress` is a nondeterministic choice of how many bytes it consumes (`Consumable`). It stops early only when its output is full. A format outside `HoldingFormats` does not take in a stream's trailer while it still holds output, which is how zlib's inflate behaves. A format in `HoldingFormats` may do so, which is how zstd's streaming decompressor behaves.
- **Actions:** `SkipEmptyFile`, `OpenNextFile` and `EndOfFiles` are the do-while of `open_next_file()`. `Release` is `revert_scan_iter`, whose destructor calls `reset()`. `LoadNextBuf` is one pass of `load_next_buf()`, with a `buf_len` from `1..MaxRead`.
- **Refinement:** `Stream` instantiates `ScanResult`: the reader is a paginated scan of the files' decompressed output.

### `ExternalFileList.tla`: listing the files of a location

- **What it models:** `ObExternalDataAccessDriver::get_file_list` (`…access_service.cpp:259-316`) with its entry operators `ObExternalFileListArrayOpWithFilter` (object storage, 152-179) and `ObLocalFileListArrayOpWithFilter` (local storage, 200-245).
- **Data:** a directory tree of `NumEntries` entries under the location. `parent[n] < n` makes every tree reachable. A name is a sequence of entry ids and the model value `Sep` for `/`; `Dot` and `DotDot` stand for `.` and `..`, and `Loc` for the location. `pass[n]` is the answer of the pattern filter, when there is one. On object storage the directories are the entries' key prefixes plus any marker objects (`markers`) named `dir/`.
- **State:** `file_dirs` (the queue of directories still to list), `i` (the next one), `urls` (`file_urls` and `file_sizes`, as records), `ret` and `pc`.
- **Actions:** `StartLocal` is the `is_directory` check, `WalkDir` one pass of the while loop (`list_files` with the file operator, `list_directories` with the directory operator, then the visit-count check), `WalkEnd` its exit, and `ListRemote` the single `list_files` call on object storage. With `IoErrors` each listing may fail with `OB_IO_ERROR`.
- **Helpers:** `Join` and `Strip` are the path join and the cut of the location (and of a leading `/`) in `func()`; `RelName` is the name a file should get.
- **Composition with `init` and `get_file_sizes`:** the module runs the driver the way the external-table code uses it. `DriverInit` is `init()`: a location whose prefix `get_storage_type_from_path` rejects (`storage = "UNKNOWN"`) leaves `access_info_` invalid, and `get_file_list` then answers `OB_NOT_INIT` (`ListNotInit`). After a successful listing, `GetFileSizes` is the whole loop of `get_file_sizes`: each path is `size_path(url)`, and `get_file_size` finds the entry whose `FullPath` it names (local storage collapses repeated `/`, object storage does not), or answers -1. Between the two, the environment action `FileRemoved` may delete listed files.

## Runs

| Run | Expect | What it shows |
|---|---|---|
| `htable_explicit` | pass | An explicit-column scan (columns 1 and 2 of 3, two timestamps, two versions, batch size 2) over every table of up to 12 cells. It returns exactly the reference cells (`ScanOutputIsReferencePrefix`). It refines the abstract scan (`ScanRefinesResult`), which includes termination under fairness. The type invariant `TypeOK` is checked here. |
| `htable_wildcard_reverse` | pass | A reversed wildcard scan over four timestamps. Timestamp 1 is TTL-expired and timestamp 4 is outside the time range. Two versions are kept, offset 1 and limit 3 per row, and the size limit is 2 cells. Tables have up to 5 cells. `ScanOutputIsReferencePrefix` and `ScanRefinesResult` hold. |
| `htable_done_loop` | violation | With `PastLastColumnCode = "DONE"`, the spec's reading, a row whose only cell lies after the last requested column loops forever (`ScanTerminates`). |
| `csv_whole` | pass | Two whole files of up to three lines (1 to 3 bytes each) with a header line, read through a 2-byte first buffer; either file may be rewritten once between listing and the scan. The calls return exactly the expected rows of the files as the scan finds them (`RowsAreReferencePrefix`). The buffer only grows for a line that does not fit (`BufferGrowsOnlyForLongLines`). Two changes are allowed, rewrites or deletions. A deleted file is skipped like an empty one, and the scan fails with `OB_OBJECT_NOT_EXIST` only when the file vanished between its probe and its open (`MissingFileFailsOnlyAfterProbe`). Every call returns and the scan ends (`ScanEnds`). |
| `csv_ranges_rescan` | pass | One file split into the ranges [1,1] and [2,3], then a whole file, with one rescan allowed between any two calls, and `line_count_limit_` after `reuse()` either 0 or `INT64_MAX`. The first scan returns exactly its expected rows (`FirstScanRowsAreReferencePrefix`); what a later scan returns depends on that value (see `csv_rescan_tail`). `reset()` leaves `file_reader_` open, but the `close()` at the top of `open_next_file` still keeps `file_reader_.open()` from ever answering `OB_INIT_TWICE` (`ReaderNeverOpenedTwice`). The scan ends under either value (`ScanEnds`). |
| `csv_buffer_growth` | violation | Once nothing is parsed (a range ended mid-file, or a rescan left the reader mid-file), the buffer doubles while the rest of the file is read. TLC reports the range path. Run with `line_count_limit_` 0 after `reuse()`; the rescan path needs that value. |
| `csv_rescan_tail` | violation | With `line_count_limit_` left at `INT64_MAX` by `reuse()`, a rescan in the middle of a file returns the rest of that file, as rows of file id 0 and line 0, before the first task's rows (`RowsAreReferencePrefix`). |
| `csv_size_probe` | violation | `open_next_file` trusts the size probed at scan time: an `OB_IO_ERROR` silently drops a file's rows, and a file listed empty (partition 0) that has data is read with the previous file's partition. TLC reports the IO-error path; with `IoErrors = FALSE` it reports the partition one. |
| `csv_truncate_hang` | violation | Under `TruncFairSpec`, a file cut below the size `open()` probed is read for ever: `read()` returns 0 bytes and never reports end of file (`ScanEnds`). |
| `reader_flush` | pass | Two files of any format, each of up to three stored bytes, go through a 2-byte compressed buffer with reads of 1 or 2 bytes. Decompressors never take in a trailer while holding output. `read()` returns each file's output once and in order, and at each end of file everything so far (`OutputComplete`). The reader refines the abstract scan with the concatenated output as its result (`ReaderRefinesStream`). Every read only extends what came before, and under fairness the load loop reaches the end. |
| `reader_holding` | violation | With zstd allowed to hold output after consuming the trailer, `read()` reports end of file and that output is lost, or comes back as part of the next file. |
| `filelist` | pass | Every tree of four entries under the location, on local and object storage, with or without a pattern, with listing errors and a failed `init`: a successful listing returns each wanted file once, named relative to the location (`ListedExactly`); the walk fails with `OB_SIZE_OVERFLOW` exactly when directories plus files exceed the visit limit (`VisitLimitExact`); `get_file_sizes` finds every listed file again under location and url, or answers -1 for one removed since (`SizesFollowListing`). |

Each property of a passing run has a mutant in `PROJECT.json`: a plausible
bug in the mapped code that TLC catches. Examples are a tracker count not
reset at a new row, a TTL test with `<=` instead of `<`, a line range
skipping one line too many, and an end-of-file test that is off by one.

## Findings

1. **DONE past the last column (spec gap).**
   - `spec.md` §4.1 has the explicit tracker answer `DONE` past its last column.
   - §4.3 has `DONE` finalize the row without advancing the cursor.
   - Together they re-match the same cell forever. The HBase tracker that this ports answers `SEEK_NEXT_ROW` there, and the passing runs use that.
2. **Buffer growth with no long line** (`…access_service.cpp:1004`).
   - `load_next_buf` expands the buffer whenever the unparsed tail starts at the buffer front.
   - When `line_count_limit_` is 0 nothing is parsed, so a line range that ends mid-file, or a rescan mid-file (`reset()` leaves `file_reader_` open, if `reuse()` sets the limit to 0), doubles the buffer on every read until the file ends. It can end in `OB_SIZE_OVERFLOW`.
   - The comment says the buffer grows because it "is not big enough to store data line".
3. **IO errors read as missing files** (`…access_service.cpp:103`).
   - `get_file_size` maps `OB_IO_ERROR` to size −1 with success.
   - `open_next_file` then skips a non-empty file, or `open()` records size −1 and the file ends after one buffer. The scan returns `OB_ITER_END` with rows missing.
   - The comment at line 959 says only empty and non-existent files are skipped.
   - The same decision reads a partition-0 file (one that was empty when listed) once it has data, and its rows carry `part_list_val_` of the previous file (`…access_service.cpp:932`), although the comment says empty files "do not belong to any partitions".

4. **End of a compressed file decided from the input alone** (`…access_service.cpp:445`, a spec gap).
   - `read()` sets `is_file_end_` once the file and the compressed buffer are used up. `read_decompress` calls `decompress()` only while compressed input remains.
   - This is correct only if the decompressor never holds output back after taking in a stream's last byte. The repository does not state that contract.
   - A streaming zstd decompressor can hold output back, and must be called until it flushes. Under that contract `reader_holding` shows the tail of a file lost, or, because `create_decompressor` keeps a decompressor of the same format, returned at the start of the next file.

5. **A file that shrinks while it is read hangs the scan** (`…access_service.cpp:441`, a spec gap).
   - `read()` reports end of file only when `file_offset_` reaches the `file_size_` that `open()` probed.
   - If the file is cut below that size and `pread` past the end returns 0 bytes, `load_next_buf` repeats its do-while for ever. Nothing re-probes the size or times out.
   - The repository states no rule that external files stay unchanged during a scan, and the storage adapter's behaviour past the end of a file is not in the repository.

6. **A rescan in the middle of a file** (`…access_service.cpp:1318`, a spec gap).
   - `reset()` calls only `state_.reuse()`; `file_reader_` stays open at its offset, and `line_count_limit_` is assigned only in `open_next_file`.
   - `StateValues::reuse()` is not in the repository. If it leaves `line_count_limit_` at `INT64_MAX`, the next call scans the rest of the old file and returns its lines as rows with file id 0 and line 0 (`csv_rescan_tail`). If it sets 0, finding 2 applies instead.
   - `spec.md:85` says resources are cleaned up on reset.

## Bounds and why they suffice

- **HBase:**
  - Two rows, two or three qualifiers and two to four timestamps give the cases that matter: several versions per column, and columns before, between and after the requested ones.
  - They also give expired and out-of-range versions, and rows whose result spans several calls (batch 1 or 2, size limit 2).
  - The offset and limit windows cut inside a row. Every table up to the cell bound is an initial state.
- **CSV:**
  - Lines of up to 3 bytes against a 2-byte first buffer force both the memmove and the expand path. `MaxBufferSize = 8` allows two doublings and then an overflow.
  - Three lines with a one-line header give a header-only file, one data line and two data lines.
  - The line ranges cover a range inside the file, a range reaching past its end, and two ranges on one file.
  - The violation runs use files of five one-byte lines, so that the rest of a file after a range is longer than the buffer.
  - One change (`MaxChanges = 1`) is enough for the violation runs: each defect needs one file to differ from its listing, or one cut. `csv_whole` allows two changes, so that a rewrite and a deletion can both happen in one scan.
- **File list:**
  - Four entries give every tree shape up to depth three, a directory with both files and subdirectories, and empty directories.
  - `MaxVisit = 4` lies inside the range of `1 + dirs + files` (2 to 5), so the limit is both reached and not reached; a probe confirms `OB_SIZE_OVERFLOW` is returned on local storage.

- **Stream reader:**
  - A 2-byte compressed buffer against files of 3 bytes forces refills, and output of up to 2 bytes per stored byte against 1-byte reads forces held-back output.
  - Two files of any of the three formats give a kept, a replaced and a destroyed decompressor between files, and an empty file that is skipped.
  - The model contains a consumed-but-not-refilled buffer (a tail left behind) and output held back across reads. Probes with TLC confirm both are reached.

## Fairness

- **HBase scan:**
  - `FairSpec` assumes weak fairness of the scan's next-state relation.
  - This is justified because the caller (`ObHTableFilterOperator`'s user) keeps calling `get_next_result` while `has_more_result()`. Within a call, the row iterator's loop runs to completion.
- **CSV reader:**
  - `FairSpec` assumes weak fairness of the whole next-state relation.
  - This is justified for two reasons. The iterator runs a call to its end on one thread. The table scan operator calls again after every `OB_SUCCESS`.
  - `ScanEnds` uses this fairness. It says the scan eventually stays at `OB_ITER_END` or an error, so every loop of every call exits.

- **Stream reader:** `FairSpec` assumes weak fairness of the next-state relation. `load_next_buf()` loops on one thread until `read()` returns data, fails, or reports end of file. `ReaderRefinesStream` uses this fairness, through the abstract `FairSpec`.

- **File list:** no liveness property is checked; `filelist` runs `Spec`. Each pass of the walk appends at most the entries of one directory and the tree is finite, so the loop's exit needs no model checking.
- **File changes:** `FileRewritten`, `FileRemoved` and `FileTruncated` are the environment. They carry no fairness and are bounded by `MaxChanges`, so they cannot keep a scan from ending.

## Not modelled, and why

- **Group-commit manager** (`ob_table_tenant_group.h`), **DBMS scheduler job info** (`ob_dbms_sched_job_utils.h`), **column-store replica helpers** and **`rb_is_empty`:** the repository has declarations only.
- **HBase:**
  - Byte sizes are one unit per cell.
  - The reversed iterator's forward sub-scan per row is abstracted into the reversed row order.
  - `try_record_expired_rowkey` is not modelled.
  - Filters (parsing, `filter_cell`, hints and `merge_filter_return_code`) are not modelled: their code is not in the repository, and the contract of a hint seek is unstated.
  - The batch aggregation of `get_next_result` is collapsed to one row per call: the `.cpp` is not in the repository.
- **CSV:**
  - The decompressing path is modelled separately in `StreamFileReader`, not inside `ExternalCsvScan`. The CSV model reads plain files.
  - The stream reader's `init()` appears only as the initial state, since `ObCSVTableRowIterator::init` calls it once. Its `reset()` runs from the destructor, as the last step (`Release`). Errors from `ObDecompressor` and memory allocation are not modelled.
  - `get_storage_type_from_path` and `ObBackupIoAdapter` are not in the repository: the storage type, and what a listing returns, are inputs. Size probes in `get_file_sizes` do not fail with `OB_IO_ERROR` in `ExternalFileList`; that mapping of `get_file_size` is checked in `ExternalCsvScan`.
  - The pattern filter is an arbitrary answer per file (`pass`): the regular expression engine is not in the repository.
  - Blank lines and parse errors are not modelled (lines are never blank in the model).
  - Files change only as `FileRewritten`, `FileRemoved` and `FileTruncated` allow: a file that grows while it is read is not modelled, and a file is never deleted after the scan has read part of it. What the storage does with an open file that is deleted is the adapter's behaviour, and the adapter is not in the repository. The error code a failed open returns is also the adapter's; the model uses `OB_OBJECT_NOT_EXIST`. It is cut at the probed size, which is what the caller has listed.
  - Partition-list values are represented by the partition id. Partition-0 tasks list empty files only.

## Plan for later work

1. Compose `StreamFileReader` with the CSV iterator, so that line parsing runs over decompressed output.
2. Model the reversed iterator's per-row forward sub-scan. The reversed order would then refine the forward order of each row.
3. Model `try_record_expired_rowkey`, with a property that no row is recorded while it still has live versions.
4. Model blank lines in the CSV parser contract, to check the line-number drift hazard.
