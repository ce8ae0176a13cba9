--------------------------- MODULE StreamFileReader ---------------------------
(***************************************************************************)
(* ObExternalStreamFileReader (ob_external_table_access_service.cpp) read *)
(* file after file the way ObCSVTableRowIterator drives it: open_next_file *)
(* closes the reader, skips empty files and opens the next one, and        *)
(* load_next_buf() calls read() until the reader reports end of file.      *)
(*                                                                         *)
(* A compressed file goes through the compressed buffer (read_compressed_  *)
(* data()) and a decompressor (read_decompress()).  Data is abstracted to  *)
(* its origin: a compressed byte is <<file, index>> and expands to the     *)
(* number of output bytes files[f][i] says, each tagged with its origin,   *)
(* so that lost, duplicated or misplaced output is visible in out.         *)
(***************************************************************************)
EXTENDS Naturals, Sequences, SequencesExt, FiniteSets

CONSTANTS
  NumFiles,       \* files of the scan, read in the order 1 .. NumFiles
  MaxCSize,       \* bound on the stored bytes of one file
  MaxYield,       \* bound on the output bytes of one compressed byte
  BufCap,         \* COMPRESSED_DATA_BUFFER_SIZE
  MaxRead,        \* bound on buf_len of one read()
  HoldingFormats  \* formats whose decompressor may take in the end of a
                  \* stream while output is still held back internally

Formats == {"GZIP", "ZSTD"}          \* formats with an ObDecompressor
FileFormats == {"NONE"} \cup Formats
Files == 1 .. NumFiles

ASSUME NumFiles \in Nat /\ MaxCSize \in Nat /\ MaxYield \in Nat
ASSUME BufCap \in Nat \ {0} /\ MaxRead \in Nat \ {0}
ASSUME HoldingFormats \subseteq Formats

VARIABLES
  files,  \* per file, the output size of each of its stored bytes
  fmt,    \* per file, the format compression_format_from_suffix() finds
  r,      \* the members of the ObExternalStreamFileReader
  cur,    \* state_.file_idx_: the next file open_next_file() tries
  out,    \* history: origin of every byte read() has returned
  pc      \* "scan" while rows are read, "done" after OB_ITER_END,
          \* "released" once the iterator is destroyed

vars == <<files, fmt, r, cur, out, pc>>

MinOf(a, b) == IF a < b THEN a ELSE b

\* a plain file stores its output; a compressed stream ends with a trailer
\* (gzip CRC and size, zstd checksum) that decompresses to nothing
Content(fm, s) ==
  IF fm = "NONE" THEN \A i \in DOMAIN s : s[i] = 1
  ELSE s = <<>> \/ s[Len(s)] = 0

Byte(f, i) == [f |-> f, i |-> i]
Yield(b) == files[b.f][b.i]
IsTrailer(b) == b.i = Len(files[b.f])

\* the output bytes a sequence of stored bytes decompresses to
Expand(bs) == FlattenSeq([k \in DOMAIN bs |-> [j \in 1 .. Yield(bs[k]) |-> bs[k]]])

-----------------------------------------------------------------------------
(* ObExternalDataAccessDriver and ObExternalStreamFileReader               *)

\* get_file_size(): the stored size of the file
get_file_size(f) == Len(files[f])

\* close(): only an opened driver is closed; the compressed buffer and the
\* decompressor are kept
close(s) ==
  IF s.opened THEN [s EXCEPT !.opened = FALSE, !.eof = TRUE, !.foffset = 0, !.fsize = 0]
  ELSE s

\* create_decompressor(): NONE destroys it, the same format keeps it as it
\* is, another format replaces it by a fresh one (nothing held back)
create_decompressor(s, fm) ==
  IF fm # "NONE" /\ s.dec = fm THEN s
  ELSE [s EXCEPT !.dec = fm, !.pend = <<>>]

\* open(): probe the size, clear the end flag, pick the decompressor
open(s, f) ==
  create_decompressor([s EXCEPT !.opened = TRUE, !.file = f, !.eof = FALSE,
                                !.fsize = get_file_size(f)], fmt[f])

\* pread() at file_offset_ returns what the file holds, up to the count
DriverBytes(s, cap) ==
  [j \in 1 .. MinOf(cap, s.fsize - s.foffset) |-> Byte(s.file, s.foffset + j)]

\* fault variant: the refill keeps consumed_data_size_
read_compressed_data_keep_consumed(s) ==
  LET tail == SubSeq(s.buf, s.consumed + 1, Len(s.buf))
      got  == DriverBytes(s, BufCap - Len(tail))
  IN  [s EXCEPT !.buf = tail \o got, !.foffset = @ + Len(got)]

\* read_compressed_data(): move the unconsumed tail to the front (or empty
\* the buffer) and fill the rest from the driver
read_compressed_data(s) ==
  LET tail == SubSeq(s.buf, s.consumed + 1, Len(s.buf))
      got  == DriverBytes(s, BufCap - Len(tail))
  IN  [s EXCEPT !.buf = tail \o got, !.consumed = 0, !.foffset = @ + Len(got)]

\* the compressed bytes the decompressor is handed
Avail(s) == SubSeq(s.buf, s.consumed + 1, Len(s.buf))

\* output held back plus the output of the first k bytes handed over
Output(s, k) == s.pend \o Expand(SubSeq(Avail(s), 1, k))

\* ObDecompressor::decompress() consumes k bytes: it stops early only with
\* its output full, and only a holding format takes in a stream's trailer
\* while output is still held back
Consumable(s, cap) ==
  {k \in 0 .. Len(Avail(s)) :
     /\ Len(Output(s, k)) < cap => k = Len(Avail(s))
     /\ (k = Len(Avail(s)) /\ IsTrailer(Avail(s)[k]) /\ s.dec \notin HoldingFormats)
          => Len(Output(s, k)) <= cap}

decompress(s, cap) ==
  {[st   |-> [s EXCEPT !.consumed = @ + k,
                       !.pend = SubSeq(Output(s, k), cap + 1, Len(Output(s, k)))],
    data |-> SubSeq(Output(s, k), 1, MinOf(cap, Len(Output(s, k))))] :
   k \in Consumable(s, cap)}

\* fault variant: refill only once consumed_data_size_ passes the size
read_decompress_strict(s, cap) ==
  LET s1 == IF s.consumed > Len(s.buf) /\ s.foffset < s.fsize
            THEN read_compressed_data(s) ELSE s
  IN  IF Len(s1.buf) > s1.consumed THEN decompress(s1, cap)
      ELSE {[st |-> s1, data |-> <<>>]}

\* read_decompress(): refill the buffer once it is consumed and the file
\* has more, then decompress whatever is unconsumed
read_decompress(s, cap) ==
  LET s1 == IF s.consumed >= Len(s.buf) /\ s.foffset < s.fsize
            THEN read_compressed_data(s) ELSE s
  IN  IF Len(s1.buf) > s1.consumed THEN decompress(s1, cap)
      ELSE {[st |-> s1, data |-> <<>>]}

\* fault variant: end of a compressed file judged by the file offset alone
read_eof_offset_only(s, cap) ==
  IF s.dec = "NONE"
  THEN {[st   |-> [s EXCEPT !.foffset = @ + Len(DriverBytes(s, cap)),
                            !.eof = s.foffset + Len(DriverBytes(s, cap)) >= s.fsize],
         data |-> Expand(DriverBytes(s, cap))]}
  ELSE {[st   |-> [x.st EXCEPT !.eof = x.st.foffset >= x.st.fsize],
          data |-> x.data] : x \in read_decompress(s, cap)}

\* read(): without a decompressor straight from the driver, end of file at
\* the probed size; else through read_decompress(), end of file once the
\* file and the compressed buffer are both used up
read(s, cap) ==
  IF s.dec = "NONE"
  THEN {[st   |-> [s EXCEPT !.foffset = @ + Len(DriverBytes(s, cap)),
                            !.eof = s.foffset + Len(DriverBytes(s, cap)) >= s.fsize],
         data |-> Expand(DriverBytes(s, cap))]}
  ELSE {[st   |-> [x.st EXCEPT !.eof = x.st.foffset >= x.st.fsize
                                        /\ x.st.consumed >= Len(x.st.buf)],
          data |-> x.data] : x \in read_decompress(s, cap)}

\* reset(): close, free the compressed buffer, destroy the decompressor and
\* forget the allocator; the buffer's sizes are left as they are
reset(s) ==
  [close(s) EXCEPT !.buf = <<>>, !.dec = "NONE", !.pend = <<>>, !.inited = FALSE]

-----------------------------------------------------------------------------
(* ObCSVTableRowIterator: open_next_file() and load_next_buf()             *)

\* the reader after init(): the allocator is set, no file, no decompressor
ReaderInit == [inited |-> TRUE, opened |-> FALSE, file |-> 0, foffset |-> 0, fsize |-> 0, eof |-> TRUE,
               consumed |-> 0, buf |-> <<>>, dec |-> "NONE", pend |-> <<>>]

Init ==
  /\ fmt \in [Files -> FileFormats]
  /\ files \in {c \in [Files -> UNION {[1 .. n -> 0 .. MaxYield] : n \in 0 .. MaxCSize}] :
                 \A f \in Files : Content(fmt[f], c[f])}
  /\ r = ReaderInit
  /\ cur = 1
  /\ out = <<>>
  /\ pc = "scan"

\* open_next_file() passes over a file whose size is not positive
SkipEmptyFile ==
  /\ pc = "scan" /\ r.eof
  /\ cur <= NumFiles /\ get_file_size(cur) <= 0
  /\ r' = close(r)
  /\ cur' = cur + 1
  /\ UNCHANGED <<files, fmt, out, pc>>

\* open_next_file(): close the reader and open the next nonempty file
OpenNextFile ==
  /\ pc = "scan" /\ r.eof
  /\ cur <= NumFiles /\ get_file_size(cur) > 0
  /\ r' = open(close(r), cur)
  /\ cur' = cur + 1
  /\ UNCHANGED <<files, fmt, out, pc>>

\* open_next_file() past the last task: OB_ITER_END ends the scan
EndOfFiles ==
  /\ pc = "scan" /\ r.eof
  /\ cur > NumFiles
  /\ r' = close(r)
  /\ pc' = "done"
  /\ UNCHANGED <<files, fmt, cur, out>>

\* load_next_buf(): read() into a buffer of positive length; a read of
\* zero bytes makes the loop read again
LoadNextBuf ==
  /\ pc = "scan" /\ ~r.eof
  /\ \E cap \in 1 .. MaxRead : \E x \in read(r, cap) :
       /\ r' = x.st
       /\ out' = out \o x.data
  /\ UNCHANGED <<files, fmt, cur, pc>>

\* revert_scan_iter() destroys the iterator; ~ObExternalStreamFileReader()
\* calls reset()
Release ==
  /\ pc = "done"
  /\ r' = reset(r)
  /\ pc' = "released"
  /\ UNCHANGED <<files, fmt, cur, out>>

\* the iterator is gone
Terminated == pc = "released" /\ UNCHANGED vars

Next == SkipEmptyFile \/ OpenNextFile \/ EndOfFiles \/ LoadNextBuf \/ Release \/ Terminated

Spec == Init /\ [][Next]_vars

\* load_next_buf() loops on one thread until read() returns data or fails
FairSpec == Spec /\ WF_vars(Next)

-----------------------------------------------------------------------------
(* What the reader promises its caller                                     *)

ReaderTypeOK ==
  /\ fmt \in [Files -> FileFormats]
  /\ r.dec \in FileFormats /\ Len(r.buf) <= BufCap
  /\ r.inited => r.consumed \in 0 .. Len(r.buf)
  /\ r.foffset \in 0 .. r.fsize /\ r.opened \in BOOLEAN /\ r.eof \in BOOLEAN
  /\ cur \in 1 .. NumFiles + 1 /\ pc \in {"scan", "done", "released"}

\* the output of file f, in order
Expected(f) == Expand([i \in 1 .. Len(files[f]) |-> Byte(f, i)])

\* the output of files 1 .. k, one after the other
ExpectedUpTo(k) == FlattenSeq([f \in 1 .. k |-> Expected(f)])

\* read() returns the decompressed files in order, nothing lost, repeated or
\* taken from another file; and once read() (or close()) reports end of
\* file, everything of the files open_next_file() has passed is returned.
\* This is what load_next_buf() relies on when it opens the next file as
\* soon as eof() holds: read_decompress() and read() decide the end of a
\* compressed file from the compressed buffer alone.
OutputComplete ==
  /\ IsPrefix(out, ExpectedUpTo(NumFiles))
  /\ r.eof => out = ExpectedUpTo(cur - 1)

\* The reader as a stream of pages: every read() returns the next slice
\* of the decompressed files, and OB_ITER_END comes after the last one.
Stream == INSTANCE ScanResult WITH expected <- ExpectedUpTo(NumFiles), returned <- out,
                                   finished <- (pc # "scan")

\* load_next_buf() loops while read() returns no bytes: the reader must
\* reach end of file after finitely many reads (an empty compressed file
\* takes two), so the scan ends, and what it returned on the way only ever
\* grew by the next output of the files: the reader implements the stream.
ReaderRefinesStream == Stream!FairSpec

==============================================================================
