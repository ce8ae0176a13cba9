------------------------- MODULE MC_StreamFileReader -------------------------
(* Bounds for ObExternalStreamFileReader: two files of up to three stored   *)
(* bytes, each expanding to at most two output bytes, a compressed buffer  *)
(* of two bytes and reads of one or two bytes, so that a file needs        *)
(* several refills, output is held back across reads, and a decompressor  *)
(* is kept, replaced or destroyed between files.                           *)
EXTENDS StreamFileReader

MCNumFiles == 2
MCMaxCSize == 3
MCMaxYield == 2
MCBufCap == 2
MCMaxRead == 2
\* a decompressor that never takes in a stream's end with output held back
MCHoldNone == {}
\* zstd's streaming decompressor may buffer a whole block
MCHoldZstd == {"ZSTD"}
==============================================================================
