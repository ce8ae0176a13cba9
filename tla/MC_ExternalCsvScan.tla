------------------------- MODULE MC_ExternalCsvScan -------------------------
EXTENDS ExternalCsvScan

\* two whole files, in partitions 1 and 2
MC_WholeTasks ==
  << [file_id |-> 1, part_id |-> 1, start |-> MinLine, end |-> Int64Max],
     [file_id |-> 2, part_id |-> 2, start |-> MinLine, end |-> Int64Max] >>

\* a file split into the line ranges [1, 1] and [2, 3], then a whole file
\* of the same partition
MC_RangeTasks ==
  << [file_id |-> 1, part_id |-> 1, start |-> 1, end |-> 1],
     [file_id |-> 1, part_id |-> 1, start |-> 2, end |-> 3],
     [file_id |-> 2, part_id |-> 1, start |-> MinLine, end |-> Int64Max] >>

\* a whole file of partition 1, then a file listed empty and so given the
\* partition id 0
MC_PartZeroTasks ==
  << [file_id |-> 1, part_id |-> 1, start |-> MinLine, end |-> Int64Max],
     [file_id |-> 2, part_id |-> 0, start |-> MinLine, end |-> Int64Max] >>
\* line_count_limit_ after init() and reuse(): either value, or only one
MC_AnyReuseLimit == {0, Int64Max}
MC_ReuseToMax == {Int64Max}
MC_ReuseToZero == {0}
=============================================================================
