--------------------------- MODULE ExternalFileList ---------------------------
(***************************************************************************)
(* ObExternalDataAccessDriver (ob_external_table_access_service.cpp):     *)
(* init() on a location, get_file_list() of it, then get_file_sizes() of  *)
(* the files listed, while files may be removed in between.               *)
(* get_file_list(): the files of an external table's location.  On local  *)
(* storage it walks the directory tree breadth first, through file_dirs,   *)
(* with ObLocalFileListArrayOpWithFilter as the entry operator for files   *)
(* and for subdirectories, and stops with OB_SIZE_OVERFLOW past            *)
(* MAX_VISIT_COUNT; on object storage one listing of the prefix goes       *)
(* through ObExternalFileListArrayOpWithFilter.                            *)
(*                                                                         *)
(* A path is a sequence of tokens: Loc for the location, Sep and entry     *)
(* names, so that the joining and stripping of separators is modelled by   *)
(* what it does.  An entry's size is abstracted to the entry itself.       *)
(***************************************************************************)
EXTENDS Naturals, Sequences, SequencesExt, FiniteSets

CONSTANTS
  NumEntries,   \* entries of the tree below the location: 1 .. NumEntries
  MaxVisit,     \* MAX_VISIT_COUNT
  IoErrors,     \* may a listing of the storage fail?
  Sep, Dot, DotDot, Loc   \* the tokens Sep, ".", ".." and the location's name

ASSUME NumEntries \in Nat /\ MaxVisit \in Nat /\ IoErrors \in BOOLEAN

Entries == 1 .. NumEntries
Root == 0                     \* the location itself
Dots == {Dot, DotDot}

VARIABLES
  parent,     \* the directory each entry is in (Root or a directory entry)
  kind,       \* "file" or "dir"
  pass,       \* what ObExternalPathFilter::is_filtered answers (FALSE: filtered)
  pattern,    \* is a PATTERN given (a filter is used)?
  storage,    \* "FILE" (local), "REMOTE" (object storage), or "UNKNOWN" for a
              \* location get_storage_type_from_path rejects
  loc,        \* the location path: <<Loc>> or <<Loc, Sep>>
  is_dir,     \* does FileDirectoryUtils::is_directory hold for the location?
  markers,    \* directories that object storage lists as "name/" objects
  file_dirs,  \* the directories found so far: [path, node]
  i,          \* the loop index over file_dirs
  urls,       \* file_urls and file_sizes: [url, size]
  ret,
  pc,         \* "init", "start", "walk", "done" (listed), "sized"
  valid,      \* access_info_.is_valid(): init() has succeeded
  removed,    \* files removed from the storage since they were listed
  sizes       \* file_sizes of get_file_sizes()

tree == <<parent, kind, pass, pattern, storage, loc, is_dir, markers>>
vars == <<tree, file_dirs, i, urls, ret, pc, valid, removed, sizes>>

IoAnswers == IF IoErrors THEN {"none", "files", "dirs"} ELSE {"none"}

-----------------------------------------------------------------------------
(* The tree                                                                *)

Children(d, k) == SetToSortSeq({n \in Entries : parent[n] = d /\ kind[n] = k}, <)

\* the name of an entry relative to the location: n, or d Sep n
RECURSIVE RelName(_)
RelName(n) == IF parent[n] = Root THEN <<n>> ELSE RelName(parent[n]) \o <<Sep, n>>

Dirs == {n \in Entries : kind[n] = "dir"}
Wanted == {n \in Entries : kind[n] = "file" /\ (pattern => pass[n])}

-----------------------------------------------------------------------------
(* The entry operators                                                     *)

\* full_path: cur_path, a Sep unless it already ends in one, the name
Join(cur, name) ==
  cur \o (IF cur # <<>> /\ Last(cur) # Sep THEN <<Sep>> ELSE <<>>) \o <<name>>

\* fault variant: the leading Sep is kept
Strip_keep_slash(full, origin) == SubSeq(full, Len(origin) + 1, Len(full))

\* the file name without origin_path_, and without a leading Sep
Strip(full, origin) ==
  LET t == SubSeq(full, Len(origin) + 1, Len(full))
  IN  IF t # <<>> /\ Head(t) = Sep THEN Tail(t) ELSE t

\* ObLocalFileListArrayOpWithFilter::func as file_op: skip "." and "..",
\* filter the full path, push the name relative to the location
local_file_op(cur, ents) ==
  LET keep(e) == e.name \notin Dots /\ (pattern => pass[e.node])
  IN  [k \in 1 .. Len(SelectSeq(ents, keep)) |->
         [url  |-> Strip(Join(cur, SelectSeq(ents, keep)[k].name), loc),
          size |-> SelectSeq(ents, keep)[k].node]]

\* fault variant: "." is not skipped
local_dir_op_keep_dot(cur, ents) ==
  LET keep(e) == e.name # DotDot
  IN  [k \in 1 .. Len(SelectSeq(ents, keep)) |->
         [path |-> Join(cur, SelectSeq(ents, keep)[k].name),
          node |-> SelectSeq(ents, keep)[k].node]]

\* the same operator as dir_op (set_dir_flag, no filter): push full paths
local_dir_op(cur, ents) ==
  LET keep(e) == e.name \notin Dots
  IN  [k \in 1 .. Len(SelectSeq(ents, keep)) |->
         [path |-> Join(cur, SelectSeq(ents, keep)[k].name),
          node |-> SelectSeq(ents, keep)[k].node]]

\* ObExternalFileListArrayOpWithFilter::func: skip names ending in Sep,
\* filter the name, push it
remote_file_op(ents) ==
  LET keep(e) == e.name # <<>> /\ Last(e.name) # Sep /\ (pattern => pass[e.node])
  IN  [k \in 1 .. Len(SelectSeq(ents, keep)) |->
         [url |-> SelectSeq(ents, keep)[k].name, size |-> SelectSeq(ents, keep)[k].node]]

\* what list_files and list_directories hand the operators on local
\* storage: the files of a directory; its subdirectories with "." and ".."
FileEntries(d) == [k \in DOMAIN Children(d, "file") |->
                     [name |-> Children(d, "file")[k], node |-> Children(d, "file")[k]]]
DirEntries(d) ==
  [k \in DOMAIN Children(d, "dir") |->
     [name |-> Children(d, "dir")[k], node |-> Children(d, "dir")[k]]]
  \o <<[name |-> Dot, node |-> d], [name |-> DotDot, node |-> IF d = Root THEN Root ELSE parent[d]]>>

\* what list_files hands the operator on object storage: every object
\* below the prefix, directory markers included
ObjectEntries ==
  LET objs == {n \in Entries : kind[n] = "file" \/ n \in markers}
      name(n) == IF kind[n] = "dir" THEN RelName(n) \o <<Sep>> ELSE RelName(n)
  IN  [k \in 1 .. Cardinality(objs) |->
         [name |-> name(SetToSortSeq(objs, <)[k]), node |-> SetToSortSeq(objs, <)[k]]]

-----------------------------------------------------------------------------
(* get_file_list                                                           *)

Init ==
  /\ parent \in {p \in [Entries -> {Root} \cup Entries] :
                   \A n \in Entries : p[n] < n}
  /\ kind \in [Entries -> {"file", "dir"}]
  /\ \A n \in Entries : parent[n] # Root => kind[parent[n]] = "dir"
  /\ pattern \in BOOLEAN
  /\ pass \in [Entries -> IF pattern THEN BOOLEAN ELSE {TRUE}]
  /\ storage \in {"FILE", "REMOTE", "UNKNOWN"}
  \* the location's form and kind matter on local storage only, the
  \* marker objects on object storage only
  /\ loc \in IF storage = "FILE" THEN {<<Loc>>, <<Loc, Sep>>} ELSE {<<Loc>>}
  /\ is_dir \in IF storage = "FILE" THEN BOOLEAN ELSE {TRUE}
  /\ markers \in IF storage = "REMOTE" THEN SUBSET Dirs ELSE {{}}
  /\ file_dirs = <<>>
  /\ i = 1
  /\ urls = <<>>
  /\ ret = "OK"
  /\ pc = "init"
  /\ valid = FALSE
  /\ removed = {}
  /\ sizes = <<>>

\* init(): the storage type from the location's prefix; access_info_ is
\* set only when get_storage_type_from_path succeeds
DriverInit ==
  /\ pc = "init"
  /\ valid' = (storage # "UNKNOWN")
  /\ pc' = "start"
  /\ UNCHANGED <<tree, file_dirs, i, urls, ret, removed, sizes>>

\* get_file_list() on a driver whose init() failed: OB_NOT_INIT
ListNotInit ==
  /\ pc = "start" /\ ~valid
  /\ ret' = "NOT_INIT"
  /\ pc' = "done"
  /\ UNCHANGED <<tree, file_dirs, i, urls, valid, removed, sizes>>

\* local storage: a location that is a directory starts the walk; one
\* that is not only logs a warning, and the list stays empty
StartLocal ==
  /\ pc = "start" /\ valid /\ storage = "FILE"
  /\ file_dirs' = IF is_dir THEN <<[path |-> loc, node |-> Root]>> ELSE <<>>
  /\ pc' = "walk"
  /\ UNCHANGED <<tree, i, urls, ret, valid, removed, sizes>>

\* one pass of the for loop: list_files into file_urls, list_directories
\* onto file_dirs, then the visit count against MAX_VISIT_COUNT
WalkDir ==
  /\ pc = "walk" /\ i <= Len(file_dirs)
  /\ \E io \in IoAnswers :
       LET cur  == file_dirs[i].path
           d    == file_dirs[i].node
           urls1 == IF io = "files" THEN urls ELSE urls \o local_file_op(cur, FileEntries(d))
           dirs1 == IF io = "none" THEN file_dirs \o local_dir_op(cur, DirEntries(d)) ELSE file_dirs
       IN  /\ urls' = urls1
           /\ file_dirs' = dirs1
           /\ i' = i + 1
           /\ ret' = CASE io # "none" -> "IO_ERROR"
                        [] Len(dirs1) + Len(urls1) > MaxVisit -> "SIZE_OVERFLOW"
                        [] OTHER -> "OK"
           /\ pc' = IF ret' = "OK" THEN "walk" ELSE "done"
  /\ UNCHANGED <<tree, valid, removed, sizes>>

\* the loop ends when every directory found has been listed
WalkEnd ==
  /\ pc = "walk" /\ i > Len(file_dirs)
  /\ pc' = "done"
  /\ UNCHANGED <<tree, file_dirs, i, urls, ret, valid, removed, sizes>>

\* object storage: one list_files of the prefix, no visit limit
ListRemote ==
  /\ pc = "start" /\ valid /\ storage = "REMOTE"
  /\ \E io \in IoAnswers \ {"dirs"} :
       /\ urls' = IF io = "none" THEN remote_file_op(ObjectEntries) ELSE urls
       /\ ret' = IF io = "none" THEN "OK" ELSE "IO_ERROR"
  /\ pc' = "done"
  /\ UNCHANGED <<tree, file_dirs, i, valid, removed, sizes>>

-----------------------------------------------------------------------------
(* get_file_sizes, and files removed after they were listed                *)

\* local storage resolves a path with repeated separators as with one
Collapse(p) ==
  LET keep == {k \in DOMAIN p : ~(k > 1 /\ p[k] = Sep /\ p[k - 1] = Sep)}
  IN  [j \in 1 .. Cardinality(keep) |-> p[SetToSortSeq(keep, <)[j]]]

\* the path under which the storage holds entry n
FullPath(n) == <<Loc, Sep>> \o RelName(n)

\* get_file_size(): the size of the file at path p (the entry itself), or
\* -1 when there is none (OB_OBJECT_NOT_EXIST mapped to success)
get_file_size(p) ==
  LET at == {n \in Wanted \ removed :
               IF storage = "FILE" THEN Collapse(p) = FullPath(n) ELSE p = FullPath(n)}
  IN  IF at = {} THEN -1 ELSE CHOOSE n \in at : TRUE

\* fault variant: the location and the url are joined without a Sep
size_path_no_sep(url) == loc \o url

\* the location, a Sep unless it ends in one, the url
size_path(url) == loc \o (IF Last(loc) # Sep THEN <<Sep>> ELSE <<>>) \o url

\* get_file_sizes(location, file_urls): file_sizes reset, then the size
\* of each url under the location, in order
GetFileSizes ==
  /\ pc = "done" /\ ret = "OK"
  /\ sizes' = [k \in DOMAIN urls |-> get_file_size(size_path(urls[k].url))]
  /\ pc' = "sized"
  /\ UNCHANGED <<tree, file_dirs, i, urls, ret, valid, removed>>

\* between the listing and get_file_sizes a listed file is deleted
FileRemoved ==
  /\ pc = "done" /\ ret = "OK"
  /\ \E n \in Wanted \ removed : removed' = removed \cup {n}
  /\ UNCHANGED <<tree, file_dirs, i, urls, ret, pc, valid, sizes>>

\* get_file_list failed, or get_file_sizes has returned
Terminated == (pc = "sized" \/ (pc = "done" /\ ret # "OK")) /\ UNCHANGED vars

Next ==
  \/ DriverInit \/ ListNotInit
  \/ StartLocal \/ WalkDir \/ WalkEnd \/ ListRemote
  \/ FileRemoved \/ GetFileSizes \/ Terminated

Spec == Init /\ [][Next]_vars

-----------------------------------------------------------------------------
(* What get_file_list promises                                             *)

FileListTypeOK ==
  /\ file_dirs \in Seq([path : Seq(Nat \cup {Loc, Sep, Dot}), node : {Root} \cup Entries])
  /\ urls \in Seq([url : Seq(Nat \cup {Sep}), size : Entries])
  /\ i \in 1 .. Len(file_dirs) + 1
  /\ ret \in {"OK", "IO_ERROR", "SIZE_OVERFLOW", "NOT_INIT"}
  /\ pc \in {"init", "start", "walk", "done", "sized"}
  /\ removed \subseteq Wanted
  /\ sizes \in Seq(Entries \cup {-1})

\* A successful listing of a directory location, local or remote, names
\* every file below it that the pattern admits exactly once, by its path
\* relative to the location, with that file's size; local storage must
\* turn full paths of every depth, with or without a trailing Sep on the
\* location, into the same names object storage lists.
Listed == pc \in {"done", "sized"}

ListedExactly ==
  (Listed /\ ret = "OK" /\ (storage = "FILE" => is_dir)) =>
     /\ Len(urls) = Cardinality(Wanted)
     /\ \A n \in Wanted : \E k \in DOMAIN urls : urls[k] = [url |-> RelName(n), size |-> n]

\* On local storage the walk fails with OB_SIZE_OVERFLOW exactly when the
\* location's directories (itself included) and admitted files number more
\* than MAX_VISIT_COUNT: the check after each directory sees the final
\* count only at the last one, and counts pending directories as visited.
VisitLimitExact ==
  (Listed /\ storage = "FILE" /\ is_dir /\ ret # "IO_ERROR") =>
     (ret = "SIZE_OVERFLOW" <=> 1 + Cardinality(Dirs) + Cardinality(Wanted) > MaxVisit)

\* get_file_sizes finds each listed file again under location and url,
\* whichever form the location has and however deep the file lies: a
\* file still there gets its size, one removed since the listing -1.
\* This is the contract between the names func() strips from full paths
\* in get_file_list and the paths get_file_sizes builds from them.
SizesFollowListing ==
  pc = "sized" =>
    /\ Len(sizes) = Len(urls)
    /\ \A k \in DOMAIN urls :
         sizes[k] = IF urls[k].size \in removed THEN -1 ELSE urls[k].size
==============================================================================
