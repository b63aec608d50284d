--------------------------------- MODULE Files ---------------------------------
(***************************************************************************)
(* The operations of filesystem.py on files and directories: moving,       *)
(* copying, renaming, removing and backing up.                             *)
(*                                                                         *)
(* The tree of directories is a function from paths to contents; a path is *)
(* the sequence of its names, a directory the content 0.  A name is a stem *)
(* with the counters and the time stamp that renaming gave it.  An         *)
(* operation that takes its entries one by one is one step per entry, in   *)
(* every order the listing may have; it ends at the first exception.       *)
(* CONSTANT Posix: os.rename replaces a file, elsewhere it raises.         *)
(***************************************************************************)
EXTENDS Integers, Sequences, FiniteSets, SequencesExt, Functions

CONSTANTS Posix,         \* BOOLEAN
          Stems,         \* stems of names
          CleanStem,     \* what replacing the special characters makes of a stem
          FirstTrees,    \* the trees a behaviour may begin with
          FsPaths,       \* paths that the calls name
          FsDirs,        \* directories that the calls name
          MaxFsCalls     \* bound: calls of a behaviour

(* The names of paths, with stamps up to n. *)
Names(n) == [stem : DOMAIN CleanStem, counters : Seq(Nat), stamp : 0..n]
ASSUME FsAssumption ==
    /\ Posix \in BOOLEAN /\ MaxFsCalls \in Nat
    /\ CleanStem \in [DOMAIN CleanStem -> DOMAIN CleanStem] /\ Stems \subseteq DOMAIN CleanStem
    /\ \A p \in FsPaths \cup FsDirs : p \in Seq(Names(0)) /\ p # <<>>
    /\ \A t \in FirstTrees :
         /\ IsFiniteSet(DOMAIN t) /\ t \in [DOMAIN t -> Nat]
         /\ \A p \in DOMAIN t :
              /\ p \in Seq(Names(0)) /\ p # <<>>
              /\ Len(p) > 1 => Front(p) \in DOMAIN t /\ t[Front(p)] = 0

VARIABLES tree,      \* path -> content, 0 for a directory
          call,      \* the call that runs, or the last one
          fsTodo,    \* paths it has yet to take
          outcome,   \* "idle", "runs", "body" (in a with block), "returned", "raised"
          returned,  \* the path it returned, or <<>>
          before,    \* history: the tree when the call began
          fsCalls    \* calls so far, and so their time stamps

fs_vars == <<tree, call, fsTodo, outcome, returned, before, fsCalls>>

Name(s) == [stem |-> s, counters |-> <<>>, stamp |-> 0]
is_file_exists(t, p) == p \in DOMAIN t /\ t[p] > 0
is_directory_exists(t, d) == d \in DOMAIN t /\ t[d] = 0
Exists(t, p) == p \in DOMAIN t
Under(t, d) == {p \in DOMAIN t : IsPrefix(d, p)}
listdir(t, d) == {p \in Under(t, d) : Len(p) = Len(d) + 1}
FilesOf(t) == {p \in DOMAIN t : t[p] > 0}
ContentsOf(t) == {t[p] : p \in FilesOf(t)}
Without(t, paths) == Restrict(t, DOMAIN t \ paths)
Rebased(p, d, e) == e \o SubSeq(p, Len(d) + 1, Len(p))

(* A directory e with what t has in d, besides what t has.                 *)
Copied(t, d, e) ==
    LET copies == {Rebased(q, d, e) : q \in Under(t, d)}
    IN  [p \in DOMAIN t \cup copies |-> IF p \in copies THEN t[Rebased(p, e, d)] ELSE t[p]]
Renamed(t, p, q) == IF p = q THEN t ELSE Without(Copied(t, p, q), Under(t, p))

(* os.rename, which raises for a directory's own subdirectory.             *)
MayRename(t, p, q) ==
    /\ Exists(t, p) /\ is_directory_exists(t, Front(q)) /\ ~IsStrictPrefix(p, q)
    /\ \/ p = q
       \/ ~Exists(t, q)
       \/ Posix /\ is_file_exists(t, p) /\ is_file_exists(t, q)
       \/ /\ Posix /\ is_directory_exists(t, p) /\ is_directory_exists(t, q)
          /\ listdir(t, q) = {}
(* shutil.move: into a directory that exists; it copies where a file       *)
(* cannot be renamed.                                                      *)
MoveTarget(t, p, q) == IF is_directory_exists(t, q) /\ p # q THEN Append(q, Last(p)) ELSE q
MayMove(t, p, q) ==
    LET target == MoveTarget(t, p, q)
    IN  /\ Exists(t, p) /\ ~IsStrictPrefix(p, target)
        /\ is_directory_exists(t, Front(target))
        /\ target # q => ~Exists(t, target)
        /\ Exists(t, target) => p = target \/ t[p] > 0
Moved(t, p, q) == Renamed(t, p, MoveTarget(t, p, q))

FsInit ==
    /\ tree \in FirstTrees
    /\ call = [op |-> "none", from |-> <<>>, to |-> <<>>, overwrite |-> FALSE]
    /\ fsTodo = {} /\ outcome = "idle" /\ returned = <<>>
    /\ before = tree /\ fsCalls = 0

Calls(op, from, to, overwrite) ==
    /\ outcome \notin {"runs", "body"} /\ fsCalls < MaxFsCalls
    /\ fsCalls' = fsCalls + 1
    /\ call' = [op |-> op, from |-> from, to |-> to, overwrite |-> overwrite]
    /\ before' = tree
Returns(t, path) ==
    /\ tree' = t /\ outcome' = "returned" /\ returned' = path /\ fsTodo' = {}
Raises == UNCHANGED tree /\ outcome' = "raised" /\ returned' = <<>> /\ fsTodo' = {}
ReturnsIf(may, t, path) == IF may THEN Returns(t, path) ELSE Raises
-----------------------------------------------------------------------------
(* Removing.  A file that is not there is no exception for remove_file.    *)
remove_file(p) ==
    /\ Calls("remove_file", p, p, TRUE)
    /\ ReturnsIf(~is_directory_exists(tree, p), Without(tree, {p}), <<>>)
remove_directory(d) ==
    /\ Calls("remove_directory", d, d, TRUE)
    /\ ReturnsIf(~is_file_exists(tree, d), Without(tree, Under(tree, d)), <<>>)
clear_directory(d) ==
    /\ Calls("clear_directory", d, d, TRUE)
    /\ ReturnsIf(is_directory_exists(tree, d), Without(tree, Under(tree, d) \ {d}), <<>>)

(* Bottom up, a directory that has become empty goes: in the end, every    *)
(* directory without a file anywhere below.                                *)
Mutant_EmptyDirectories(t, d) ==
    {e \in Under(t, d) : listdir(t, e) \cap FilesOf(t) = {}}
EmptyDirectories(t, d) ==
    {e \in Under(t, d) : t[e] = 0 /\ Under(t, e) \cap FilesOf(t) = {}}
remove_empty_directories(d) ==
    /\ Calls("remove_empty_directories", d, d, FALSE)
    /\ Returns(IF is_directory_exists(tree, d)
               THEN Without(tree, EmptyDirectories(tree, d)) ELSE tree, <<>>)

(* create_directory, os.makedirs: with the parents that are missing.       *)
Parents(d) == {SubSeq(d, 1, i) : i \in 1..Len(d)}
MayMake(t, d) == \A e \in Parents(d) : ~is_file_exists(t, e)
Made(t, d) == [p \in DOMAIN t \cup Parents(d) |-> IF p \in DOMAIN t THEN t[p] ELSE 0]
create_directory(d) ==
    /\ Calls("create_directory", d, d, FALSE)
    /\ ReturnsIf(MayMake(tree, d), Made(tree, d), <<>>)
-----------------------------------------------------------------------------
(* Renaming.  A counter is appended to the stem that the last one made.    *)
WithCounter(p, counters) ==
    Append(Front(p), [Last(p) EXCEPT !.counters = @ \o counters])
Sanitized(p) == Append(Front(p), [Last(p) EXCEPT !.stem = CleanStem[@]])
Mutant_FreeName(t, p) == Sanitized(p)
FreeName(t, p) ==
    LET new == Sanitized(p)
        Counted(n) == IF n = 0 THEN new ELSE WithCounter(new, [i \in 1..n |-> i])
        free == {n \in 0..Cardinality(FilesOf(t)) : ~is_file_exists(t, Counted(n))}
    IN  Counted(CHOOSE n \in free : \A k \in free : n <= k)
rename_file_with_special_characters(p) ==
    LET new == FreeName(tree, p)
    IN  /\ Calls("rename_file_with_special_characters", p, new, FALSE)
        /\ ReturnsIf(MayRename(tree, p, new), Renamed(tree, p, new), new)

rename_file(p, name) ==
    LET new == Append(Front(p), name)
    IN  /\ Calls("rename_file", p, new, TRUE)
        /\ ReturnsIf(MayRename(tree, p, new), Renamed(tree, p, new), <<>>)

(* os.walk bottom up: the files of a directory, then its directories, each *)
(* after everything below it.                                              *)
rename_files_and_directories_with_special_characters(d) ==
    /\ Calls("rename_files_and_directories", d, d, TRUE)
    /\ outcome' = "runs" /\ fsTodo' = Under(tree, d) \ {d} /\ returned' = <<>>
    /\ UNCHANGED tree
rename_next(p) ==
    /\ outcome = "runs" /\ call.op = "rename_files_and_directories"
    /\ p \in fsTodo
    /\ \A q \in fsTodo \ {p} : /\ ~IsPrefix(p, q)
                               /\ Front(p) = Front(q) /\ tree[q] > 0 => tree[p] > 0
    /\ IF Last(Sanitized(p)) = Last(p)
       THEN fsTodo' = fsTodo \ {p} /\ UNCHANGED <<tree, outcome, returned>>
       ELSE IF MayRename(tree, p, Sanitized(p))
       THEN /\ tree' = Renamed(tree, p, Sanitized(p))
            /\ fsTodo' = fsTodo \ {p}
            /\ UNCHANGED <<outcome, returned>>
       ELSE Raises
    /\ UNCHANGED <<call, before, fsCalls>>

(* The with statements of temporary_rename and temporary_copy.  Their      *)
(* finally runs also when the first rename or copy raised.                 *)
temporary_rename(p, q) ==
    /\ Calls("temporary_rename", p, q, TRUE)
    /\ IF MayRename(tree, p, q)
       THEN /\ tree' = Renamed(tree, p, q)
            /\ outcome' = "body" /\ returned' = <<>> /\ fsTodo' = {}
       ELSE /\ tree' = IF MayRename(tree, q, p) THEN Renamed(tree, q, p) ELSE tree
            /\ outcome' = "raised" /\ returned' = <<>> /\ fsTodo' = {}
MayCopy(t, p, q) ==
    is_file_exists(t, p) /\ is_directory_exists(t, Front(q)) /\ ~is_directory_exists(t, q)
        /\ p # q
temporary_copy(p, q) ==
    /\ Calls("temporary_copy", p, q, TRUE)
    /\ IF MayCopy(tree, p, q)
       THEN /\ tree' = Copied(tree, p, q)
            /\ outcome' = "body" /\ returned' = <<>> /\ fsTodo' = {}
       ELSE /\ tree' = IF is_file_exists(tree, q) THEN Without(tree, {q}) ELSE tree
            /\ outcome' = "raised" /\ returned' = <<>> /\ fsTodo' = {}
Mutant_Finally(t) == t
Finally(t) ==
    IF call.op = "temporary_copy" THEN Without(t, {call.to}) ELSE Renamed(t, call.to, call.from)
with_block_ends ==
    /\ outcome = "body"
    /\ Returns(Finally(tree), <<>>)
    /\ UNCHANGED <<call, before, fsCalls>>
-----------------------------------------------------------------------------
(* Moving and copying.                                                     *)
TargetPath(p, d) == Append(d, Last(p))
Refused(t, target, overwrite) == ~overwrite /\ is_file_exists(t, target)
move_file(p, d, overwrite) ==
    LET target == TargetPath(p, d)
    IN  /\ Calls("move_file", p, target, overwrite)
        /\ ReturnsIf(~Refused(tree, target, overwrite) /\ MayMove(tree, p, target),
                     Moved(tree, p, target), target)
(* What it is called with is not a file.                                   *)
move_folder(s, d, overwrite) ==
    /\ ~is_file_exists(tree, s)
    /\ Calls("move_folder", s, d, overwrite)
    /\ ReturnsIf(~(~overwrite /\ is_directory_exists(tree, d)) /\ MayMove(tree, s, d),
                 Moved(tree, s, d), <<>>)
copy_file(p, q, overwrite) ==
    /\ Calls("copy_file", p, q, overwrite)
    /\ ReturnsIf(~Refused(tree, q, overwrite) /\ MayCopy(tree, p, q),
                 Copied(tree, p, q), <<>>)
copy_directory(s, d, overwrite) ==
    LET cleared == IF overwrite /\ is_directory_exists(tree, d)
                   THEN Without(tree, Under(tree, d)) ELSE tree
        may == /\ is_directory_exists(cleared, s) /\ ~Exists(cleared, d)
               /\ ~IsPrefix(s, d) /\ is_directory_exists(cleared, Front(d))
    IN  /\ Calls("copy_directory", s, d, overwrite)
        /\ fsTodo' = {} /\ returned' = <<>>
        /\ tree' = IF may THEN Copied(cleared, s, d) ELSE cleared
        /\ outcome' = IF may THEN "returned" ELSE "raised"

(* The operations that take the entries of a directory one by one; a       *)
(* missing target is created, but by move_top_level_files.                 *)
starts_loop(op, s, d, overwrite) ==
    /\ Calls(op, s, d, overwrite)
    /\ IF op # "move_top_level_files" /\ ~MayMake(tree, d) THEN Raises
       ELSE /\ tree' = IF op = "move_top_level_files" THEN tree ELSE Made(tree, d)
            /\ fsTodo' = IF op = "move_top_level_files"
                         THEN listdir(tree, s) \cap FilesOf(tree) ELSE listdir(tree', s)
            /\ outcome' = "runs" /\ returned' = <<>>
LoopStep(p, may, t) ==
    /\ outcome = "runs" /\ p \in fsTodo
    /\ IF may THEN tree' = t /\ fsTodo' = fsTodo \ {p} /\ UNCHANGED <<outcome, returned>>
       ELSE Raises
    /\ UNCHANGED <<call, before, fsCalls>>

move_next_file(p) ==
    LET target == TargetPath(p, call.to)
    IN  /\ call.op = "move_top_level_files"
        /\ LoopStep(p, ~Refused(tree, target, call.overwrite) /\ MayMove(tree, p, target),
                    Moved(tree, p, target))
Mutant_Occupied(t, target, overwrite) == FALSE
Occupied(t, target, overwrite) == Exists(t, target) /\ ~overwrite
move_next_entry(p) ==
    LET target == TargetPath(p, call.to)
        skipped == IsPrefix(p, call.to)
        free == ~Occupied(tree, target, call.overwrite)
    IN  /\ call.op = "move_folder_contents"
        /\ LoopStep(p, skipped \/ (free /\ MayMove(tree, p, target)),
                    IF skipped THEN tree ELSE Moved(tree, p, target))
(* A directory is copied over the one that is there when overwriting.      *)
copy_next_entry(p) ==
    LET target == TargetPath(p, call.to)
    IN  /\ call.op = "copy_files_from_folder"
        /\ IF ~call.overwrite /\ Exists(tree, target) THEN LoopStep(p, TRUE, tree)
           ELSE LoopStep(p, /\ ~IsPrefix(p, target)
                            /\ \A q \in Under(tree, p) :
                                  LET r == Rebased(q, p, target)
                                  IN  Exists(tree, r) => (tree[r] = 0) = (tree[q] = 0),
                         Copied(tree, p, target))
loop_ends ==
    /\ outcome = "runs" /\ fsTodo = {}
    /\ Returns(tree, <<>>)
    /\ UNCHANGED <<call, before, fsCalls>>
-----------------------------------------------------------------------------
(* Backups carry the time of the call in their name.  backup_file renames  *)
(* the file where it is and returns a path in the directory of backups.    *)
Stamped(p) == [Last(p) EXCEPT !.stamp = fsCalls + 1]
backup_folder(s, d) ==
    LET new == Append(d, Stamped(s))
    IN  /\ Calls("backup_folder", s, d, FALSE)
        /\ IF ~is_directory_exists(tree, s) THEN Returns(tree, <<>>)
           ELSE IF ~MayMake(tree, new) THEN Raises
           ELSE LET made == Made(tree, new)
                    may == MayMove(made, s, new)
                IN  /\ fsTodo' = {} /\ returned' = <<>>
                    /\ tree' = IF may THEN Moved(made, s, new) ELSE made
                    /\ outcome' = IF may THEN "returned" ELSE "raised"
backup_file(p, d) ==
    LET new == Append(Front(p), Stamped(p))
    IN  /\ Calls("backup_file", p, d, FALSE)
        /\ IF is_file_exists(tree, p)
           THEN Returns(Renamed(tree, p, new), Append(d, Stamped(p)))
           ELSE Returns(tree, <<>>)

(* get_paths_from_directory and find_duplicates_by_hash, which asks for no *)
(* hash: every file has the hash ''.                                       *)
get_paths_from_directory(t, d, recursive) ==
    {p \in Under(t, d) \cap FilesOf(t) : recursive \/ Len(p) = Len(d) + 1}
HashOf(t, p, add_file_hash) == IF add_file_hash THEN t[p] ELSE 0
find_duplicates_by_hash(t, d, recursive) ==
    LET files == get_paths_from_directory(t, d, recursive)
    IN  {pair \in files \X files :
           /\ pair[1] # pair[2]
           /\ HashOf(t, pair[1], FALSE) = HashOf(t, pair[2], FALSE)}

FsCall ==
    \/ \E p \in FsPaths :
          \/ remove_file(p) \/ rename_file_with_special_characters(p)
          \/ \E s \in Stems : rename_file(p, Name(s))
          \/ \E d \in FsDirs : backup_file(p, d)
          \/ \E d \in FsDirs, overwrite \in BOOLEAN : move_file(p, d, overwrite)
          \/ \E q \in FsPaths : temporary_rename(p, q) \/ temporary_copy(p, q)
          \/ \E q \in FsPaths, overwrite \in BOOLEAN : copy_file(p, q, overwrite)
    \/ \E d \in FsDirs :
          \/ remove_directory(d) \/ clear_directory(d) \/ remove_empty_directories(d)
          \/ create_directory(d) \/ rename_files_and_directories_with_special_characters(d)
          \/ \E e \in FsDirs :
                \/ backup_folder(d, e)
                \/ \E overwrite \in BOOLEAN :
                      \/ move_folder(d, e, overwrite) \/ copy_directory(d, e, overwrite)
                      \/ /\ is_directory_exists(tree, d)
                         /\ \E op \in {"move_top_level_files", "move_folder_contents",
                                       "copy_files_from_folder"} :
                               starts_loop(op, d, e, overwrite)
FsLoop ==
    \/ \E p \in fsTodo : rename_next(p) \/ move_next_file(p) \/ move_next_entry(p)
                         \/ copy_next_entry(p)
    \/ loop_ends \/ with_block_ends
FsNext == FsCall \/ FsLoop
-----------------------------------------------------------------------------
FsTypeOK ==
    /\ \A p \in DOMAIN tree : /\ tree[p] \in Nat
                              /\ Len(p) > 1 => is_directory_exists(tree, Front(p))
    /\ outcome \in {"idle", "runs", "body", "returned", "raised"}
    /\ fsTodo \subseteq DOMAIN tree

(* A call that is not to overwrite or remove loses no content, also when   *)
(* it stopped at an exception half way through a directory.                *)
NoContentIsLost == ~call.overwrite => ContentsOf(before) \subseteq ContentsOf(tree)

(* After a with statement the tree is what it was, when the temporary path *)
(* was free.                                                               *)
TemporaryIsUndone ==
    (/\ outcome \in {"returned", "raised"}
     /\ call.op \in {"temporary_rename", "temporary_copy"}
     /\ ~Exists(before, call.to)) => tree = before

(* Files are lost only by calls that say so, and what is temporary is      *)
(* undone.                                                                 *)
FilesAreKept == NoContentIsLost /\ TemporaryIsUndone

(* "Backed up file will be moved to" the directory of backups: the path    *)
(* that backup_file returns is that of the file.                           *)
BackupIsWhereItSays ==
    call.op = "backup_file" /\ outcome = "returned" /\ returned # <<>> =>
        is_file_exists(tree, returned)

(* Files reported as duplicates have one content.                          *)
DuplicatesHaveOneContent ==
    \A d \in FsDirs : \A pair \in find_duplicates_by_hash(tree, d, TRUE) :
        tree[pair[1]] = tree[pair[2]]
=============================================================================
