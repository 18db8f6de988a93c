------------------------------- MODULE FileLibrary -----------------------------
(***************************************************************************)
(* misc::file_library (src/lib/misc/file-library.cc): where an import      *)
(* finds its file.  A path is the sequence of its components; an absolute  *)
(* one starts with the root, and <<>> is the empty path.  A library is     *)
(*   search_path_        the directories of the search path                *)
(*   current_directory_  the stack of current directories, the top first   *)
(***************************************************************************)
EXTENDS Integers, Sequences

CONSTANT exists   \* the paths there is a file at, as they are spelled

Root           == <<47>>
is_absolute(p) == p # <<>> /\ p[1] = Root
\* p / q of std::filesystem, and the parts of a path.
Join(p, q)     == IF is_absolute(q) THEN q ELSE p \o q
filename(p)    == IF p = <<>> THEN <<>> ELSE <<p[Len(p)]>>
parent_path(p) == IF p = <<>> THEN <<>> ELSE SubSeq(p, 1, Len(p) - 1)

current_directory_get(l) == l.current_directory_[1]

\* Mutant: a directory is relative to the working directory.
push_current_directoryFlat(l, p) == [l EXCEPT !.current_directory_ = <<@[Len(@)]>> \o @]

push_current_directory(l, p) ==
  [l EXCEPT !.current_directory_ =
     <<IF is_absolute(p) THEN p ELSE Join(current_directory_get(l), p)>> \o @]
pop_current_directory(l) == [l EXCEPT !.current_directory_ = Tail(@)]

ensure_absolute_path(l, p) == IF is_absolute(p) THEN p ELSE Join(current_directory_get(l), p)
append_dir(l, p)  == [l EXCEPT !.search_path_ = Append(@, ensure_absolute_path(l, p))]
prepend_dir(l, p) == [l EXCEPT !.search_path_ = <<ensure_absolute_path(l, p)>> \o @]

find_in_directory(dir, file) == Join(dir, file) \in exists

\* The first directory of the search path that holds the file below relative_path.
find_in_search_path(l, relative_path, file) ==
  LET dirs == [i \in DOMAIN l.search_path_ |->
                 Join(IF is_absolute(l.search_path_[i]) THEN l.search_path_[i]
                      ELSE Join(current_directory_get(l), l.search_path_[i]), relative_path)]
      hits == {i \in DOMAIN dirs : find_in_directory(dirs[i], file)}
  IN  IF hits = {} THEN <<>> ELSE dirs[CHOOSE i \in hits : \A j \in hits : i <= j]

\* The directory of a file, or the empty path.  directory is the name of the file,
\* so the search path is searched below a directory of that name.
find_file(l, file) ==
  LET directory == filename(file)
  IN  CASE is_absolute(directory) -> IF file \in exists THEN directory ELSE <<>>
        [] ~is_absolute(directory) /\ find_in_directory(current_directory_get(l), file) ->
             parent_path(Join(current_directory_get(l), file))
        [] OTHER -> find_in_search_path(l, directory, filename(file))
================================================================================
