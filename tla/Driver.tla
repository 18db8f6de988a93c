---------------------------------- MODULE Driver -------------------------------
(***************************************************************************)
(* parse::TigerDriver and parse::parse (src/src/parse): how tc reads a     *)
(* program and the files it imports.  An import is read where the parser   *)
(* finds it, by a scanner and a parser of its own, in the middle of the    *)
(* file that asks for it; the driver, and with it the library, the list of *)
(* open files, the location and the errors, is one for all of them.  The   *)
(* grammar is a parameter, asked for the tree at the end of each file.     *)
(***************************************************************************)
EXTENDS Scanner, FileLibrary, FiniteSets, SequencesExt

CONSTANTS Commands,  \* how tc may be called: the text of the program, the name of the
                     \* prelude, <<>> for none, and the options that add a directory
          filename_, \* the file on the command line
          Files,     \* what the other files hold: path to text
          cwd,       \* the working directory
          PKGDATADIR,
          Grammar(_, _),  \* what the parser makes of tokens, and of what each import gave
          MainTree(_, _), \* the program of an expression: the chunks of the prelude, and it
          NoTree          \* a null pointer to a tree

\* A name is a path that names something: it is not empty and not the root.
Paths   == Seq(Seq(Int))
Names   == {p \in Paths : p # <<>> /\ p[Len(p)] # Root}
Texts   == Seq(Int)
ASSUME ExistsAssumption == exists = DOMAIN Files \cup {Join(cwd, filename_)}
ASSUME PathsAssumption ==
  /\ cwd \in Paths /\ is_absolute(cwd) /\ PKGDATADIR \in Paths /\ filename_ \in Names
  /\ \A c \in Commands : /\ c.main \in Texts /\ (c.prelude = <<>> \/ c.prelude \in Names)
                         /\ c.options \in Seq([name : {"P", "p"}, dir : Paths])
  /\ \A p \in DOMAIN Files : Files[p] \in Texts
\* No word of the language is a string, which is between quotes, or begins like one.
ASSUME ReservedAssumption ==
  \A s \in DOMAIN Reserved : Reserved[s] # "STRING" /\ s # <<>> /\ s[1] # Quote

VARIABLES
  main,        \* what the file on the command line holds
  prelude,     \* the name of the prelude
  options,     \* the options that are left
  l,           \* the library of the tasks
  library_,    \* the driver's copy of it
  frames,      \* the calls of parse_ that are under way, the innermost first
  open_files_, \* the imports that are being read, and the file that asks for each
  location_,   \* the file of the location
  error_,      \* the errors the driver recorded, by status
  ast,         \* what the file on the command line is, then the program
  prelude_chunks,
  status       \* "options", "file", "prelude", "tweast", "parsed", or how tc ended

vars == <<status, frames, main, prelude, options, l, library_, open_files_, location_, error_, ast, prelude_chunks>>

\* A call of parse_: the file it reads, what is left of it, its lexer, the tokens
\* its parser got, how many it had at its last import and what each import gave,
\* and the location to go back to.
Call(path, text) == [path |-> path, text |-> text, lexer |-> Lexer, tokens |-> <<>>,
                     served |-> 0, import |-> <<>>, saved |-> location_]
TextOf(path) == IF path = Join(cwd, filename_) THEN main ELSE Files[path]

\* A function with one value set (operator[] of std::map).
With(f, key, value) == [x \in DOMAIN f \cup {key} |-> IF x = key THEN value ELSE f[x]]

\* The options as their tasks see them.  Each occurrence enables its task once more,
\* but the task has one argument: the notifier stores it when the occurrence is
\* parsed, and tasks run when all of them are.
Stored(given) ==
  LET last(name) == CHOOSE i \in DOMAIN given :
                      /\ given[i].name = name
                      /\ \A j \in DOMAIN given : given[j].name = name => j <= i
  IN  [i \in DOMAIN given |-> [given[i] EXCEPT !.dir = given[last(given[i].name)].dir]]

Init ==
  /\ \E c \in Commands : main = c.main /\ prelude = c.prelude /\ options = Stored(c.options)
  /\ l = [search_path_ |-> <<PKGDATADIR>>, current_directory_ |-> <<cwd>>]
  /\ library_ = l /\ frames = <<>> /\ open_files_ = <<>> /\ location_ = <<>>
  /\ error_ = {} /\ ast = NoTree /\ prelude_chunks = NoTree /\ status = "options"

Exits(how) ==
  /\ status' = how
  /\ UNCHANGED <<l, library_, frames, open_files_, location_, error_, ast, prelude_chunks>>

-----------------------------------------------------------------------------
\* The tasks of -P and -p, in the order of the command line.
Option(name, l2) ==
  /\ status = "options" /\ options # <<>> /\ options[1].name = name
  /\ l' = l2 /\ options' = Tail(options)
  /\ UNCHANGED <<main, prelude, library_, frames, open_files_, location_, error_, ast,
                 prelude_chunks, status>>
library_append  == Option("P", append_dir(l, options[1].dir))
library_prepend == Option("p", prepend_dir(l, options[1].dir))

\* parse::parse: the directory of the file becomes the current one, and the driver
\* takes a copy of the library.
parse ==
  /\ status = "options" /\ options = <<>> /\ status' = "file"
  /\ l' = push_current_directory(l, parent_path(filename_)) /\ library_' = l'
  /\ frames' = <<Call(filename_, main)>> /\ location_' = filename_
  /\ UNCHANGED <<main, prelude, options, open_files_, error_, ast, prelude_chunks>>

-----------------------------------------------------------------------------
\* An import the parser has read: it calls the driver before it asks for a token.
file    == frames[1]
Reads   == frames # <<>> /\ status \in {"file", "prelude"}
AtEnd   == file.text = <<>> /\ file.lexer.start = "INITIAL"
Import(f) == /\ Len(f.tokens) > f.served + 1
             /\ f.tokens[Len(f.tokens) - 1] = T("import") /\ Last(f.tokens)[1] = "STRING"
Imported == Len(frames) > 1 \/ status = "prelude"

\* One rule of the scanner on the innermost file.
scan ==
  /\ Reads /\ ~Import(file) /\ ~AtEnd /\ UNCHANGED <<main, prelude, options>>
  /\ \E n \in {Longest(file.lexer.start, file.text)} :
       \E x \in {Rule_(file.lexer, file.text, n)} :
         IF x.out # "" THEN Exits(x.out)
         ELSE /\ frames' = [frames EXCEPT ![1].lexer = x.lexer, ![1].text = Rest(@, n),
                                          ![1].tokens = @ \o x.tokens]
              /\ UNCHANGED <<l, library_, open_files_, location_, error_, ast, prelude_chunks, status>>

\* What parse_import returns.  fs are the calls under it; without one it was called
\* for the prelude.  The parser puts the chunk before an import in front of the
\* list, which a null pointer is not.
AfterChunk(f) == Len(f.tokens) > 2 /\ f.tokens[Len(f.tokens) - 2] # T("let")
Return(fs, chunks) ==
  IF fs = <<>>
  THEN frames' = fs /\ prelude_chunks' = chunks /\ status' = "tweast"
  ELSE /\ frames' = [fs EXCEPT ![1].import = With(@, Last(fs[1].tokens)[2], chunks),
                               ![1].served = Len(fs[1].tokens)]
       /\ status' = IF chunks.k = "Null" /\ AfterChunk(fs[1]) THEN "undefined" ELSE status
       /\ UNCHANGED prelude_chunks

NotImported ==
  /\ error_' = error_ \cup {"failure"} /\ Return(frames, NoTree)
  /\ UNCHANGED <<l, library_, open_files_, location_, ast>>
ReadImport(directory_path, path, loc) ==
  /\ library_' = push_current_directory(library_, directory_path)
  /\ open_files_' = With(open_files_, path, loc)
  /\ frames' = <<Call(path, TextOf(path))>> \o frames /\ location_' = path
  /\ UNCHANGED <<l, error_, ast, prelude_chunks, status>>

\* Mutant: a file that is being read is read again.
parse_importAgain(name, loc) ==
  LET directory_path == find_file(library_, name)
      path == Join(directory_path, filename(name))
  IN  IF directory_path = <<>> THEN NotImported
      ELSE Len(frames) < 5 /\ ReadImport(directory_path, path, loc)

parse_import(name, loc) ==
  LET directory_path == find_file(library_, name)
      path == Join(directory_path, filename(name))
  IN  IF directory_path = <<>> \/ path \in DOMAIN open_files_ THEN NotImported
      ELSE ReadImport(directory_path, path, loc)

\* The components of a name, between its slashes: nothing before the first one is
\* the root.
Cut(parts, b) == IF b = 47 THEN Append(parts, <<>>) ELSE [parts EXCEPT ![Len(parts)] = Append(@, b)]
Path(string) ==
  LET cut[n \in 0..Len(string)] == IF n = 0 THEN <<<<>>>> ELSE Cut(cut[n - 1], string[n])
      parts == cut[Len(string)]
  IN  IF Len(parts) > 1 /\ parts[1] = <<>> THEN [parts EXCEPT ![1] = Root] ELSE parts

import == /\ Reads /\ Import(file) /\ UNCHANGED <<main, prelude, options>>
          /\ parse_import(Path(Last(file.tokens)[2]), file.path)

\* The end of a file: after an import the location, the open files and the current
\* directory are what they were, and an expression is an error.
parse_ ==
  /\ Reads /\ ~Import(file) /\ AtEnd /\ UNCHANGED <<main, prelude, options>>
  /\ \E r \in {Grammar(file.tokens, file.import)} :
         CASE r.i = 0 \/ (Imported /\ r.ns[1].k \notin {"ChunkList", "Null"}) -> Exits("parse")
           [] r.i # 0 /\ Imported /\ r.ns[1].k \in {"ChunkList", "Null"} ->
                /\ library_' = pop_current_directory(library_)
                /\ open_files_' = [p \in DOMAIN open_files_ \ {file.path} |-> open_files_[p]]
                /\ location_' = file.saved
                /\ Return(Tail(frames), r.ns[1]) /\ UNCHANGED <<l, error_, ast>>
           [] r.i # 0 /\ ~Imported ->
                /\ frames' = <<>> /\ ast' = r.ns[1] /\ status' = "prelude"
                /\ UNCHANGED <<l, library_, open_files_, location_, error_, prelude_chunks>>

-----------------------------------------------------------------------------
\* The program is what tasks::parse gets; without one it exits.
Parsed(tree) == /\ ast' = tree /\ l' = pop_current_directory(l)
                /\ status' = IF tree.k = "Null" THEN "failure" ELSE "parsed"
                /\ UNCHANGED <<main, prelude, options, library_, frames, open_files_, error_, prelude_chunks>>

\* Chunks are the program, and an expression comes after the prelude.
import_prelude ==
  /\ status = "prelude" /\ frames = <<>>
  /\ CASE ast.k \in {"ChunkList", "Null"} -> Parsed(ast) /\ UNCHANGED location_
       [] ast.k \notin {"ChunkList", "Null"} /\ prelude = <<>> ->
            Exits("tweast") /\ UNCHANGED <<main, prelude, options>>
       [] ast.k \notin {"ChunkList", "Null"} /\ prelude # <<>> ->
            parse_import(prelude, <<>>) /\ UNCHANGED <<main, prelude, options>>

parse_input == status = "tweast" /\ location_' = <<>> /\ Parsed(MainTree(prelude_chunks, ast))

Next == \/ library_append \/ library_prepend \/ parse \/ scan \/ import \/ parse_
        \/ import_prelude \/ parse_input
Spec == Init /\ [][Next]_vars
================================================================================
