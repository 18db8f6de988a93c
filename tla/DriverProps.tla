------------------------------- MODULE DriverProps -----------------------------
(***************************************************************************)
(* What reading a program and its imports promises.                        *)
(***************************************************************************)
EXTENDS Driver

CONSTANTS Spelled,      \* pairs of a text and the tokens it is written from
          Ungrouped(_)  \* a tree, with functions that follow each other in one chunk,
                        \* and types too

-----------------------------------------------------------------------------
(* The state every file that is read shares. *)

\* How many of the files that are read are imports.
Importing == IF status = "prelude" THEN Len(frames) ELSE Len(frames) - 1

\* While files are read, the current directories are those of the files on the way
\* from the innermost one to the program, the open files are the imports among them,
\* each once and with the file that asks for it, and locations are in the innermost
\* one; once they are read the directories of the tasks are what they were.
StacksAgree ==
  LET n == Importing
      current == library_.current_directory_
  IN  /\ Reads =>
           /\ SubSeq(current, 1, n) = [i \in 1..n |-> parent_path(frames[i].path)]
           /\ Len(current) = n + 2 /\ location_ = frames[1].path
           /\ DOMAIN open_files_ = {frames[i].path : i \in 1..n} /\ Cardinality(DOMAIN open_files_) = n
           /\ \A i \in 1..n : i < Len(frames) => open_files_[frames[i].path] = frames[i + 1].path
      /\ status = "parsed" => l.current_directory_ = <<cwd>> /\ open_files_ = <<>>

-----------------------------------------------------------------------------
(* What an import means. *)

\* All the tokens of a text: a rule drops a byte at least, and so there are no more
\* rules than bytes.
TokensOf(text) ==
  LET After(s) == LET n == Longest(s.lexer.start, s.text)
                      r == Rule_(s.lexer, s.text, n)
                  IN  [lexer |-> r.lexer, text |-> Rest(s.text, n), tokens |-> s.tokens \o r.tokens]
      read[n \in 0..Len(text)] ==
        IF n = 0 THEN [lexer |-> Lexer, text |-> text, tokens |-> <<>>]
        ELSE LET s == read[n - 1] IN IF s.text = <<>> THEN s ELSE After(s)
  IN  read[Len(text)].tokens

\* The tokens of a file with those of a file in place of each import, whose name is
\* relative to the directory of the file.  Each file is read once at a time, and so
\* they are nested no deeper than there are files, and the program once more.
Included(file_) ==
  LET inc[deep \in 0 .. Cardinality(exists) + 1, p \in exists] ==
        LET ts == TokensOf(TextOf(p))
            at(i) == find_file([library_ EXCEPT !.current_directory_ = <<parent_path(p)>>],
                               Path(ts[i + 1][2]))
            path(i) == Join(at(i), filename(Path(ts[i + 1][2])))
            one(r, i) ==
              CASE ts[i] = T("import") -> r \o inc[deep - 1, path(i)]
                [] i > 1 /\ ts[i - 1] = T("import") -> r
                [] OTHER -> Append(r, ts[i])
        IN  IF deep = 0 THEN <<>> ELSE FoldLeft(one, <<>>, [i \in DOMAIN ts |-> i])
  IN  inc[Cardinality(exists) + 1, file_]

\* A program that is read without an error declares, in this order, what the program
\* does whose text has the text of a file where an import of it is.  Only the chunks
\* are others: an import ends a chunk of functions or types, which the text of the
\* file would go on with (parsetiger.yy:382, 390, 440).
ImportIsInclusion ==
  (status = "prelude" /\ frames = <<>> /\ error_ = {}) =>
    \E ts \in {Included(Join(cwd, filename_))} :
      \E r \in {Grammar(ts, <<>>)} : r.i = Len(ts) + 1 /\ Ungrouped(r.ns[1]) = Ungrouped(ast)

-----------------------------------------------------------------------------
(* What the scanner reads of what is written. *)

\* Comments that nest, and strings that misc::escape writes, are read as what they
\* are written from.
ReadAs(text, tokens) ==
  main = text =>
    /\ status = "scan" => open_files_ # <<>>
    /\ (status = "file" /\ Len(frames) = 1 /\ AtEnd) => file.tokens = tokens
SpelledReadsBack == \A t \in Spelled : ReadAs(t[1], t[2])

=============================================================================
