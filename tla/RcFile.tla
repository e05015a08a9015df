------------------------------- MODULE RcFile -------------------------------
(***************************************************************************)
(* RcFile::Parse and RcFile::ParseFile (bazel-0.15.1/src/main/cpp/        *)
(* rc_file.cc): the .bazelrc parser with its recursive imports.  Parse     *)
(* starts ParseFile on the root file with import_stack = [root].  ParseFile*)
(* reads the file (UNREADABLE_FILE when it cannot), appends its name to    *)
(* rcfile_paths_, and goes through its lines:                              *)
(*   - an empty line, or one whose words are empty (a comment), is skipped;*)
(*   - `import f` with a word count other than 2, or a %workspace% path    *)
(*     that cannot be made relative, is INVALID_FORMAT;                    *)
(*   - `import f` with f already on import_stack is IMPORT_LOOP;           *)
(*   - otherwise f is pushed, ParseFile(f) runs, and f is popped;          *)
(*   - any other line adds (file, word) to options_[command] for each word.*)
(* An error returns at once through every caller, and Parse then returns   *)
(* nullptr.  Line continuation, tokenising and the error texts are string  *)
(* work and are left out: a line is given by its words.  The recursion is  *)
(* kept as a stack of frames, each the file and the next line to read.     *)
(***************************************************************************)
EXTENDS Integers, Sequences, SequencesExt

CONSTANTS
  Files,     \* the rc files, by the name an import names them with
  Root,      \* the file Parse is given
  Commands,  \* the first words of option lines
  Configs    \* the rc file trees Parse may meet: the lines of each
             \* readable file (a file outside the domain cannot be read)

ASSUME Root \in Files /\ \A t \in Configs : DOMAIN t \subseteq Files

(* A line, after Tokenize: "blank" (no words), an import of a file, which  *)
(* is "badImport" when it has other than 2 words or an unrelativisable     *)
(* %workspace% path, or an option line: a command and its other words.     *)
Blank == [kind |-> "blank"]
Import(f) == [kind |-> "import", file |-> f]
BadImport == [kind |-> "badImport"]
Option(c, ws) == [kind |-> "option", cmd |-> c, words |-> ws]

VARIABLES
  contents,     \* the files on disk during this parse
  frames,       \* the ParseFile calls in progress, innermost last: [file, pc],
                \* pc = 0 before ReadFile, else the next line
  import_stack, \* ParseFile's import_stack
  paths,        \* rcfile_paths_
  options,      \* options_: for each command the (file, word) pairs, in order
  result        \* "parsing", or what Parse's ParseFile returned

vars == <<contents, frames, import_stack, paths, options, result>>

Top == frames[Len(frames)]

\* The innermost ParseFile returns err through every caller.
Fail(err) ==
  /\ result' = err
  /\ frames' = <<>>
  /\ UNCHANGED <<import_stack, paths, options>>

\* The innermost frame moves on to its next line.
Advance == [frames EXCEPT ![Len(frames)].pc = @ + 1]

-----------------------------------------------------------------------------
Init ==
  /\ contents \in Configs
  /\ frames = <<[file |-> Root, pc |-> 0]>>
  /\ import_stack = <<Root>>
  /\ paths = <<>>
  /\ options = [c \in Commands |-> <<>>]
  /\ result = "parsing"

\* ReadFile, then rcfile_paths_.push_back(filename).
ReadFile ==
  /\ frames /= <<>> /\ Top.pc = 0
  /\ IF Top.file \notin DOMAIN contents
       THEN Fail("UNREADABLE_FILE")
       ELSE /\ paths' = Append(paths, Top.file)
            /\ frames' = Advance
            /\ UNCHANGED <<import_stack, options, result>>

\* One line of the for loop over lines.
ParseLine ==
  /\ frames /= <<>> /\ Top.pc >= 1 /\ Top.pc <= Len(contents[Top.file])
  /\ LET line == contents[Top.file][Top.pc] IN
     CASE line.kind = "blank" ->
            /\ frames' = Advance
            /\ UNCHANGED <<import_stack, paths, options, result>>
       [] line.kind = "badImport" -> Fail("INVALID_FORMAT")
       [] line.kind = "import" /\ Contains(import_stack, line.file) ->
            Fail("IMPORT_LOOP")
       [] line.kind = "import" ->
            /\ import_stack' = Append(import_stack, line.file)
            /\ frames' = Append(Advance, [file |-> line.file, pc |-> 0])
            /\ UNCHANGED <<paths, options, result>>
       [] OTHER ->
            /\ options' = [options EXCEPT ![line.cmd] =
                             @ \o [i \in 1 .. Len(line.words) |-> <<Top.file, line.words[i]>>]]
            /\ frames' = Advance
            /\ UNCHANGED <<import_stack, paths, result>>

(* The end of the lines: ParseFile returns NONE; its caller pops the       *)
(* import stack, and Parse keeps the RcFile when the root returns.         *)
EndFile ==
  /\ frames /= <<>> /\ Top.pc >= 1 /\ Top.pc > Len(contents[Top.file])
  /\ frames' = Front(frames)
  /\ IF Len(frames) = 1
       THEN result' = "NONE" /\ UNCHANGED import_stack
       ELSE import_stack' = Front(import_stack) /\ UNCHANGED result
  /\ UNCHANGED <<paths, options>>

Next == (ReadFile \/ ParseLine \/ EndFile) /\ UNCHANGED contents

Spec == Init /\ [][Next]_vars /\ WF_vars(Next)

-----------------------------------------------------------------------------
(* What the options of a parse should be: every file's lines with each     *)
(* import replaced by the lines of the imported file (defined on files     *)
(* whose imports form no cycle).                                           *)
RECURSIVE Expand(_, _)
Expand(f, c) ==
  LET ls == contents[f]
      Of(l) == CASE l.kind = "import" -> Expand(l.file, c)
                 [] l.kind = "option" /\ l.cmd = c ->
                      [i \in 1 .. Len(l.words) |-> <<f, l.words[i]>>]
                 [] OTHER -> <<>>
  IN FoldLeft(LAMBDA acc, l : acc \o Of(l), <<>>, ls)

(* The import_stack is the chain of ParseFile calls, no file twice: an     *)
(* import of a file already being parsed is refused, so the recursion is   *)
(* at most as deep as there are files.                                     *)
ImportStackIsChain ==
  /\ IsInjective(import_stack)
  /\ frames /= <<>> => import_stack = [i \in 1 .. Len(frames) |-> frames[i].file]

(* A parse that succeeds yields, for every command, the options of the     *)
(* root file with its imports expanded in place, in file order.            *)
OptionsExpandImports ==
  result = "NONE" => \A c \in Commands : options[c] = Expand(Root, c)

(* Parse always returns, whatever the imports: with loops among the files  *)
(* ParseFile stops with IMPORT_LOOP.                                       *)
ParseReturns ==
  <>(result /= "parsing")
=============================================================================
