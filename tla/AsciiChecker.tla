---------------------------- MODULE AsciiChecker ----------------------------
(***************************************************************************)
(* asciiOnlyCheckerImpl.rb: which of the files given hold characters that  *)
(* are not US-ASCII, in their text or, for code, in their comments.        *)
(*                                                                         *)
(* A text is "none", "ascii" or "other". A line is the text before the     *)
(* first comment sign and the text after it. A file is plain or code; one  *)
(* that is ignored by its name or is no file is skipped.                   *)
(***************************************************************************)
EXTENDS Integers, Sequences, SequencesExt, FiniteSetsExt

CONSTANTS
  MaxFiles,  \* the program is given up to this many files
  MaxLines,  \* which have up to this many lines in all
  Nil        \* Ruby's nil

VARIABLES
  files,      \* ARGV
  file,       \* the file that is read
  line,       \* the line of it
  texts,      \* what its extractor has made of the line
  paragraph,  \* the text that is collected
  result,     \* the file has failed
  failed,     \* the accumulator of reduce: any file has
  exitStatus,
  pc

vars == <<files, file, line, texts, paragraph, result, failed, exitStatus, pc>>

Texts == {"none", "ascii", "other"}
Lines == [code : Texts, comment : Texts]

Skipped == [skipped |-> TRUE, code |-> FALSE, name |-> "ascii", lines |-> <<>>]

Files ==
  [skipped : {FALSE}, code : BOOLEAN, name : {"ascii", "other"}, lines : SeqOf(Lines, MaxLines)]
    \union {Skipped}

ArgumentLists ==
  {list \in SeqOf(Files, MaxFiles) :
     MapThenSumSet(LAMBDA i : Len(list[i].lines), DOMAIN list) <= MaxLines}

Both(a, b) ==
  CASE "other" \in {a, b} -> "other"
    [] {a, b} = {"none"} -> "none"
    [] OTHER -> "ascii"

\* PlainExtractor takes the line; the others its comment, after an empty text, which ends
\* the paragraph, if there is code before it or no comment.
Extract(code, l) ==
  IF ~code THEN <<Both(l.code, l.comment)>>
  ELSE IF l.comment = "none" THEN <<"none">>
  ELSE IF l.code = "none" THEN <<l.comment>>
  ELSE <<"none", l.comment>>

Init ==
  /\ files \in ArgumentLists
  /\ file = 1
  /\ line = 1
  /\ texts = <<>>
  /\ paragraph = "none"
  /\ result = FALSE
  /\ failed = FALSE
  /\ exitStatus = Nil
  /\ pc = "file"

\* next without a value: the accumulator becomes nil.
SkipFile ==
  /\ pc = "file"
  /\ file <= Len(files)
  /\ files[file].skipped
  /\ failed' = Nil
  /\ file' = file + 1
  /\ UNCHANGED <<files, line, texts, paragraph, result, exitStatus, pc>>

OpenFile ==
  /\ pc = "file"
  /\ file <= Len(files)
  /\ ~files[file].skipped
  /\ line' = 1
  /\ texts' = <<>>
  /\ paragraph' = "none"
  /\ result' = FALSE
  /\ pc' = "parse"
  /\ UNCHANGED <<files, file, failed, exitStatus>>

ReadLine ==
  /\ pc = "parse"
  /\ texts = <<>>
  /\ line <= Len(files[file].lines)
  /\ texts' = Extract(files[file].code, files[file].lines[line])
  /\ line' = line + 1
  /\ UNCHANGED <<files, file, paragraph, result, failed, exitStatus, pc>>

\* A paragraph is printed with the name of its file, and fails if one of both is not ASCII.
Printed == paragraph # "none" /\ Both(files[file].name, paragraph) = "other"

\* check: an empty text prints the paragraph, any other is added to it.
CheckText ==
  /\ pc = "parse"
  /\ texts # <<>>
  /\ IF Head(texts) = "none"
     THEN result' = (result \/ Printed) /\ paragraph' = "none"
     ELSE paragraph' = Both(paragraph, Head(texts)) /\ UNCHANGED result
  /\ texts' = Tail(texts)
  /\ UNCHANGED <<files, file, line, failed, exitStatus, pc>>

\* Mutated EndFile: the last paragraph is not printed.
EndFileInParagraph ==
  /\ pc = "parse"
  /\ texts = <<>>
  /\ line > Len(files[file].lines)
  /\ failed' = (failed = TRUE \/ result)
  /\ file' = file + 1
  /\ pc' = "file"
  /\ UNCHANGED <<files, line, texts, paragraph, result, exitStatus>>

\* The last paragraph is printed. nil | false is false, and nil | true is true.
EndFile ==
  /\ pc = "parse"
  /\ texts = <<>>
  /\ line > Len(files[file].lines)
  /\ result' = (result \/ Printed)
  /\ paragraph' = "none"
  /\ failed' = (failed = TRUE \/ result')
  /\ file' = file + 1
  /\ pc' = "file"
  /\ UNCHANGED <<files, line, texts, exitStatus>>

Exit ==
  /\ pc = "file"
  /\ file > Len(files)
  /\ exitStatus' = IF failed = TRUE THEN 1 ELSE 0
  /\ pc' = "exited"
  /\ UNCHANGED <<files, file, line, texts, paragraph, result, failed>>

Step == SkipFile \/ OpenFile \/ ReadLine \/ CheckText \/ EndFile \/ Exit
Ended == pc = "exited"

Next == Step \/ (Ended /\ UNCHANGED vars)
Spec == Init /\ [][Next]_vars

-----------------------------------------------------------------------------
\* What a file holds that the program looks at.
TextOf(f, l) == IF f.code THEN l.comment ELSE Both(l.code, l.comment)

HoldsOther(f) ==
  /\ ~f.skipped
  /\ \E i \in DOMAIN f.lines :
       \/ TextOf(f, f.lines[i]) = "other"
       \/ TextOf(f, f.lines[i]) # "none" /\ f.name = "other"

\* A file fails exactly if it holds a character that is not ASCII in what the program
\* looks at, in whichever paragraph it is, the last one included.
VerdictOfFile ==
  pc = "parse" /\ pc' = "file" => (result' <=> HoldsOther(files[file]))

\* The comment of asciiOnlyChecker.rb says that the status is not 0 when characters other
\* than US-ASCII are found. It is 0 if the program skips a file afterwards.
FoundMeansFailure ==
  Ended /\ (\E i \in DOMAIN files : HoldsOther(files[i])) => exitStatus # 0
=============================================================================
