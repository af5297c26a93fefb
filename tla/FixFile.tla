------------------------------ MODULE FixFile ------------------------------
(***************************************************************************)
(* `xray fix` on one Python file, run after run: read, decode, normalise   *)
(* the line endings, collect the edits the reported rules carry, apply     *)
(* them, restore the line endings, write.                                  *)
(*                                                                         *)
(* A text is a sequence of the tokens the rules and the Python grammar     *)
(* tell apart: the name of a call with its receiver, "(", ")", ",", a      *)
(* positional argument "a", keyword arguments, "**kw", comments and line   *)
(* ends.  "#," is a comment whose last character is a comma, "#latin1" one *)
(* with a byte that is not UTF-8 and "#fffd" the same comment decoded.     *)
(* Blanks are layout; offsets count tokens.  A name stands for a call that *)
(* meets the other conditions of its rule: the receiver resolves to the    *)
(* module, the argument of math.sqrt is an array.  A file that uses the    *)
(* dask_setup io mode is one whose rules lack XR008.                       *)
(***************************************************************************)
EXTENDS FixEdits, FiniteSets

CONSTANTS
  Text,      \* the files `xray fix` may be given, all of them valid Python
  RuleSets,  \* what the configuration and the flags may leave enabled
  MaxRuns    \* how often the command is run

VARIABLES
  original,  \* the file before the first run
  raw,       \* the file on disk
  runs,      \* runs so far
  settled,   \* the rules whose edits have been written by some run
  skipped    \* edits the last run dropped

fileVars == <<original, raw, runs, settled, skipped>>

Newline == {"LF", "CRLF"}
Comment == {"#", "#,", "#latin1", "#fffd"}

-----------------------------------------------------------------------------
(* The text as the rules see it, and back.                                 *)

\* String::from_utf8_lossy
Decoded(text) ==
  [i \in 1..Len(text) |-> IF text[i] = "#latin1" THEN "#fffd" ELSE text[i]]

Normalised(text) ==
  [i \in 1..Len(text) |-> IF text[i] = "CRLF" THEN "LF" ELSE text[i]]

\* Mutant: the text goes back as the parser saw it.
RestoreNothing(before, text) == text

RestoreLineEndings(before, text) ==
  IF Contains(before, "CRLF")
  THEN [i \in 1..Len(text) |-> IF text[i] = "LF" THEN "CRLF" ELSE text[i]]
  ELSE text

-----------------------------------------------------------------------------
(* Calls.  A call is named by the index of the token before its "(".       *)

Calls(text) == {i \in 1..(Len(text) - 1) : text[i + 1] = "("}

\* How many parentheses opened at i or later are open after j.
Depth(text, i, j) ==
  Cardinality({k \in i..j : text[k] = "("}) - Cardinality({k \in i..j : text[k] = ")"})

Closings(text, c) == {j \in (c + 2)..Len(text) : Depth(text, c, j) = 0}

Close(text, c) == Min(Closings(text, c))

\* The tokens of the argument list that are not inside a nested call, but for
\* those set apart.
ArgumentsBut(text, c, apart) ==
  FlattenSeq([k \in 1..(Close(text, c) - c - 2) |->
    LET j == c + 1 + k
    IN  IF Depth(text, c, j) = 1 /\ text[j] \notin apart THEN <<text[j]>> ELSE <<>>])

ArgumentList(text, c) == ArgumentsBut(text, c, {")"})

Keyword(token) ==
  CASE token = "chunks" -> "chunks"
    [] token \in {"parallel=True", "parallel=False"} -> "parallel"
    [] token \in {"dask=allowed", "dask=parallelized"} -> "dask"
    [] OTHER -> "none"

HasKeywordArg(text, c, kw) ==
  \E k \in DOMAIN ArgumentList(text, c) : Keyword(ArgumentList(text, c)[k]) = kw

KeywordArgPresentOrUnknown(text, c, kw) ==
  HasKeywordArg(text, c, kw) \/ Contains(ArgumentList(text, c), "**kw")

\* What a keyword is prefixed with at the end of an argument list with this
\* text: the blank of the code's " " is layout.
SeparatorAfter(arguments) ==
  LET written == {k \in DOMAIN arguments : arguments[k] \notin Newline}
  IN  IF written = {} \/ arguments[Max(written)] \in {",", "#,"} THEN <<>> ELSE <<",">>

\* Mutant: the list is taken to be non-empty.
SeparatorAlways(text, c) == <<",">>

Separator(text, c) == SeparatorAfter(SubSeq(text, c + 2, Close(text, c) - 1))

\* Mutant: the keyword goes behind the closing parenthesis.
InsertionBehind(text, c, keyword) ==
  LET at == Close(text, c)
  IN  [start_byte |-> at, end_byte |-> at, replacement |-> Separator(text, c) \o <<keyword>>]

Insertion(text, c, keyword) ==
  LET at == Close(text, c) - 1
  IN  [start_byte |-> at, end_byte |-> at, replacement |-> Separator(text, c) \o <<keyword>>]

-----------------------------------------------------------------------------
(* The fixable rules, each on call c of a text.                            *)

XR001(text, c) ==
  IF text[c] \in {"open_dataset", "open_mfdataset"}
     /\ ~KeywordArgPresentOrUnknown(text, c, "chunks")
  THEN <<Insertion(text, c, "chunks")>> ELSE <<>>

\* A parallel= other than True is reported but not edited.
XR008(text, c) ==
  IF text[c] = "open_mfdataset" /\ ~KeywordArgPresentOrUnknown(text, c, "parallel")
  THEN <<Insertion(text, c, "parallel=True")>> ELSE <<>>

DK007(text, c) ==
  IF text[c] = "from_array" /\ ~KeywordArgPresentOrUnknown(text, c, "chunks")
  THEN <<Insertion(text, c, "chunks")>> ELSE <<>>

\* Mutant: the whole call is re-emitted, not the name alone.
ReplacementOfCall(text, c, i, token) ==
  <<[start_byte |-> c - 1, end_byte |-> Close(text, c),
     replacement |-> <<token>> \o SubSeq(text, c + 1, Close(text, c))]>>

Replacement(text, c, i, token) ==
  <<[start_byte |-> i - 1, end_byte |-> i, replacement |-> <<token>>]>>

\* NP004, NP006 and NP007 rewrite the name of the call.
NewName == [math_sqrt |-> "np_sqrt", matrix |-> "array", applymap |-> "map"]
NameRule == [math_sqrt |-> "NP004", matrix |-> "NP006", applymap |-> "NP007"]

\* The tokens an edit may write.
Written == {",", "chunks", "parallel=True", "dask=parallelized", "np_sqrt", "array", "map"}

Rename(text, c) == Replacement(text, c, c, NewName[text[c]])

\* The value of the keyword is rewritten in place.
XR009(text, c) ==
  IF text[c] = "apply_ufunc" /\ HasKeywordArg(text, c, "dask")
  THEN LET i == Min({k \in c..Close(text, c) :
                       Depth(text, c, k) = 1 /\ Keyword(text[k]) = "dask"})
       IN  IF text[i] = "dask=allowed"
           THEN Replacement(text, c, i, "dask=parallelized") ELSE <<>>
  ELSE <<>>

\* The edits of the diagnostics that survive the filters, in their order.
Fixes(text, rules) ==
  FlattenSeq([c \in 1..Len(text) |->
    IF c \notin Calls(text) THEN <<>>
    ELSE (IF "XR001" \in rules THEN XR001(text, c) ELSE <<>>)
      \o (IF "XR008" \in rules THEN XR008(text, c) ELSE <<>>)
      \o (IF "XR009" \in rules THEN XR009(text, c) ELSE <<>>)
      \o (IF "DK007" \in rules THEN DK007(text, c) ELSE <<>>)
      \o (IF text[c] \in DOMAIN NewName /\ NameRule[text[c]] \in rules
          THEN Rename(text, c) ELSE <<>>)])

\* One turn of the loop of fix::apply, which FixApply models in steps.
Turn(edited, f) ==
  IF Accepts(edited.out, edited.floor, f)
  THEN [edited EXCEPT !.out = ReplaceRange(@, f), !.floor = f.start_byte]
  ELSE [edited EXCEPT !.skipped = @ + 1]

Apply(text, edits) ==
  LET order == CHOOSE q \in Sorted(edits) : TRUE
  IN  FoldLeft(Turn, [out |-> text, floor |-> MaxUsize, skipped |-> 0],
               [k \in 1..Len(edits) |-> edits[order[k]]])

-----------------------------------------------------------------------------
(* Python: a call parses when it is closed, its arguments are separated by *)
(* commas, name no keyword twice and put no positional one after a keyword. *)

Items(text, c) == ArgumentsBut(text, c, {")"} \cup Newline \cup Comment)

CallParses(text, c) ==
  LET items == Items(text, c)
      named(k) == Keyword(items[k]) # "none" \/ items[k] = "**kw"
  IN  /\ Closings(text, c) # {}
      /\ \A k \in DOMAIN items : (items[k] = ",") <=> (k % 2 = 0)
      /\ \A j, k \in DOMAIN items : j < k /\ items[k] # "," =>
           /\ named(j) => named(k)
           /\ Keyword(items[j]) # "none" => Keyword(items[j]) # Keyword(items[k])

Parses(text) == \A c \in Calls(text) : CallParses(text, c)

\* Tokens are whole, and those the rules write are tokens.
ASSUME TextAssumption ==
  /\ Text \subseteq Seq(Byte) /\ \A text \in Text : Parses(text)
  /\ Continuation = {}
  /\ Newline \cup Written \cup {"#fffd"} \subseteq Byte

\* What comes before a "(" is called: parentheses that only group are left out.
HasCallees(text) ==
  \A c \in Calls(text) : text[c] \notin {"(", ")", ","} \cup Newline \cup Comment

ASSUME CallAssumption == \A text \in Text : HasCallees(text)

-----------------------------------------------------------------------------
FileInit ==
  /\ original \in Text
  /\ raw = original
  /\ runs = 0
  /\ settled = {}
  /\ skipped = 0

\* One run.  Nothing is written with --dry-run, or where the file cannot be
\* opened for writing.  What the parser makes of a call that is not Python is
\* left out: such a file is not rerun.
RunFix(rules, writes) ==
  LET parsed == Normalised(Decoded(raw))
      outcome == Apply(parsed, Fixes(parsed, rules))
      changed == outcome.out # parsed
  IN  /\ runs < MaxRuns
      /\ Parses(parsed) /\ Len(parsed) <= MaxUsize
      /\ runs' = runs + 1
      /\ skipped' = outcome.skipped
      /\ raw' = IF changed /\ writes
                THEN RestoreLineEndings(Decoded(raw), outcome.out) ELSE raw
      /\ settled' = IF writes THEN settled \cup rules ELSE settled
      /\ UNCHANGED original

FileNext == \E rules \in RuleSets, writes \in BOOLEAN : RunFix(rules, writes)

FileSpec == FileInit /\ [][FileNext]_fileVars

-----------------------------------------------------------------------------
(* Correctness.                                                            *)

\* No comment hides how the argument list ends.
EndIsInSight(text, c) ==
  LET items == Items(text, c)
      written == ArgumentsBut(text, c, {")"} \cup Newline)
  IN  written # <<>> /\ Last(written) \in Comment =>
        items # <<>> /\ Last(items) # "," /\ Last(written) # "#,"

\* A call that could be given two keywords ends in an argument, so that a comma
\* comes with each, or has one of the two.
RoomForOne(text, c) ==
  LET items == Items(text, c)
  IN  text[c] = "open_mfdataset" /\ (items = <<>> \/ Last(items) = ",") =>
        \E k \in DOMAIN items : Keyword(items[k]) \in {"chunks", "parallel"} \/ items[k] = "**kw"

PlainCalls(text) == \A c \in Calls(text) : EndIsInSight(text, c) /\ RoomForOne(text, c)

\* "The result is asserted to parse": whatever rules are enabled in whatever
\* runs, a file whose calls are all of the two kinds above stays valid Python.
PlainCallsStayPython == PlainCalls(original) => Parses(raw)

\* The promise as it is made: every file stays valid Python.
FixedFileParses == Parses(raw)

\* "Fixes are idempotent", and stay so when other rules run later: no rule whose
\* edits were written finds anything more to edit.
SettledRulesAreIdle ==
  Parses(raw) => Fixes(Normalised(Decoded(raw)), settled) = <<>>

\* No two edits of the shipped rules ever overlap, nested calls included, so
\* that one run is enough.
NothingIsSkipped == skipped = 0

\* Tokens that differ by a fixable rule's replacement alone.
Modulo(token) ==
  CASE token \in DOMAIN NewName -> NewName[token]
    [] token = "dask=allowed" -> "dask=parallelized"
    [] OTHER -> token

\* How many tokens of before are found when one more token has been read.
FoundNext(before, found, token) ==
  IF found < Len(before) /\ Modulo(token) = Modulo(before[found + 1]) THEN found + 1 ELSE found

\* before is what is left of after when some of its tokens are taken out.
OnlyInsertedInto(before, after) ==
  FoldLeft(LAMBDA found, token : FoundNext(before, found, token), 0, after) = Len(before)

Uniform(text) == ~(Contains(text, "LF") /\ Contains(text, "CRLF"))

\* Every token of a UTF-8 file with one kind of line ending is still there, in
\* its place, however many runs it has been through.
PlainFileIsKept ==
  (Uniform(original) /\ ~Contains(original, "#latin1")) => OnlyInsertedInto(original, raw)
=============================================================================
