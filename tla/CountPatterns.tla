--------------------------- MODULE CountPatterns ---------------------------
(***************************************************************************)
(* count_patterns/count_patterns.cpp: in how many ways the syllables Yu,   *)
(* Ka, Ta and Yu can be found in this order in a text, as templates that   *)
(* take the text apart. Each template looks for one syllable of the word.  *)
(***************************************************************************)
EXTENDS Integers, Sequences, FiniteSets

CONSTANTS
  MaxLength,  \* texts have up to this many syllables
  Unknown     \* the templates are not instantiated yet

VARIABLES
  text,
  count  \* YuCounter::count

vars == <<text, count>>

Word == <<"Yu", "Ka", "Ta", "Yu">>

Init ==
  /\ text \in UNION {[1 .. length -> {"Yu", "Ka", "Ta"}] : length \in 0 .. MaxLength}
  /\ count = Unknown

\* Mutated Counts: a syllable that is found is not looked for again.
CountsFirst ==
  LET Found[p \in DOMAIN Word, k \in 1 .. Len(text) + 1] ==
        IF k > Len(text) THEN 0
        ELSE IF text[k] # Word[p] THEN Found[p, k + 1]
        ELSE IF p = Len(Word) THEN Found[p, k + 1] + 1
        ELSE Found[p + 1, k + 1]
  IN Found[1, 1]

\* Found[p, k] is the count of the template for syllable p, from syllable k of the text on:
\* none in Nil, that of the rest, and if it is found that of what follows it in the word.
Counts ==
  LET Found[p \in DOMAIN Word, k \in 1 .. Len(text) + 1] ==
        IF k > Len(text) THEN 0
        ELSE IF text[k] # Word[p] THEN Found[p, k + 1]
        ELSE IF p = Len(Word) THEN Found[p, k + 1] + 1
        ELSE Found[p, k + 1] + Found[p + 1, k + 1]
  IN Found[1, 1]

Instantiate ==
  /\ count = Unknown
  /\ count' = Counts
  /\ text' = text

Step == Instantiate
Ended == count # Unknown

-----------------------------------------------------------------------------
\* The count is the number of places where the word can be found, each syllable after the
\* one before.
CountsPlaces ==
  Ended =>
    count = Cardinality({places \in [DOMAIN Word -> DOMAIN text] :
      /\ \A p \in DOMAIN Word : text[places[p]] = Word[p]
      /\ \A p \in 1 .. Len(Word) - 1 : places[p] < places[p + 1]})
=============================================================================
