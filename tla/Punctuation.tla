---------------------------- MODULE Punctuation ----------------------------
(***************************************************************************)
(* The symbols of the Chinese input state (punctuation.h), and what a      *)
(* context remembers for them (wetype.cpp 413-420).  A symbol is one of    *)
(* four kinds, told apart by what its conversion depends on.               *)
(***************************************************************************)
EXTENDS Naturals, Sequences

CONSTANT Quote   \* the two keys whose symbols pair up, " and '

ASSUME PunctuationAssumption ==
  Quote \cap {"comma", "backslash", "symbol", "minus", "plus"} = {}

\* "comma" is ',' or '.'; "backslash" has no ASCII form; "symbol" is any other.
Symbol == Quote \cup {"comma", "backslash", "symbol", "minus", "plus"}

\* What a symbol becomes: its ASCII or Chinese form, a side of a pair, nothing.
Converted(key, fullwidth, open) ==
  IF ~fullwidth THEN IF key = "backslash" THEN "" ELSE "ascii"
  ELSE IF key \notin Quote THEN "chinese"
  ELSE IF open THEN "opening" ELSE "closing"

DigitException(key) == key = "comma"

DigitKey == {"digit", "numpad"}
\* endsWithDigit, of a text given by the kinds of its characters: spaces at its
\* end are passed over.
EndsWithDigit(text) ==
  \E i \in DOMAIN text :
    /\ text[i] \in DigitKey
    /\ \A j \in DOMAIN text : j > i => text[j] = "space"

\* PunctuationState.
NewPunctuation == [afterDigit |-> FALSE, open |-> [q \in Quote |-> TRUE]]

\* fullwidthPunctuation: of a symbol typed after `text', or at the cursor.
Fullwidth(state, structured, key, text) ==
  /\ ~structured
  /\ DigitException(key) =>
       IF text = <<>> THEN ~state.afterDigit ELSE ~EndsWithDigit(text)

\* punctFor: what is produced, and the sides that come next.
SidesMoved(state, key, fullwidth) ==   \* mutant: an ASCII quote moves them too
  IF key \in Quote THEN [state.open EXCEPT ![key] = ~@] ELSE state.open
Sides(state, key, fullwidth) ==
  IF key \in Quote /\ fullwidth THEN [state.open EXCEPT ![key] = ~@] ELSE state.open
PunctFor(state, key, fullwidth) ==
  Converted(key, fullwidth, key \in Quote => state.open[key])
============================================================================
