----------------------------- MODULE SyncOutput -----------------------------
(***************************************************************************)
(* Whether the output of a sync reports item errors, "Errors: N" with a    *)
(* positive N.  A sync child's output comes in chunks of any size, so the  *)
(* runner feeds it character by character to a detector with a few fields  *)
(* of state; what it must find is what one regular expression finds in     *)
(* the complete text, /\bErrors:\s*(\d+)\b/gi.                             *)
(***************************************************************************)
EXTENDS Integers, Sequences, Functions

CONSTANT Token     \* the letters of "errors", then ":", in lower case

Spaces == {" "}
Digits == {"0", "1"}      \* a zero, and any other digit
Letters == Range(Token) \ {":"}
Word == Letters \cup Digits \cup {"w"}        \* w: any other letter

Alphabet == Word \cup Spaces \cup {":", "."}

ASSUME TokenIsAWord ==
  /\ Token \in Seq(STRING) /\ Len(Token) > 1 /\ Token[Len(Token)] = ":"
  /\ \A i \in 1 .. Len(Token) - 1 : Token[i] # ":"
  /\ Letters \cap (Digits \cup Spaces) = {}

Start == [stage |-> "search", index |-> 0, afterWord |-> FALSE,
          nonzero |-> FALSE, sticky |-> FALSE]

(* A candidate begins with the first letter, unless a word goes on.        *)
Searching(d, c) ==
  IF ~d.afterWord /\ c = Token[1]
  THEN [d EXCEPT !.stage = "token", !.index = 1, !.nonzero = FALSE]
  ELSE [d EXCEPT !.stage = "search", !.index = 0, !.nonzero = FALSE]

InDigits(d, c) ==
  IF c \in Digits
  THEN [d EXCEPT !.nonzero = @ \/ c # "0"]
  ELSE [Searching(d, c) EXCEPT !.sticky = @ \/ (c \notin Word /\ d.nonzero)]

InSpace(d, c) ==
  CASE c \in Spaces -> d
    [] c \in Digits -> [d EXCEPT !.stage = "digits", !.nonzero = c # "0"]
    [] OTHER -> Searching(d, c)

InToken(d, c) ==
  IF c = Token[d.index + 1]
  THEN [d EXCEPT !.index = @ + 1, !.stage = IF d.index + 1 = Len(Token) THEN "space" ELSE @]
  ELSE Searching(d, c)

Pushed(d, c) ==
  LET next == CASE d.stage = "digits" -> InDigits(d, c)
                [] d.stage = "space" -> InSpace(d, c)
                [] d.stage = "token" -> InToken(d, c)
                [] d.stage = "search" -> Searching(d, c)
  IN [next EXCEPT !.afterWord = c \in Word]

Finished(d) == d.sticky \/ (d.stage = "digits" /\ d.nonzero)

(* The detector after the first i characters.                              *)
Seen(text) ==
  LET seen[i \in 0 .. Len(text)] == IF i = 0 THEN Start ELSE Pushed(seen[i - 1], text[i])
  IN seen

Detected(text) == Finished(Seen(text)[Len(text)])

(* The match of the regular expression in text[from .. to]: a word         *)
(* boundary, the token, spaces, digits, a word boundary; the count is      *)
(* positive when a digit is.                                               *)
Matched(text, from, to) ==
  \E digits \in from + Len(Token) .. to :
    /\ from > 1 => text[from - 1] \notin Word
    /\ \A i \in 1 .. Len(Token) : text[from + i - 1] = Token[i]
    /\ \A i \in from + Len(Token) .. digits - 1 : text[i] \in Spaces
    /\ \A i \in digits .. to : text[i] \in Digits
    /\ \E i \in digits .. to : text[i] # "0"
    /\ to < Len(text) => text[to + 1] \notin Word

Reported(text) ==
  \E from \in 1 .. Len(text) : \E to \in from .. Len(text) : Matched(text, from, to)
=============================================================================
