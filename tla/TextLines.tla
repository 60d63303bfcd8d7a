------------------------------ MODULE TextLines ------------------------------
(***************************************************************************)
(* Text as the two line formats see it: a sequence of symbols, each of     *)
(* them one character that matters to a format (blank, quote, backslash,   *)
(* hash, equals, bar, newline) or a whole word or number that none of them *)
(* takes apart.                                                            *)
(***************************************************************************)
EXTENDS SceneModel

CONSTANTS
  Numbers  \* the numbers that occur in texts

ASSUME NumberAssumption == Numbers \subseteq Nat

Seqs == INSTANCE SequencesExt

Newline == "newline"
Tab == "tab"
Blanks == {" ", Tab, Newline}

Digits == {ToString(n) : n \in Numbers}
NumberText(n) == <<ToString(n)>>
IsNumber(text) == Len(text) = 1 /\ text[1] \in Digits
NumberOf(text) == CHOOSE n \in Numbers : ToString(n) = text[1]

(* The place of a symbol in a text, 0 if it is not there.                  *)
Find(text, symbol) == Seqs!SelectInSeq(text, LAMBDA s : s = symbol)
Before(text, symbol) == IF Find(text, symbol) = 0 THEN text ELSE SubSeq(text, 1, Find(text, symbol) - 1)
After(text, symbol) == SubSeq(text, Find(text, symbol) + 1, Len(text))

Trim(text) ==
  LET dark == {i \in DOMAIN text : text[i] \notin Blanks}
  IN IF dark = {} THEN << >>
     ELSE SubSeq(text, CHOOSE i \in dark : \A j \in dark : i <= j,
                       CHOOSE i \in dark : \A j \in dark : i >= j)

(* std::getline with a delimiter: what follows the last one counts only if *)
(* there is something.                                                     *)
Pieces(text, delimiter) ==
  LET Ends(i) == text[i] = delimiter
      whole == text = << >> \/ text[Len(text)] = delimiter
      cuts == <<0>> \o SelectSeq([i \in DOMAIN text |-> i], Ends)
                \o (IF whole THEN << >> ELSE <<Len(text) + 1>>)
  IN [n \in 1..Len(cuts) - 1 |-> SubSeq(text, cuts[n] + 1, cuts[n + 1] - 1)]

(* Both formats cut a line at its first hash before anything else, and     *)
(* then trim it.                                                           *)
Content(line) == Trim(Before(line, "#"))

(* Every symbol of a text replaced by some symbols.                        *)
Substituted(text, Sub(_)) == Seqs!FlattenSeq(Mapped(text, Sub))
=============================================================================
