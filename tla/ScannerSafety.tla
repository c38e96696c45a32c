--------------------------- MODULE ScannerSafety ----------------------------
(***************************************************************************)
(* The lexical grammar, as a predicate on stretches of the source, and     *)
(* what the scanner promises of it.                                        *)
(***************************************************************************)
EXTENDS Scanner

(* The characters from i to before j.                                      *)
Text(i, j) == SubSeq(source, i + 1, j)
All(i, j, cs) == \A k \in i .. j - 1 : At(k) \in cs

IsInteger(i, j) == i < j /\ All(i, j, Digits)
Point(i, j) == {k \in i .. j - 1 : At(k) = "." /\ IsInteger(i, k) /\ IsInteger(k + 1, j)}
IsNumber(i, j) == IsInteger(i, j) \/ Point(i, j) # {}
IsWord(i, j) == i < j /\ At(i) \in Letters /\ All(i, j, Letters \cup Digits)
IsString(i, j) ==
  /\ i + 1 < j
  /\ {k \in i .. j - 1 : At(k) = Quote} = {i, j - 1}

LexemeType(i, j) ==
  CASE IsNumber(i, j) -> "NUMBER"
    [] IsString(i, j) -> "STRING"
    [] IsWord(i, j) -> IF \E k \in DOMAIN Keywords : Keywords[k] = Text(i, j)
                       THEN CHOOSE k \in DOMAIN Keywords : Keywords[k] = Text(i, j)
                       ELSE "IDENTIFIER"
    [] j = i + 1 /\ At(i) \in DOMAIN Singles -> Singles[At(i)]
    [] j = i + 2 /\ At(i) \in DOMAIN WithEqual /\ At(i + 1) = "=" -> WithEqual[At(i)]
    [] OTHER -> "NONE"

(* The ends of the lexemes that begin at i.                                *)
Ends(i) == {j \in i + 1 .. Len(source) : LexemeType(i, j) # "NONE"}

(* The two kinds of lexemes that the scanner does not take as they are: a  *)
(* word that is longer than a keyword it begins with (checkKeyword looks   *)
(* at no more characters than the keyword has), and a number with a single *)
(* digit before its point.                                                 *)
Misread(i, j) ==
  \/ IsWord(i, j) /\ \E k \in DOMAIN Keywords : IsStrictPrefix(Keywords[k], Text(i, j))
  \/ i + 1 \in Point(i, j)

(* Every token is the longest lexeme of the lexical grammar where it       *)
(* begins, with the type the grammar gives it, and is an error only where  *)
(* no lexeme begins: an unknown character, or a string that is not closed. *)
(* The lexemes of Misread are the only ones scanToken() gets wrong, and    *)
(* then too it takes a lexeme: the whole word, or the digit.               *)
LongestMatch ==
  CASE token.type = "NONE" -> TRUE
    [] token.type = "END_OF_FILE" -> current = Len(source)
    [] token.type = "ERROR" ->
         Ends(start) = {} /\ current = (IF At(start) = Quote THEN Len(source) ELSE start + 1)
    [] OTHER ->
         LET end == Max(Ends(start))
         IN  /\ Ends(start) # {}
             /\ token.from = start /\ token.to = current /\ current \in Ends(start)
             /\ \/ Misread(start, end)
                \/ current = end /\ token.type = LexemeType(start, end)

(* Whitespace and comments.                                                *)
Blank(i, j) ==
  \A k \in i .. j - 1 :
    \/ At(k) \in Whitespace
    \/ \E m \in i .. k : At(m) = "/" /\ At(m + 1) = "/" /\ Newlines(m, k) = 0

(* No character is lost between two tokens but whitespace and comments,    *)
(* none of these is left to begin a token, and a token's line is the one   *)
(* it ends on, in the first source as in later ones: skipWhitespace() and  *)
(* handleString() both pass newlines.                                      *)
TokensTile ==
  [][scanToken =>
       /\ current <= start' /\ start' <= current'
       /\ Blank(current, start')
       /\ \A j \in start' + 1 .. Len(source) : ~Blank(start', j)
       /\ token'.line = 1 + Newlines(0, current')]_vars

(* What std::stod reads from a position: as much as makes a number in C,   *)
(* past the end of the token if need be.                                   *)
IsMantissa(i, j) ==
  IsInteger(i, j) \/ (\E k \in i + 1 .. j - 1 : At(k) = "." /\ All(i, k, Digits) /\ All(k + 1, j, Digits))
StodEnds(i) ==
  {j \in i + 1 .. Len(source) :
     \/ IsMantissa(i, j)
     \/ \E k \in i + 1 .. j - 1 : /\ At(k) \in {"e", "E"} /\ IsMantissa(i, k)
                                  /\ \/ IsInteger(k + 1, j)
                                     \/ At(k + 1) \in {"+", "-"} /\ IsInteger(k + 2, j)
     \/ /\ i + 2 < j /\ At(i) = "0" /\ At(i + 1) \in {"x", "X"}
        /\ All(i + 2, j, Digits \cup {"a", "b", "c", "d", "e", "f"})}

(* Compiler::number() gives std::stod the source from the token on, not    *)
(* the token.  It reads the token's number all the same, or the token that *)
(* follows is one that no expression goes on with after a number.          *)
NumbersReadWhole ==
  [][scanToken /\ token.type = "NUMBER" =>
       \/ Max(StodEnds(token.from)) = token.to
       \/ start' = current /\ token'.type \in {"DOT", "IDENTIFIER"}]_vars

(* However the source is written, its end is reached.                      *)
ScanEnds == token.type # "END_OF_FILE" ~> token.type = "END_OF_FILE"
=============================================================================
