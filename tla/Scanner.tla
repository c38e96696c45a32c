------------------------------ MODULE Scanner -------------------------------
(***************************************************************************)
(* The scanner of src/scanner.cpp: each call of scanToken() takes one more *)
(* token off the source.                                                   *)
(*                                                                         *)
(* The source is a sequence of characters, one-character strings here;     *)
(* positions in it are counted from 0, as in the code.  It is backed by a  *)
(* std::string, so the character past its end can be read: a NUL.          *)
(***************************************************************************)
EXTENDS SequencesExt, Integers

CONSTANTS
  Alphabets,  \* bound of this model: a source keeps to the characters of one
  MaxLength   \* bound of this model: characters in a source

VARIABLES
  source,
  start,    \* where the last token begins
  current,  \* the next character to read
  line,
  token     \* what scanToken() has returned last

vars == <<source, start, current, line, token>>

NUL == "NUL"
Chars == UNION Alphabets

(* NUL stands for the end of the source, which no character of it does.    *)
ASSUME AlphabetsAssumption == NUL \notin Chars

Digits == {"0", "1", "2", "3", "4", "5", "6", "7", "8", "9"}
Letters == {"a", "b", "c", "d", "e", "f", "g", "h", "i", "j", "k", "l", "m",
            "n", "o", "p", "q", "r", "s", "t", "u", "v", "w", "x", "y", "z",
            "A", "B", "C", "D", "E", "F", "G", "H", "I", "J", "K", "L", "M",
            "N", "O", "P", "Q", "R", "S", "T", "U", "V", "W", "X", "Y", "Z"}
Whitespace == {" ", "\r", "\t", "\n"}
Quote == "\""

At(i) == IF i < Len(source) THEN source[i + 1] ELSE NUL

(* The first position from i on whose character is not one of cs: where a  *)
(* loop over peek() and advance() stops.                                   *)
Past(i, cs) == Min({j \in i .. Len(source) : At(j) \notin cs})

Newlines(i, j) == Cardinality({k \in i .. j - 1 : At(k) = "\n"})

-----------------------------------------------------------------------------
(* Tokens.  A lexeme is a view of the source, from one position to before  *)
(* another; an ERROR has a message instead.                                *)

Token(type, from, to, atLine) == [type |-> type, from |-> from, to |-> to, line |-> atLine]
ErrorToken(atLine) == Token("ERROR", 0, 0, atLine)

Singles ==
  [c \in {"(", ")", "{", "}", ";", ",", ".", "-", "+", "/", "*", "!", "=", "<", ">"} |->
     CASE c = "(" -> "LEFT_PAREN" [] c = ")" -> "RIGHT_PAREN"
       [] c = "{" -> "LEFT_BRACE" [] c = "}" -> "RIGHT_BRACE"
       [] c = ";" -> "SEMICOLON"  [] c = "," -> "COMMA"
       [] c = "." -> "DOT"        [] c = "-" -> "MINUS"
       [] c = "+" -> "PLUS"       [] c = "/" -> "SLASH"
       [] c = "*" -> "STAR"       [] c = "!" -> "BANG"
       [] c = "=" -> "EQUAL"      [] c = "<" -> "LESS"
       [] c = ">" -> "GREATER"]

(* The types of those that match('=') makes a token of two characters.     *)
WithEqual ==
  [c \in {"!", "=", "<", ">"} |->
     CASE c = "!" -> "BANG_EQUAL" [] c = "=" -> "EQUAL_EQUAL"
       [] c = "<" -> "LESS_EQUAL" [] c = ">" -> "GREATER_EQUAL"]

Keywords ==
  [k \in {"AND", "CLASS", "ELSE", "FALSE", "FOR", "FUN", "IF", "NIL",
          "OR", "PRINT", "RETURN", "SUPER", "THIS", "TRUE", "VAR", "WHILE"} |->
     CASE k = "AND" -> <<"a", "n", "d">>
       [] k = "CLASS" -> <<"c", "l", "a", "s", "s">>
       [] k = "ELSE" -> <<"e", "l", "s", "e">>
       [] k = "FALSE" -> <<"f", "a", "l", "s", "e">>
       [] k = "FOR" -> <<"f", "o", "r">>
       [] k = "FUN" -> <<"f", "u", "n">>
       [] k = "IF" -> <<"i", "f">>
       [] k = "NIL" -> <<"n", "i", "l">>
       [] k = "OR" -> <<"o", "r">>
       [] k = "PRINT" -> <<"p", "r", "i", "n", "t">>
       [] k = "RETURN" -> <<"r", "e", "t", "u", "r", "n">>
       [] k = "SUPER" -> <<"s", "u", "p", "e", "r">>
       [] k = "THIS" -> <<"t", "h", "i", "s">>
       [] k = "TRUE" -> <<"t", "r", "u", "e">>
       [] k = "VAR" -> <<"v", "a", "r">>
       [] k = "WHILE" -> <<"w", "h", "i", "l", "e">>]

(* The keyword that the source goes on with from a position, if any: the   *)
(* length of the word is not looked at.                                    *)
WordType(from) ==
  LET Begun(k) == \A i \in DOMAIN Keywords[k] : At(from + i - 1) = Keywords[k][i]
  IN  IF \E k \in DOMAIN Keywords : Begun(k)
      THEN CHOOSE k \in DOMAIN Keywords : Begun(k)
      ELSE "IDENTIFIER"

-----------------------------------------------------------------------------
Init ==
  /\ source = << >>
  /\ start = 0 /\ current = 0 /\ line = 1
  /\ token = Token("END_OF_FILE", 0, 0, 1)

(* A mutant of init that goes on counting lines.                           *)
InitOfLine(src) ==
  /\ source' = src
  /\ start' = 0 /\ current' = 0
  /\ token' = Token("NONE", 0, 0, 1)
  /\ UNCHANGED line

init(src) ==
  /\ source' = src
  /\ start' = 0 /\ current' = 0 /\ line' = 1
  /\ token' = Token("NONE", 0, 0, 1)

(* Whitespace and comments; a comment ends before the end of its line.     *)
SkipWhitespace[i \in 0 .. Len(source)] ==
  LET j == Past(i, Whitespace)
  IN  IF At(j) = "/" /\ At(j + 1) = "/" THEN SkipWhitespace[Past(j, Chars \ {"\n"})] ELSE j

Start == SkipWhitespace[current]
First == At(Start)

(* The scanner has advanced to a position, and returns a token.            *)
LineAt(to) == line + Newlines(current, to)
Taken(type, to) == current' = to /\ line' = LineAt(to) /\ token' = Token(type, Start, to, LineAt(to))
Failed(to) == current' = to /\ line' = LineAt(to) /\ token' = ErrorToken(LineAt(to))

EndOfFile == Start = Len(source) /\ Taken("END_OF_FILE", Start)

(* A mutant of Symbol that takes the "=" without looking for it first.     *)
SymbolMatched ==
  /\ First \in DOMAIN Singles
  /\ IF First \in DOMAIN WithEqual
     THEN Taken(WithEqual[First], Min({Len(source), Start + 2}))
     ELSE Taken(Singles[First], Start + 1)

Symbol ==
  /\ First \in DOMAIN Singles
  /\ IF First \in DOMAIN WithEqual /\ At(Start + 1) = "="
     THEN Taken(WithEqual[First], Start + 2)
     ELSE Taken(Singles[First], Start + 1)

handleString ==
  LET close == Past(Start + 1, Chars \ {Quote})
  IN  /\ First = Quote
      /\ IF close = Len(source) THEN Failed(close) ELSE Taken("STRING", close + 1)

(* A mutant of NumberEnd that takes one digit after the point.             *)
NumberEndOneDecimal(i) ==
  LET j == Past(i, Digits)
  IN  IF j > i /\ At(j) = "." /\ At(j + 1) \in Digits THEN j + 2 ELSE j

(* The number goes on at i, after its first digit.  A point is looked for  *)
(* only after a further digit.                                             *)
NumberEnd(i) ==
  LET j == Past(i, Digits)
  IN  IF j > i /\ At(j) = "." /\ At(j + 1) \in Digits THEN Past(j + 1, Digits) ELSE j

handleNumber == First \in Digits /\ Taken("NUMBER", NumberEnd(Start + 1))

handleIdentifier ==
  First \in Letters /\ Taken(WordType(Start), Past(Start + 1, Letters \cup Digits))

(* A mutant of Unknown that leaves the character where it is.              *)
UnknownKept ==
  /\ Start < Len(source)
  /\ First \notin DOMAIN Singles \cup {Quote} \cup Digits \cup Letters
  /\ Failed(Start)

(* A character that starts no token, an underscore for one, is skipped.    *)
Unknown ==
  /\ Start < Len(source)
  /\ First \notin DOMAIN Singles \cup {Quote} \cup Digits \cup Letters
  /\ Failed(Start + 1)

scanToken ==
  /\ \/ EndOfFile \/ Symbol \/ handleString \/ handleNumber \/ handleIdentifier
     \/ Unknown
  /\ start' = Start
  /\ UNCHANGED source

(* The compiler takes tokens until it has the END_OF_FILE; then another    *)
(* line is typed, the last one with a character more.                      *)
Next ==
  \/ scanToken
  \/ /\ token.type = "END_OF_FILE"
     /\ Len(source) < MaxLength
     /\ \E A \in Alphabets : \E c \in A : Range(source) \subseteq A /\ init(Append(source, c))

(* advance() calls scanToken() for as long as there are tokens.            *)
Spec == Init /\ [][Next]_vars /\ WF_vars(scanToken)
=============================================================================
