---- MODULE JsonText ----
(***************************************************************************)
(* The JSON of the append log: json_write.rs prints a record, json_read.rs *)
(* parses it back.  A text is a sequence of characters, each a string; a   *)
(* value is [kind, val], a number's val is its printed characters, an      *)
(* object's val a sequence of <<key, value>> in key order.                 *)
(***************************************************************************)
EXTENDS Integers, Sequences, SequencesExt

DigitChars == {"0", "1", "2"}
Spaces == {" ", "TAB", "NL", "CR"}
(* Control characters that have no short form in the writer.               *)
Controls == {"NUL", "BS"}
HexOf(c) == IF c = "NUL" THEN <<"0", "0", "0", "0">> ELSE <<"0", "0", "0", "8">>
CharOf(hex) == CHOOSE c \in Controls : HexOf(c) = hex

Quote == "\""
Backslash == "\\"
Letter(c) == CASE c = "NL" -> "n" [] c = "CR" -> "r" [] c = "TAB" -> "t" [] OTHER -> c
Unletter(c) == CASE c = "n" -> "NL" [] c = "r" -> "CR" [] c = "t" -> "TAB" [] c = "b" -> "BS"
                 [] OTHER -> c

-----------------------------------------------------------------------------
(* The writer.                                                             *)
EscapedChar(c) ==
    IF c \in {Quote, Backslash, "NL", "CR", "TAB"} THEN <<Backslash, Letter(c)>>
    ELSE IF c \in Controls THEN <<Backslash, "u">> \o HexOf(c)
    ELSE <<c>>
WriteString(s) == <<Quote>> \o FlattenSeq([i \in DOMAIN s |-> EscapedChar(s[i])]) \o <<Quote>>

Joined(parts) ==
    FlattenSeq([i \in DOMAIN parts |-> IF i = 1 THEN parts[i] ELSE <<",">> \o parts[i]])

RECURSIVE WriteValue(_)
WriteValue(v) ==
    CASE v.kind = "null" -> <<"n", "u", "l", "l">>
      [] v.kind = "bool" -> IF v.val THEN <<"t", "r", "u", "e">> ELSE <<"f", "a", "l", "s", "e">>
      [] v.kind = "number" -> v.val
      [] v.kind = "string" -> WriteString(v.val)
      [] v.kind = "array" ->
           <<"[">> \o Joined([i \in DOMAIN v.val |-> WriteValue(v.val[i])]) \o <<"]">>
      [] v.kind = "object" ->
           <<"{">> \o Joined([i \in DOMAIN v.val |->
                        WriteString(v.val[i][1]) \o <<":">> \o WriteValue(v.val[i][2])]) \o <<"}">>

-----------------------------------------------------------------------------
(* The parser.  Each parse_ function takes the text and a position and     *)
(* returns what it read and the position behind it, or Failed.             *)
Failed == [ok |-> FALSE]
Read(v, pos) == [ok |-> TRUE, val |-> v, pos |-> pos]

At(text, pos) == IF pos <= Len(text) THEN text[pos] ELSE "EOF"
Expects(text, pos, chars) ==
    pos + Len(chars) - 1 <= Len(text) /\ SubSeq(text, pos, pos + Len(chars) - 1) = chars

SkipWhitespace(text, pos) ==
    CHOOSE p \in pos..(Len(text) + 1) : /\ \A q \in pos..(p - 1) : text[q] \in Spaces
                                        /\ At(text, p) \notin Spaces

(* One character of a string literal, an escape or a literal one.          *)
ReadChar(text, pos) ==
    LET c == At(text, pos + 1)
    IN  IF At(text, pos) # Backslash THEN Read(At(text, pos), pos + 1)
        ELSE IF c \in {Quote, Backslash, "/", "n", "r", "t", "b"} THEN Read(Unletter(c), pos + 2)
        ELSE IF c # "u" \/ pos + 5 > Len(text) \/ ~(\A i \in 2..5 : text[pos + i] \in DigitChars \cup {"8"})
        THEN Failed ELSE Read(CharOf(SubSeq(text, pos + 2, pos + 5)), pos + 6)

RECURSIVE ReadChars(_, _, _)
ReadChars(text, pos, read) ==
    LET next == ReadChar(text, pos)
    IN  IF At(text, pos) = "EOF" THEN Failed
        ELSE IF At(text, pos) = Quote THEN Read(read, pos + 1)
        ELSE IF ~next.ok THEN Failed
        ELSE ReadChars(text, next.pos, Append(read, next.val))
ReadString(text, pos) ==
    IF At(text, pos) # Quote THEN Failed ELSE ReadChars(text, pos + 1, << >>)

(* consume_digits: at least one.                                           *)
Digits(text, pos) ==
    CHOOSE p \in pos..(Len(text) + 1) : /\ \A q \in pos..(p - 1) : text[q] \in DigitChars
                                        /\ At(text, p) \notin DigitChars
NumberEnd(text, start) ==
    LET whole == IF At(text, start) = "-" THEN start + 1 ELSE start
        frac  == IF At(text, whole) = "0" THEN whole + 1 ELSE Digits(text, whole)
        end   == IF At(text, frac) = "." THEN Digits(text, frac + 1) ELSE frac
    IN  IF frac = whole \/ (At(text, frac) = "." /\ end = frac + 1) THEN 0 ELSE end
ReadNumber(text, start) ==
    LET end == NumberEnd(text, start)
    IN  IF end = 0 THEN Failed
        ELSE Read([kind |-> "number", val |-> SubSeq(text, start, end - 1)], end)

Literals == {<<<<"n", "u", "l", "l">>, [kind |-> "null"]>>,
             <<<<"t", "r", "u", "e">>, [kind |-> "bool", val |-> TRUE]>>,
             <<<<"f", "a", "l", "s", "e">>, [kind |-> "bool", val |-> FALSE]>>}
ReadLiteral(text, pos) ==
    LET found == {l \in Literals : Expects(text, pos, l[1])}
    IN  IF found = {} THEN Failed
        ELSE LET l == CHOOSE l \in found : TRUE IN Read(l[2], pos + Len(l[1]))

RECURSIVE ReadValue(_, _), ReadItems(_, _, _, _)
Pair(text, pos) ==
    LET key   == ReadString(text, SkipWhitespace(text, pos))
        colon == SkipWhitespace(text, key.pos)
        value == ReadValue(text, colon + 1)
    IN  IF ~key.ok THEN Failed
        ELSE IF At(text, colon) # ":" THEN Failed
        ELSE IF ~value.ok THEN Failed ELSE Read(<<key.val, value.val>>, value.pos)

(* The loop of parse_array and parse_object over items and commas.         *)
ReadItems(text, pos, close, read) ==
    LET item  == IF close = "]" THEN ReadValue(text, pos) ELSE Pair(text, pos)
        after == SkipWhitespace(text, item.pos)
    IN  IF ~item.ok THEN Failed
        ELSE IF At(text, after) = close THEN Read(Append(read, item.val), after + 1)
        ELSE IF At(text, after) # "," THEN Failed
        ELSE ReadItems(text, after + 1, close, Append(read, item.val))
ReadContainer(text, pos, close, kind) ==
    LET first == SkipWhitespace(text, pos + 1)
        items == ReadItems(text, first, close, << >>)
    IN  IF At(text, first) = close THEN Read([kind |-> kind, val |-> << >>], first + 1)
        ELSE IF ~items.ok THEN Failed ELSE Read([kind |-> kind, val |-> items.val], items.pos)

ReadValue(text, at) ==
    LET pos == SkipWhitespace(text, at)
        c   == At(text, pos)
        s   == ReadString(text, pos)
    IN  CASE c = Quote -> IF s.ok THEN Read([kind |-> "string", val |-> s.val], s.pos) ELSE Failed
          [] c = "{" -> ReadContainer(text, pos, "}", "object")
          [] c = "[" -> ReadContainer(text, pos, "]", "array")
          [] c \in {"t", "f", "n"} -> ReadLiteral(text, pos)
          [] c \in DigitChars \cup {"-"} -> ReadNumber(text, pos)
          [] OTHER -> Failed

(* JsonValue::parse: one value and nothing behind it but white space.      *)
Parse(text) ==
    LET v == ReadValue(text, 1)
    IN  IF ~v.ok THEN Failed
        ELSE IF SkipWhitespace(text, v.pos) <= Len(text) THEN Failed
        ELSE [ok |-> TRUE, val |-> v.val]
====
