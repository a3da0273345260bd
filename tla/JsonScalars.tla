---------------------------- MODULE JsonScalars ----------------------------
(***************************************************************************)
(* The strings and numbers of json11 (ext/json11/json11.cpp): what         *)
(* Json::dump prints for a string, and how parse_string and parse_number   *)
(* read one.  A text is a sequence of bytes that begins behind the opening *)
(* quote of a string or at the first character of a number.                *)
(***************************************************************************)
EXTENDS Integers, Sequences, SequencesExt, FiniteSetsExt

CONSTANTS ByteStrings, \* byte sequences that are dumped and read back
          Escapes,     \* lexemes of strings, put together at random
          MaxLexemes,  \* the longest such string
          Numbers,     \* texts given to parse_number
          IntMax,      \* numeric_limits<int>: the largest int, and
          IntDigits10  \* digits10, how many decimal digits an int always holds

ASSUME ScalarsAssumption ==
  /\ MaxLexemes \in Nat
  /\ IntMax \in Nat /\ IntDigits10 \in Nat /\ 10 ^ IntDigits10 - 1 <= IntMax

VARIABLES
  from,   \* what the text was made from: bytes, or lexemes
  lit,    \* the text
  kind,   \* a "dumped" string, a "written" string, a "number"
  done,   \* the parser has returned
  i,      \* position of the parser
  failed, \* JsonParser::failed
  decoded, \* parse_string: the bytes so far
  last,   \* parse_string: last_escaped_codepoint
  number  \* parse_number: what it returns

scalarVars == <<from, lit, kind, done, i, failed, decoded, last, number>>

Quote == 34
Backslash == 92
Slash == 47
Digits == 48..57
SmallU == 117
NoEscape == -1

----------------------------------------------------------------------------
(* dump(const string &)                                                    *)

ShortEscape == <<98, 116, 110, 0, 102, 114>>  \* b t n, none, f r
HasShort == {8, 9, 10, 12, 13}
ShortOf(c) == ShortEscape[c - 7]

Hex(v) == IF v < 10 THEN 48 + v ELSE 87 + v

\* A byte of a string and the two behind it: what is printed for it.
dumpChar(a, b, c) ==
  IF a \in {Backslash, Quote} THEN <<Backslash, a>>
  ELSE IF a \in HasShort THEN <<Backslash, ShortOf(a)>>
  ELSE IF a <= 31 THEN <<Backslash, SmallU, 48, 48, Hex(a \div 16), Hex(a % 16)>>
  ELSE IF <<a, b>> = <<226, 128>> /\ c \in {168, 169}
    THEN <<Backslash, SmallU, 50, 48, 50, c - 112>>
  ELSE <<a>>

\* The bytes of the string that dumpChar has used: i += 2 for a separator.
Taken(a, printed) == IF a = 226 /\ Len(printed) > 1 THEN 3 ELSE 1

dumpString(s) ==
  LET at(k) == IF k <= Len(s) THEN s[k] ELSE 0
      rest[k \in 1..(Len(s) + 3)] ==
        LET d == dumpChar(at(k), at(k + 1), at(k + 2))
        IN IF k > Len(s) THEN <<Quote>> ELSE d \o rest[k + Taken(at(k), d)]
  IN rest[1]

----------------------------------------------------------------------------
(* The parser                                                              *)

\* lit[k]; behind the text stands the terminating NUL.
CharAt(k) == IF k < Len(lit) THEN lit[k + 1] ELSE 0

encode_utf8(pt) ==
  LET cont(n) == 128 + (n % 64) IN
  IF pt < 0 THEN <<>>
  ELSE IF pt < 128 THEN <<pt>>
  ELSE IF pt < 2048 THEN <<192 + pt \div 64, cont(pt)>>
  ELSE IF pt < 65536 THEN <<224 + pt \div 4096, cont(pt \div 64), cont(pt)>>
  ELSE <<240 + pt \div 262144, cont(pt \div 4096), cont(pt \div 64), cont(pt)>>

HexValue(c) == CASE c \in Digits -> c - 48
                 [] c \in 97..102 -> c - 87
                 [] c \in 65..70 -> c - 55
                 [] OTHER -> NoEscape

High(pt) == pt \in 55296..56319
Low(pt) == pt \in 56320..57343
InString == kind # "number" /\ ~done /\ UNCHANGED <<from, lit, kind, number>>
Reading == InString /\ i < Len(lit)
Escape == Reading /\ CharAt(i) = Backslash /\ i + 1 < Len(lit)

\* The loop goes on behind n characters.
Advance(n) == i' = i + n /\ UNCHANGED <<done, failed>>

\* The closing quote.
StringEnds ==
  /\ Reading /\ CharAt(i) = Quote
  /\ decoded' = decoded \o encode_utf8(last)
  /\ i' = i + 1
  /\ done' = TRUE
  /\ UNCHANGED <<failed, last>>

StringPlain ==
  /\ Reading /\ CharAt(i) > 31 /\ CharAt(i) \notin {Quote, Backslash}
  /\ decoded' = decoded \o encode_utf8(last) \o <<CharAt(i)>>
  /\ last' = NoEscape
  /\ Advance(1)

\* Mutant of CodePoint: the first half of a pair is not forgotten.
CodePointKept(pt) ==
  IF High(last) /\ Low(pt)
    THEN /\ decoded' = decoded \o encode_utf8((last - 55296) * 1024 + (pt - 56320) + 65536)
         /\ UNCHANGED last
    ELSE decoded' = decoded \o encode_utf8(last) /\ last' = pt

\* An escaped code point waits for the next one: the two may be the halves of
\* a code point above the first plane.
CodePoint(pt) ==
  IF High(last) /\ Low(pt)
    THEN /\ decoded' = decoded \o encode_utf8((last - 55296) * 1024 + (pt - 56320) + 65536)
         /\ last' = NoEscape
    ELSE decoded' = decoded \o encode_utf8(last) /\ last' = pt

StringUnicode ==
  LET h(j) == HexValue(CharAt(i + 1 + j)) IN
  /\ Escape /\ CharAt(i + 1) = SmallU
  /\ i + 6 <= Len(lit) /\ \A j \in 1..4 : h(j) # NoEscape
  /\ CodePoint(h(1) * 4096 + h(2) * 256 + h(3) * 16 + h(4))
  /\ Advance(6)

StringEscape ==
  /\ Escape
  /\ \E c \in {Quote, Backslash, Slash} \cup HasShort :
       /\ CharAt(i + 1) = IF c \in HasShort THEN ShortOf(c) ELSE c
       /\ decoded' = decoded \o encode_utf8(last) \o <<c>>
  /\ last' = NoEscape
  /\ Advance(2)

\* The end of the input, a control character, a \u without four hexadecimal
\* digits, an escape that is none: an empty string is returned.
StringFails ==
  /\ InString
  /\ \/ i = Len(lit) /\ i' = i
     \/ Reading /\ CharAt(i) \in 0..31 /\ i' = i + 1
     \/ Reading /\ CharAt(i) = Backslash /\ i + 1 = Len(lit) /\ i' = i + 1
     \/ /\ Escape /\ CharAt(i + 1) = SmallU
        /\ i + 6 > Len(lit) \/ \E j \in 1..4 : HexValue(CharAt(i + 1 + j)) = NoEscape
        /\ i' = i + 2
     \/ /\ Escape
        /\ CharAt(i + 1) \notin {Quote, Backslash, Slash, SmallU}
                            \cup {ShortOf(c) : c \in HasShort}
        /\ i' = i + 2
  /\ decoded' = <<>>
  /\ failed' = TRUE
  /\ done' = TRUE
  /\ UNCHANGED last

\* The first position from k on that holds no digit.
Skip(k) == CHOOSE j \in k..Len(lit) :
             CharAt(j) \notin Digits /\ \A m \in k..(j - 1) : CharAt(m) \in Digits

\* Where the digits begin, and where those of the integer part end.
Sign  == IF CharAt(0) = 45 THEN 1 ELSE 0
Whole == IF CharAt(Sign) = 48 THEN Sign + 1 ELSE Skip(Sign)

\* parse_number: the position it stops at and whether it has failed.
NumberEnd ==
  LET frac == IF CharAt(Whole) = 46 THEN Skip(Whole + 1) ELSE Whole
      exp == IF CharAt(frac) \notin {69, 101} THEN frac
             ELSE IF CharAt(frac + 1) \in {43, 45} THEN frac + 2 ELSE frac + 1
      stop(k, f) == [i |-> k, failed |-> f]
  IN IF CharAt(Sign) \notin Digits THEN stop(Sign, TRUE)
     ELSE IF CharAt(Sign) = 48 /\ CharAt(Sign + 1) \in Digits THEN stop(Sign + 1, TRUE)
     ELSE IF CharAt(Whole) = 46 /\ frac = Whole + 1 THEN stop(frac, TRUE)
     ELSE IF exp # frac /\ CharAt(exp) \notin Digits THEN stop(exp, TRUE)
     ELSE stop(Skip(exp), FALSE)

\* A JsonInt, or a JsonDouble: m * 10 ^ e, without the rounding to 53 bits.
Number(int, m, e) == [int |-> int, m |-> m, e |-> e]

\* What the digits from k on to j stand for, read from left to right.
ReadDigits(k, j) ==
  LET v[n \in 0..(j - k)] == IF n = 0 THEN 0 ELSE 10 * v[n - 1] + (CharAt(k + n - 1) - 48)
  IN v[j - k]
Signed(n) == IF CharAt(0) = 45 THEN -n ELSE n

\* The C library reads the text again, as far as it is one of its numbers;
\* atoi cuts what it has read to the width of an int.
atoi ==
  LET range == 2 * (IntMax + 1)
      n == Signed(ReadDigits(Sign, Skip(Sign)))
  IN Number(TRUE, ((n + IntMax + 1) % range) - (IntMax + 1), 0)

strtod ==
  LET w == Skip(Sign)
      f == IF CharAt(w) = 46 THEN Skip(w + 1) ELSE w
      places == IF f = w THEN 0 ELSE f - (w + 1)
      x == IF CharAt(f + 1) \in {43, 45} THEN f + 2 ELSE f + 1
      exp == IF CharAt(f) \notin {69, 101} \/ CharAt(x) \notin Digits THEN 0
             ELSE IF CharAt(f + 1) = 45 THEN -ReadDigits(x, Skip(x)) ELSE ReadDigits(x, Skip(x))
      n == ReadDigits(Sign, w) * 10 ^ places + (IF f = w THEN 0 ELSE ReadDigits(w + 1, f))
  IN Number(FALSE, Signed(n), exp - places)

\* Json(): fail() returns null.
NoNumber == Number(FALSE, 0, 0)

parse_number ==
  /\ kind = "number" /\ ~done
  /\ i' = NumberEnd.i
  /\ failed' = NumberEnd.failed
  /\ number' = IF NumberEnd.failed THEN NoNumber
               ELSE IF CharAt(Whole) \notin {46, 69, 101} /\ Whole <= IntDigits10 THEN atoi
               ELSE strtod
  /\ done' = TRUE
  /\ UNCHANGED <<from, lit, kind, decoded, last>>

----------------------------------------------------------------------------
\* The lexemes of strings: a letter, \u escapes of the two halves of a pair
\* and of a letter with an accent, a short escape, an escape that is none, a
\* control character, a \u without its digits.
Spell(l) == CASE l = "a" -> <<97>>
              [] l = "hi" -> <<92, 117, 68, 56, 51, 68>>
              [] l = "lo" -> <<92, 117, 100, 101, 48, 48>>
              [] l = "e9" -> <<92, 117, 48, 48, 101, 57>>
              [] l = "n" -> <<92, 110>>
              [] l = "none" -> <<92, 120>>
              [] l = "control" -> <<1>>
              [] l = "cut" -> <<92, 117, 103>>

WrittenText(lexemes) ==
  FlattenSeq([k \in 1..Len(lexemes) |-> Spell(lexemes[k])]) \o <<Quote>>

ScalarsStart(k, source, t) ==
  /\ kind = k /\ from = source /\ lit = t
  /\ done = FALSE
  /\ i = 0
  /\ failed = FALSE
  /\ decoded = <<>>
  /\ last = NoEscape
  /\ number = NoNumber

ScalarsInit ==
  \/ \E s \in ByteStrings : ScalarsStart("dumped", s, dumpString(s))
  \/ \E s \in SeqOf(Escapes, MaxLexemes) : ScalarsStart("written", s, WrittenText(s))
  \/ \E s \in Numbers : ScalarsStart("number", s, s)

ScalarsNext == \/ StringEnds \/ StringPlain \/ StringUnicode \/ StringEscape
               \/ StringFails \/ parse_number

ScalarsSpec == ScalarsInit /\ [][ScalarsNext]_scalarVars

----------------------------------------------------------------------------
(* Properties                                                              *)

\* Every variable has its type: the position stays in the text, and what is
\* decoded are bytes.
ScalarsTypeOK ==
  /\ i \in 0..Len(lit)
  /\ last = NoEscape \/ last \in 0..65535
  /\ \A k \in 1..Len(decoded) : decoded[k] \in 0..255

\* What dumpString prints for a string parse_string reads back as the same bytes:
\* quotes, control characters, the separators U+2028 and U+2029 and bytes
\* that only look like the beginning of one.
StringRoundTrip ==
  done /\ kind = "dumped" => ~failed /\ decoded = from /\ i = Len(lit)

Malformed == {"none", "control", "cut"}

\* A string is refused exactly when one of its lexemes is malformed; else its
\* bytes are its code points in UTF-8, where two escapes make one code point
\* exactly when a high surrogate is followed directly by a low one.
EscapesDecoded ==
  done /\ kind = "written" =>
    LET n == Len(from)
        pair(k) == k \in 1..(n - 1) /\ from[k] = "hi" /\ from[k + 1] = "lo"
        bytes(k) == CASE from[k] = "hi" /\ pair(k) -> <<240, 159, 152, 128>>
                      [] from[k] = "hi" /\ ~pair(k) -> <<237, 160, 189>>
                      [] from[k] = "lo" /\ pair(k - 1) -> <<>>
                      [] from[k] = "lo" /\ ~pair(k - 1) -> <<237, 184, 128>>
                      [] from[k] = "e9" -> <<195, 169>>
                      [] from[k] = "n" -> <<10>>
                      [] from[k] = "a" -> <<97>>
    IN /\ failed <=> \E k \in 1..n : from[k] \in Malformed
       /\ ~failed => decoded = FlattenSeq([k \in 1..n |-> bytes(k)])

DigitText(s) == s # <<>> /\ \A k \in 1..Len(s) : s[k] \in Digits

\* The grammar of a number: a sign up to a, digits without a leading zero up to
\* b, a fraction up to c, an exponent.
NumberParts(s, a, b, c) ==
  LET whole == SubSeq(s, a + 1, b)
      frac == SubSeq(s, b + 1, c)
      exp == SubSeq(s, c + 1, Len(s))
  IN /\ a <= 1 /\ a <= b /\ b <= c
     /\ a = 1 => s[1] = 45
     /\ DigitText(whole) /\ (Len(whole) > 1 => whole[1] # 48)
     /\ frac = <<>> \/ (frac[1] = 46 /\ DigitText(Tail(frac)))
     /\ \/ exp = <<>>
        \/ exp[1] \in {69, 101} /\ DigitText(Tail(exp))
        \/ /\ Len(exp) > 1 /\ exp[1] \in {69, 101} /\ exp[2] \in {43, 45}
           /\ DigitText(Tail(Tail(exp)))

IsNumber(s) == \E a \in 0..Len(s), b \in 0..Len(s), c \in 0..Len(s) : NumberParts(s, a, b, c)

\* parse_number takes every number whole, and where it does not fail it stops
\* behind the longest number the text begins with.
NumberGrammar ==
  done /\ kind = "number" =>
    /\ IsNumber(lit) => ~failed /\ i = Len(lit)
    /\ ~failed => /\ IsNumber(SubSeq(lit, 1, i))
                  /\ \A k \in (i + 1)..Len(lit) : ~IsNumber(SubSeq(lit, 1, k))

\* The places of a decimal number and what they weigh.
Weight(s) == MapThenSumSet(LAMBDA k : (s[k] - 48) * 10 ^ (Len(s) - k), 1..Len(s))

\* What parse_number returns is the value of the text it has taken, whichever
\* function of the C library reads it, and one that is returned as an int is
\* not cut.
NumberValue ==
  done /\ kind = "number" /\ ~failed =>
    \E a \in 0..i, b \in 0..i, c \in 0..i :
      LET s == SubSeq(lit, 1, i)
          digits(k, j) == SelectSeq(SubSeq(s, k, j), LAMBDA x : x \in Digits)
          exp == Weight(digits(c + 1, i))
          m == Weight(digits(1, c))
      IN /\ NumberParts(s, a, b, c)
         /\ number.m = IF a = 1 THEN -m ELSE m
         /\ number.e = (IF 45 \in {s[k] : k \in (c + 1)..i} THEN -exp ELSE exp) - Len(digits(b + 1, c))

\* Strings and numbers are read as what they were written for, within the
\* text (parse_string, parse_number and dump, json11.cpp).
ReadsScalars ==
  ScalarsTypeOK /\ StringRoundTrip /\ EscapesDecoded /\ NumberGrammar /\ NumberValue
============================================================================
