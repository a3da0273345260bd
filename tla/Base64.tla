------------------------------- MODULE Base64 -------------------------------
(***************************************************************************)
(* The base64 code of libb64 as ppconsul uses it (ext/b64/cencode.c,       *)
(* ext/b64/cdecode.c, helpers::decodeBase64).  Encoder and decoder are     *)
(* state machines that are fed a block at a time and keep their step, the  *)
(* unfinished bits and the column between blocks.  Consul encodes the      *)
(* value of a key, the client decodes it in one block into a buffer it has *)
(* sized from the length of the code.                                      *)
(*                                                                         *)
(* A byte is a number below 2^8, a character of the code a number below 64 *)
(* or Pad, NewLine or Foreign, a character outside the alphabet.           *)
(***************************************************************************)
EXTENDS Naturals, Sequences

CONSTANTS Bytes,        \* byte values the texts are made of
          MaxBytes,     \* length of the longest text
          CharsPerLine, \* CHARS_PER_LINE
          MaxForeign    \* characters outside the alphabet put into a code, or left out

ASSUME Base64Assumption ==
  Bytes \subseteq 0..255 /\ MaxBytes \in Nat /\ CharsPerLine \in Nat /\ CharsPerLine >= 4

VARIABLES
  text,     \* the text to encode
  pos,      \* bytes encoded so far
  enc,      \* base64_encodestate: step, result, stepcount
  code,     \* the code so far
  foreign,  \* such changes made so far
  phase,    \* "encode", "send", "decode", "done"
  rd,       \* characters decoded so far
  dec,      \* base64_decodestate: step, plainchar
  out,      \* the decoded bytes
  size      \* size of the buffer of decodeBase64

b64Vars == <<text, pos, enc, code, foreign, phase, rd, dec, out, size>>

Pad == 64
NewLine == 65
Foreign == 66

----------------------------------------------------------------------------
(* The encoder, a byte at a time                                           *)

\* base64_encode_value.
encode_value(v) == IF v > 63 THEN Pad ELSE v

\* base64_encode_block, the body of a step: the characters it writes and the
\* state it leaves.
StepA(e, b) ==
  [chars |-> <<encode_value(b \div 4)>>,
   state |-> [e EXCEPT !.step = "B", !.result = (b % 4) * 16]]

\* Mutant of StepB: the bits kept from the first byte are lost.
StepBForgets(e, b) ==
  [chars |-> <<encode_value(b \div 16)>>,
   state |-> [e EXCEPT !.step = "C", !.result = (b % 16) * 4]]

StepB(e, b) ==
  [chars |-> <<encode_value(e.result + b \div 16)>>,
   state |-> [e EXCEPT !.step = "C", !.result = (b % 16) * 4]]

\* A line is full after CHARS_PER_LINE / 4 groups.
StepC(e, b) ==
  LET full == e.stepcount + 1 = CharsPerLine \div 4
  IN [chars |-> <<encode_value(e.result + b \div 64), encode_value(b % 64)>>
                \o (IF full THEN <<NewLine>> ELSE <<>>),
      state |-> [step |-> "A", result |-> b % 64,
                 stepcount |-> IF full THEN 0 ELSE e.stepcount + 1]]

EncodeStep(e, b) == CASE e.step = "A" -> StepA(e, b)
                      [] e.step = "B" -> StepB(e, b)
                      [] e.step = "C" -> StepC(e, b)

\* base64_encode_blockend: the bits left and the padding.
encode_blockend(e) ==
  (CASE e.step = "A" -> <<>>
     [] e.step = "B" -> <<encode_value(e.result), Pad, Pad>>
     [] e.step = "C" -> <<encode_value(e.result), Pad>>)
  \o <<NewLine>>

----------------------------------------------------------------------------
(* The decoder, a character at a time                                      *)

\* base64_decode_value, with 64 for every negative value: the padding, the
\* end of a line and every other character outside the alphabet.
decode_value(c) == IF c < 64 THEN c ELSE 64

\* base64_decode_block for one character: a character outside the alphabet
\* is skipped.  done is the byte a step completes, next the bits of the next.
DecodeStep(d, f) ==
  CASE d.step = "a" -> [done |-> <<>>, step |-> "b", next |-> f * 4]
    [] d.step = "b" -> [done |-> <<d.plainchar + f \div 16>>, step |-> "c",
                        next |-> (f % 16) * 16]
    [] d.step = "c" -> [done |-> <<d.plainchar + f \div 4>>, step |-> "d",
                        next |-> (f % 4) * 64]
    [] d.step = "d" -> [done |-> <<d.plainchar + f>>, step |-> "a",
                        next |-> 0]

\* The buffer decodeBase64 gives the decoder.
BufferFor(n) == ((n + 3) \div 4) * 3

----------------------------------------------------------------------------
B64Texts == UNION {[1..n -> Bytes] : n \in 0..MaxBytes}

B64Start(t) ==
  /\ text = t
  /\ pos = 0
  /\ enc = [step |-> "A", result |-> 0, stepcount |-> 0]
  /\ code = <<>>
  /\ foreign = 0
  /\ phase = "encode"
  /\ rd = 0
  /\ dec = [step |-> "a", plainchar |-> 0]
  /\ out = <<>>
  /\ size = 0

B64Init == \E t \in B64Texts : B64Start(t)

\* base64_encode_block takes the next byte; blocks may end anywhere, since
\* the state is all that the next one starts from.
encode_block ==
  /\ phase = "encode"
  /\ pos < Len(text)
  /\ LET r == EncodeStep(enc, text[pos + 1])
     IN /\ enc' = r.state
        /\ code' = code \o r.chars
  /\ pos' = pos + 1
  /\ UNCHANGED <<text, foreign, phase, rd, dec, out, size>>

EncodeEnd ==
  /\ phase = "encode"
  /\ pos = Len(text)
  /\ code' = code \o encode_blockend(enc)
  /\ phase' = "send"
  /\ UNCHANGED <<text, pos, enc, foreign, rd, dec, out, size>>

\* Characters outside the alphabet may stand anywhere in the code.
Insert ==
  /\ phase = "send"
  /\ foreign < MaxForeign
  /\ \E i \in 0..Len(code) :
       code' = SubSeq(code, 1, i) \o <<Foreign>> \o SubSeq(code, i + 1, Len(code))
  /\ foreign' = foreign + 1
  /\ UNCHANGED <<text, pos, enc, phase, rd, dec, out, size>>

\* Nor need the line ends and the padding be there: Consul sends no line ends,
\* and nothing at all for an empty value.
Omit ==
  /\ phase = "send"
  /\ foreign < MaxForeign
  /\ \E i \in 1..Len(code) :
       /\ code[i] >= Pad
       /\ code' = SubSeq(code, 1, i - 1) \o SubSeq(code, i + 1, Len(code))
  /\ foreign' = foreign + 1
  /\ UNCHANGED <<text, pos, enc, phase, rd, dec, out, size>>

\* decodeBase64: an empty code is answered at once, otherwise the buffer is
\* made and the decoder initialised.
decodeBase64 ==
  /\ phase = "send"
  /\ size' = BufferFor(Len(code))
  /\ dec' = [step |-> "a", plainchar |-> 0]
  /\ phase' = IF code = <<>> THEN "done" ELSE "decode"
  /\ UNCHANGED <<text, pos, enc, code, foreign, rd, out>>

decode_block ==
  /\ phase = "decode"
  /\ rd < Len(code)
  /\ rd' = rd + 1
  /\ LET f == decode_value(code[rd + 1])
         r == DecodeStep(dec, f)
     IN IF f = 64 THEN UNCHANGED <<dec, out>>
        ELSE /\ out' = out \o r.done
             /\ dec' = [step |-> r.step, plainchar |-> r.next]
  /\ UNCHANGED <<text, pos, enc, code, foreign, phase, size>>

\* The result is cut to the bytes that were completed.
DecodeEnd ==
  /\ phase = "decode"
  /\ rd = Len(code)
  /\ phase' = "done"
  /\ UNCHANGED <<text, pos, enc, code, foreign, rd, dec, out, size>>

B64Next == \/ encode_block \/ EncodeEnd \/ Insert \/ Omit \/ decodeBase64
           \/ decode_block \/ DecodeEnd

B64Spec == B64Init /\ [][B64Next]_b64Vars

----------------------------------------------------------------------------
(* Properties                                                              *)

\* Every variable has its type; the bits kept fit a byte.
B64TypeOK ==
  /\ pos \in 0..Len(text)
  /\ enc.step \in {"A", "B", "C"} /\ enc.result \in 0..63
  /\ enc.stepcount \in 0..(CharsPerLine \div 4)
  /\ dec.step \in {"a", "b", "c", "d"} /\ dec.plainchar \in 0..255
  /\ \A i \in 1..Len(out) : out[i] \in 0..255

\* What is decoded is what was encoded, also with foreign characters in the
\* code, with line ends and padding or without, and with the value's length any
\* residue of 3.
RoundTrip == phase = "done" => out = text

\* The decoder works on the byte it is filling: while it runs, that byte lies
\* inside the buffer sized from the length of the code, or is not written.
InBuffer ==
  phase = "decode" => Len(out) < size \/ (Len(out) = size /\ dec.step = "a")

\* No line of the code is longer than CHARS_PER_LINE characters.
LineLength ==
  phase = "send" /\ foreign = 0 =>
    \A i \in 1..Len(code) :
       (i + CharsPerLine <= Len(code)) =>
          \E j \in i..(i + CharsPerLine) : code[j] = NewLine

\* The value of a key survives its way through the code: it is decoded as it
\* was encoded, within the buffer and in lines of the right length
\* (cencode.c, cdecode.c, helpers.cpp).
CodeKeepsValue == B64TypeOK /\ RoundTrip /\ InBuffer /\ LineLength
============================================================================
