------------------------------- MODULE Json11 -------------------------------
(***************************************************************************)
(* Json::parse of json11 (ext/json11/json11.cpp), which reads every answer *)
(* of Consul, and Json::dump, which prints the requests.  JsonParser's     *)
(* recursive descent is a stack of frames, one for each array or object    *)
(* that is open.  A text is a sequence of characters; a string, a number   *)
(* or a literal is one character here ("s" and "t" two strings, "1" any    *)
(* other scalar, "bad" one that is malformed), and JsonScalars has their   *)
(* inside.                                                                 *)
(***************************************************************************)
EXTENDS Naturals, Sequences, SequencesExt, FiniteSets

CONSTANTS Texts,        \* texts that are parsed
          Values,       \* values that are dumped and parsed back
          CommentTexts, \* texts that are parsed with comments allowed
          MaxDepth      \* max_depth

ASSUME JsonAssumption == MaxDepth \in Nat

VARIABLES
  str,    \* the text
  strategy, \* of the caller: "COMMENTS" or "STANDARD"
  want,   \* the value it was dumped from, or NoValue
  ps      \* JsonParser: position i, first error err, character read ch, the
          \* open frames stack, the value returned ret, and where it is pc

jsonVars == <<str, strategy, want, ps>>

\* The values: a scalar, an array's items, an object's set of fields.
Json(t, items, fields) == [t |-> t, items |-> items, fields |-> fields]
Scalar(c) == Json(c, <<>>, {})
Array(items) == Json("array", items, {})
Object(fields) == Json("object", <<>>, fields)
Null == Scalar("null")
NoValue == Scalar("none")

Strings == {"s", "t"}

RECURSIVE dump(_)
\* Json::dump: items and fields separated by a comma and a blank, the fields
\* in the order of their keys.
dump(v) ==
  LET sep(k) == IF k = 1 THEN <<>> ELSE <<",", " ">>
      fs == SetToSortSeq(v.fields, LAMBDA f, g : f[1] = "s" /\ g[1] = "t")
  IN CASE v.t = "array" ->
            <<"[">> \o FlattenSeq([k \in 1..Len(v.items) |-> sep(k) \o dump(v.items[k])])
            \o <<"]">>
       [] v.t = "object" ->
            <<"{">> \o FlattenSeq([k \in 1..Len(fs) |->
                          sep(k) \o <<fs[k][1], ":", " ">> \o dump(fs[k][2])])
            \o <<"}">>
       [] OTHER -> <<v.t>>

----------------------------------------------------------------------------
(* The scanner                                                             *)

\* str[i]; the character after the last is the terminating NUL.
At(i) == IF i < Len(str) THEN str[i + 1] ELSE "NUL"

Ok(p) == p.err = ""

\* JsonParser::fail keeps the first error and returns a NUL.
fail(p, msg) == [p EXCEPT !.err = IF Ok(p) THEN msg ELSE @, !.ch = "NUL"]

consume_whitespace(p) ==
  [p EXCEPT !.i = CHOOSE j \in p.i..Len(str) :
                    /\ At(j) \notin {" ", "nl"}
                    /\ \A m \in p.i..(j - 1) : At(m) \in {" ", "nl"}]

\* The positions from k on at which a multi-line comment is closed.
CommentEnds(k) == {j \in k..(Len(str) - 2) : At(j) = "*" /\ At(j + 1) = "/"}

consume_comment(p) ==
  LET first(S) == CHOOSE j \in S : \A m \in S : j <= m
      ends == CommentEnds(p.i + 2)
      to(k) == [p EXCEPT !.i = k]
  IN CASE At(p.i) # "/" -> p
       [] At(p.i) = "/" /\ At(p.i + 1) = "/" ->
            to(first({j \in (p.i + 2)..Len(str) : At(j) \in {"nl", "NUL"}}))
       [] At(p.i) = "/" /\ At(p.i + 1) = "*" /\ ends # {} -> to(first(ends) + 2)
       [] At(p.i) = "/" /\ At(p.i + 1) = "*" /\ ends = {} ->
            fail(to(IF p.i + 2 > Len(str) - 2 THEN p.i + 2 ELSE Len(str) - 1),
                 "unexpected end of input inside multi-line comment")
       [] OTHER -> fail(to(p.i + 1), "malformed comment")

\* White space and, when the strategy allows them, comments.
consume_garbage(p) ==
  LET garbage[k \in 0..Len(str)] ==
        LET w == consume_whitespace([p EXCEPT !.i = k])
            c == consume_comment(w)
        IN IF strategy # "COMMENTS" THEN w
           ELSE IF ~Ok(c) \/ c = w THEN c ELSE garbage[c.i]
  IN garbage[p.i]

\* The next character that is neither, or an error at the end of the input.
get_next_token(p) ==
  LET g == consume_garbage(p)
  IN IF ~Ok(g) THEN [g EXCEPT !.ch = "NUL"]
     ELSE IF g.i = Len(str) THEN fail(g, "unexpected end of input")
     ELSE [g EXCEPT !.i = @ + 1, !.ch = At(g.i)]

----------------------------------------------------------------------------
(* parse_json                                                              *)

Return(p, v) == [p EXCEPT !.pc = "return", !.ret = v]
Push(p, frame) == [p EXCEPT !.pc = "value", !.stack = Append(@, frame)]
Pop(p) == [p EXCEPT !.stack = Front(@)]
Top == ps.stack[Len(ps.stack)]
StepBack(p) == [p EXCEPT !.i = @ - 1]

\* Mutant of Fields: a key is taken without its quotes.
FieldsAnyKey(p, fields) ==
  LET c == get_next_token(p)
  IN IF c.ch # ":" THEN Return(fail(c, "expected colon in object"), Null)
     ELSE Push(c, [t |-> "object", key |-> p.ch, items |-> <<>>, fields |-> fields])

\* The head of the loop over an object's fields: a key, the colon, and the
\* call for the value.  parse_string fails on a malformed key.
Fields(p, fields) ==
  LET c == get_next_token(p)
  IN IF p.ch \notin Strings THEN Return(fail(p, "expected a quote in object"), Null)
     ELSE IF c.ch # ":" THEN Return(fail(c, "expected colon in object"), Null)
     ELSE Push(c, [t |-> "object", key |-> p.ch, items |-> <<>>, fields |-> fields])

TooDeep == Len(ps.stack) > MaxDepth

\* A call of parse_json that finds the token c.
Token == get_next_token(ps)
Value(S) == /\ ps.pc = "value" /\ ~TooDeep /\ Ok(Token) /\ Token.ch \in S
            /\ UNCHANGED <<str, strategy, want>>

ParseFails ==
  /\ ps.pc = "value"
  /\ \/ TooDeep /\ ps' = Return(fail(ps, "exceeded maximum nesting depth"), Null)
     \/ ~TooDeep /\ ~Ok(Token) /\ ps' = Return(Token, Null)
  /\ UNCHANGED <<str, strategy, want>>

\* parse_number, expect and parse_string.
ParseScalar ==
  \/ Value(Strings \cup {"1"}) /\ ps' = Return(Token, Scalar(Token.ch))
  \/ Value({"bad"}) /\ ps' = Return(fail(Token, "malformed scalar"), Null)

ParseObject ==
  /\ Value({"{"})
  /\ LET p == get_next_token(Token)
     IN ps' = IF p.ch = "}" THEN Return(p, Object({})) ELSE Fields(p, {})

\* The token after the bracket is put back for the first item; at the end of
\* the input the step back is taken too.
ParseArray ==
  /\ Value({"["})
  /\ LET p == get_next_token(Token)
     IN ps' = IF p.ch = "]" THEN Return(p, Array(<<>>))
              ELSE Push(StepBack(p), [t |-> "array", key |-> "", items |-> <<>>,
                                      fields |-> {}])

ParseOther ==
  /\ Value({"}", "]", ":", ",", "/", "*"})
  /\ ps' = Return(fail(Token, "expected value"), Null)

\* The value goes to the frame that called for it; after an error every
\* frame is left with a null.
Returned(t) == /\ ps.pc = "return" /\ ps.stack # <<>> /\ Top.t = t
               /\ UNCHANGED <<str, strategy, want>>

Unwind == /\ \E t \in {"array", "object"} : Returned(t)
          /\ ~Ok(ps)
          /\ ps' = Pop(Return(ps, Null))

\* After a comma the next token is read and put back.
NextItem(p, items) ==
  [StepBack(get_next_token(p)) EXCEPT !.pc = "value",
                                      !.stack[Len(p.stack)].items = items]

ReturnToArray ==
  /\ Returned("array") /\ Ok(ps)
  /\ LET items == Append(Top.items, ps.ret)
         p == Token
     IN ps' = CASE p.ch = "]" -> Pop(Return(p, Array(items)))
                [] p.ch = "," -> NextItem(p, items)
                [] OTHER -> Pop(Return(fail(p, "expected comma in list"), Null))

\* data[key] = v
Assign(fields, k, v) == {f \in fields : f[1] # k} \cup {<<k, v>>}

ReturnToObject ==
  /\ Returned("object") /\ Ok(ps)
  /\ LET fields == Assign(Top.fields, Top.key, ps.ret)
         p == Token
     IN ps' = CASE p.ch = "}" -> Pop(Return(p, Object(fields)))
                [] p.ch = "," -> Fields(get_next_token(Pop(p)), fields)
                [] OTHER -> Pop(Return(fail(p, "expected comma in object"), Null))

\* Json::parse: nothing but garbage may follow the value.
Finish ==
  /\ ps.pc = "return" /\ ps.stack = <<>>
  /\ LET g == consume_garbage(ps)
         p == IF Ok(g) /\ g.i # Len(str) THEN fail(g, "unexpected trailing") ELSE g
     IN ps' = [p EXCEPT !.pc = "done", !.ret = IF Ok(p) THEN @ ELSE Null]
  /\ UNCHANGED <<str, strategy, want>>

----------------------------------------------------------------------------
JsonStart(text, how, value) ==
  /\ str = text /\ strategy = how /\ want = value
  /\ ps = [i |-> 0, err |-> "", ch |-> "NUL", stack |-> <<>>, ret |-> Null,
           pc |-> "value"]

JsonInit == \/ \E t \in Texts : JsonStart(t, "STANDARD", NoValue)
            \/ \E t \in CommentTexts : JsonStart(t, "COMMENTS", NoValue)
            \/ \E v \in Values : JsonStart(dump(v), "STANDARD", v)

JsonNext == \/ ParseFails \/ ParseScalar \/ ParseObject \/ ParseArray \/ ParseOther
            \/ Unwind \/ ReturnToArray \/ ReturnToObject \/ Finish

JsonSpec == JsonInit /\ [][JsonNext]_jsonVars

----------------------------------------------------------------------------
(* The reference: the grammar of JSON                                      *)

Before(s, k) == SubSeq(s, 1, k - 1)
After(s, k) == SubSeq(s, k + 1, Len(s))

RECURSIVE NoComments(_)
\* The text with every comment a blank; one that is not closed stays.
NoComments(s) ==
  LET ends == {k \in 4..Len(s) : s[k - 1] = "*" /\ s[k] = "/"}
      lines == {k \in 3..Len(s) : s[k] = "nl"}
      least(S) == CHOOSE k \in S : \A m \in S : k <= m
      starts(c) == Len(s) > 1 /\ s[1] = "/" /\ s[2] = c
  IN IF s = <<>> THEN <<>>
     ELSE IF starts("/") THEN
            (IF lines = {} THEN <<>> ELSE NoComments(After(s, least(lines) - 1)))
     ELSE IF starts("*") /\ ends # {} THEN <<" ">> \o NoComments(After(s, least(ends)))
     ELSE <<s[1]>> \o NoComments(Tail(s))

Solid(s) == SelectSeq(s, LAMBDA c : c \notin {" ", "nl"})

RECURSIVE IsValue(_, _), IsList(_, _, _)
\* One or more items of an array or fields of an object, with commas between.
IsList(s, d, t) ==
  \/ t = "array" /\ IsValue(s, d)
  \/ t = "object" /\ Len(s) > 2 /\ s[1] \in Strings /\ s[2] = ":"
     /\ IsValue(After(s, 2), d)
  \/ \E k \in 1..Len(s) : /\ s[k] = ","
                          /\ IsList(Before(s, k), d, t)
                          /\ IsList(After(s, k), d, t)

IsValue(s, d) ==
  LET n == Len(s)
      inside == SubSeq(s, 2, n - 1)
      in(a, b, t) == /\ n > 1 /\ s[1] = a /\ s[n] = b
                     /\ inside = <<>> \/ IsList(inside, d + 1, t)
  IN /\ d <= MaxDepth
     /\ \/ n = 1 /\ s[1] \in Strings \cup {"1"}
        \/ in("[", "]", "array")
        \/ in("{", "}", "object")

----------------------------------------------------------------------------
(* Properties                                                              *)

\* Every variable has its type: in particular the position never leaves the
\* text, however it is moved over comments or stepped back after an error.
JsonTypeOK ==
  /\ ps.i \in 0..Len(str)
  /\ ps.pc \in {"value", "return", "done"}
  /\ Len(ps.stack) <= MaxDepth + 1
  /\ \A k \in 1..Len(ps.stack) : ps.stack[k].t \in {"array", "object"}

\* Json::parse accepts a text exactly when the grammar of JSON does, blanks
\* and (with that strategy) comments between the tokens, nested to max_depth.
AcceptsJson ==
  ps.pc = "done" =>
    (Ok(ps) <=> IsValue(Solid(IF strategy = "COMMENTS" THEN NoComments(str) ELSE str), 0))

\* No object that is returned has two fields of one key, whatever is written
\* in the text: the lookups of the client find one.
OneFieldEach ==
  ps.pc = "return" =>
    \A f, g \in ps.ret.fields : f[1] = g[1] => f = g

\* What Json::dump prints Json::parse reads back as the same value.
DumpParses == ps.pc = "done" /\ want # NoValue => Ok(ps) /\ ps.ret = want

\* The parser reads JSON and nothing else, within the text, and as what
\* Json::dump meant (json11.cpp).
ReadsJson == JsonTypeOK /\ AcceptsJson /\ OneFieldEach /\ DumpParses

============================================================================
