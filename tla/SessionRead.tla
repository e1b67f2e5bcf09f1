---------------------------- MODULE SessionRead ----------------------------
(***************************************************************************)
(* The first half of session::handle_read (src/src/session.cc:36-71 and    *)
(* 96-129): the bytes of one read are formatted when they do not end a     *)
(* line, the session's parser consumes them, and an indeterminate parse    *)
(* makes handle_read call itself on the same bytes, with the parser left   *)
(* where it stopped.  What a decided request leads to is in Server.        *)
(*                                                                         *)
(* A read holds no NUL byte here.  strcpy would stop at one, and the       *)
(* parser rejects the character there as it rejects any control character. *)
(***************************************************************************)
EXTENDS RequestGrammar

CONSTANTS
  Reads,          \* what async_read_some may deliver
  Completions,    \* what may follow a part of a request
  BadRequestUri   \* "/badrequest"

ASSUME ReadAssumption ==
  /\ Reads \subseteq Seq(Chars) \ {<<>>}
  /\ Completions \subseteq Seq(Chars)
  /\ BadRequestUri \in Seq(Chars)

VARIABLES
  raw,       \* the bytes as they were read
  data_,     \* the session's buffer
  text, pos, \* what this pass parses, and how far it is
  passes,    \* calls of handle_read, the recursive ones included
  phase,     \* "read", "parse", "done", or "thrown"
  returned   \* what the outermost handle_read returns

vars == <<raw, data_, text, pos, passes, phase, returned, parser>>

EndsLine(b) == Len(b) >= 2 /\ SubSeq(b, Len(b) - 1, Len(b)) = CrLf

\* data.pop_back() while the last byte ends no line and others are left.
Truncated(b) ==
  SubSeq(b, 1, IF Where(b, "lf") = {} THEN 1 ELSE Max(Where(b, "lf")))

\* boost::replace_all(data, "\n", "\r\n"); data.append("\r\n")
Formatted(b) ==
  FlattenSeq([n \in DOMAIN b |-> IF b[n] = "lf" THEN CrLf ELSE <<b[n]>>]) \o CrLf

\* strcpy, and the rest of the buffer (the terminator is no character).
Overwritten(buffer, b) == b \o After(buffer, Len(b) + 1)

Init ==
  /\ raw \in Reads /\ data_ = raw
  /\ text = <<>> /\ pos = 0 /\ passes = 0
  /\ phase = "read" /\ returned = 0
  /\ InitParser

-----------------------------------------------------------------------------
\* A faulty variant: the parser starts afresh.
ReadReset ==
  /\ phase = "read" /\ Len(raw) >= 2
  /\ text' = IF EndsLine(raw) THEN raw ELSE Formatted(Truncated(raw))
  /\ pos' = 0 /\ passes' = passes + 1 /\ phase' = "parse"
  /\ state_' = "method_start" /\ result' = "indeterminate"
  /\ UNCHANGED <<raw, data_, returned, req, temp_key, temp_value>>

(* A call of handle_read, up to the parse. *)
handle_read ==
  /\ phase = "read" /\ Len(raw) >= 2
  /\ LET bytes == SubSeq(data_, 1, Len(raw))
     IN  IF EndsLine(bytes)
         THEN text' = bytes /\ UNCHANGED data_
         ELSE /\ text' = Formatted(Truncated(bytes))
              /\ data_' = Overwritten(data_, text')
  /\ pos' = 0 /\ passes' = passes + 1 /\ phase' = "parse"
  /\ UNCHANGED <<raw, returned, parser>>

(* A single byte: data_str.substr(size() - 2) throws. *)
TooShort ==
  /\ phase = "read" /\ Len(raw) < 2
  /\ phase' = "thrown"
  /\ UNCHANGED <<raw, data_, text, pos, passes, returned, parser>>

(* request_parser::parse hands over one more character.  What it sets before   *)
(* the first, body_ and the method's name, decides nothing here.               *)
parse ==
  /\ phase = "parse" /\ result = "indeterminate" /\ pos < Len(text)
  /\ consume(text[pos + 1])
  /\ pos' = pos + 1
  /\ UNCHANGED <<raw, data_, text, passes, phase, returned>>

(* The verdict.  Every call but the innermost returns -1.                  *)
Returns(code) == returned' = IF passes > 1 THEN -1 ELSE code

Good ==
  /\ phase = "parse" /\ result = "good"
  /\ phase' = "done" /\ Returns(0)
  /\ UNCHANGED <<raw, data_, text, pos, passes, parser>>

Bad ==
  /\ phase = "parse" /\ result = "bad"
  /\ req' = [req EXCEPT !.uri_ = BadRequestUri]
  /\ phase' = "done" /\ Returns(1)
  /\ UNCHANGED <<raw, data_, text, pos, passes, state_, temp_key, temp_value, result>>

\* A faulty variant: what was read is dropped and nothing else is started.
Drop ==
  /\ phase = "parse" /\ result = "indeterminate" /\ pos = Len(text)
  /\ phase' = "dropped"
  /\ UNCHANGED <<raw, data_, text, pos, passes, returned, parser>>

Again ==
  /\ phase = "parse" /\ result = "indeterminate" /\ pos = Len(text)
  /\ phase' = "read"
  /\ UNCHANGED <<raw, data_, text, pos, passes, returned, parser>>

Returned == phase \in {"done", "thrown"} /\ UNCHANGED vars

Next == handle_read \/ TooShort \/ parse \/ Good \/ Bad \/ Again \/ Returned

\* One thread runs the handler to its return.
Spec == Init /\ [][Next]_vars /\ WF_vars(Next)

-----------------------------------------------------------------------------
(* Properties. *)

Consumed == SubSeq(text, 1, pos)

\* request_parser.h:36-39 on the first pass: after every character the parser
\* says "good" exactly when it has consumed a request, "bad" only when nothing
\* that follows could make it one, and "indeterminate" only when something can.
Verdict ==
  phase = "parse" /\ passes = 1 =>
    /\ result = "good" <=> IsRequest(Consumed)
    /\ result = "bad" => \A c \in Completions : ~IsRequest(Consumed \o c)
    /\ result = "indeterminate" => \E c \in Completions : IsRequest(Consumed \o c)

\* A version number is the one that was sent where an int has room for it.
Holds(value, number) == number <= MaxInt => value = number

\* request_parser.cc:60-244: a request that was accepted is the one that was sent,
\* field by field, its URI, its headers, and its version if that fits into the
\* numbers of the request.
Told(r, meaning) ==
  /\ r.uri_ = meaning.uri_ /\ r.headers_ = meaning.headers_
  /\ Holds(r.major, meaning.major) /\ Holds(r.minor, meaning.minor)
Faithful == result = "good" => Told(req, Meaning(Consumed))

\* session.cc:124: handle_read calls itself at most once, and only for bytes
\* that end a line; the second pass rejects the request.
SecondPassRejects ==
  /\ passes <= 2
  /\ passes = 2 => EndsLine(raw)
  /\ phase = "done" /\ passes = 2 => result = "bad"

\* session.cc:36-130: the handler always returns (or throws).
Finishes == <>(phase \in {"done", "thrown"})

\* request_parser.h:36-37 and 52: "good when a complete request has been parsed",
\* and what follows the request "is the remaining body".
CompleteServed ==
  phase = "done" /\ (\E n \in DOMAIN raw : IsRequest(SubSeq(raw, 1, n))) => result = "good"
=============================================================================
