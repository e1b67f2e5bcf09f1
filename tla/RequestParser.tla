---------------------------- MODULE RequestParser ----------------------------
(***************************************************************************)
(* http::server::request_parser (src/src/http/request_parser.cc): the      *)
(* automaton that consumes a request character by character.  Characters   *)
(* are strings: CR and LF are "cr" and "lf", the blank and the slash are   *)
(* "sp" and "slash".  A character's class is all the automaton looks at,   *)
(* but for the letters of "HTTP/".                                         *)
(***************************************************************************)
EXTENDS Integers, Sequences

CONSTANTS
  Chars,      \* the characters that can be read
  Ctl,        \* is_ctl: control characters
  Tspecial,   \* is_tspecial: separators
  NonAscii,   \* ~is_char: bytes above 127, negative as a char
  DigitValue, \* is_digit: a function from the digits to their values
  MaxInt      \* the greatest int, 2^31 - 1 where the server is built

ASSUME ParserAssumption ==
  /\ {"cr", "lf", "tab"} \subseteq Ctl /\ {"sp", "tab", ":", "slash"} \subseteq Tspecial
  /\ {"H", "T", "P", "."} \subseteq Chars \ (Ctl \cup Tspecial \cup NonAscii)
  /\ Ctl \cup Tspecial \cup NonAscii \subseteq Chars
  /\ NonAscii \cap (Ctl \cup Tspecial) = {}
  /\ {"sp", ":", "slash"} \cap Ctl = {}
  /\ DOMAIN DigitValue \subseteq Chars \ (Ctl \cup Tspecial \cup NonAscii \cup {"."})
  /\ DOMAIN DigitValue # {}
  /\ \A d \in DOMAIN DigitValue : DigitValue[d] \in 0..9
  /\ MaxInt \in Nat

VARIABLES
  state_,                 \* where the automaton is
  req,                    \* the request it fills in
  temp_key, temp_value,   \* the header line being read
  result                  \* what consume returned last

parser == <<state_, req, temp_key, temp_value, result>>

\* The states that expect one character, that character, and the next state.
Literal == [http_version_h |-> "H", http_version_t_1 |-> "T", http_version_t_2 |-> "T",
            http_version_p |-> "P", http_version_slash |-> "slash",
            expecting_newline_1 |-> "lf", space_before_header_value |-> "sp",
            expecting_newline_2 |-> "lf"]
AfterLiteral ==
  [http_version_h |-> "http_version_t_1", http_version_t_1 |-> "http_version_t_2",
   http_version_t_2 |-> "http_version_p", http_version_p |-> "http_version_slash",
   http_version_slash |-> "http_version_major_start",
   expecting_newline_1 |-> "header_line_start",
   space_before_header_value |-> "header_value",
   expecting_newline_2 |-> "header_line_start"]

States == DOMAIN Literal \cup
  {"method_start", "method", "uri", "http_version_major_start", "http_version_major",
   "http_version_minor_start", "http_version_minor", "header_line_start",
   "header_lws", "header_name", "header_value", "expecting_newline_3"}

Headers == UNION {[K -> Seq(Chars)] : K \in SUBSET Seq(Chars)}
NoRequest == [uri_ |-> <<>>, headers_ |-> <<>>, major |-> 0, minor |-> 0]

InitParser ==
  /\ state_ = "method_start" /\ req = NoRequest
  /\ temp_key = <<>> /\ temp_value = <<>> /\ result = "indeterminate"

IsName(c)  == c \in Chars \ (NonAscii \cup Ctl \cup Tspecial)
IsBlank(c) == c \in {"sp", "tab"}
IsDigit(c) == c \in DOMAIN DigitValue

Go(s)  == state_' = s /\ result' = "indeterminate"
Reject == result' = "bad" /\ UNCHANGED <<state_, req, temp_key, temp_value>>
Keep   == UNCHANGED <<req, temp_key, temp_value>>

\* headers_[key] = value: a name seen before gets the new value.
PutFirst(h, k, v) ==  \* a faulty variant: insert
  [x \in DOMAIN h \cup {k} |-> IF x \in DOMAIN h THEN h[x] ELSE v]
PutHeader(h, k, v) == [x \in DOMAIN h \cup {k} |-> IF x = k THEN v ELSE h[x]]

\* number * 10 + input - '0', in an int.  A result it has no room for is undefined;
\* the build multiplies and adds in a register, which wraps.
Accumulated(n, c) ==
  ((n * 10 + DigitValue[c] + MaxInt + 1) % (2 * (MaxInt + 1))) - (MaxInt + 1)

-----------------------------------------------------------------------------
(* consume, case by case of its switch. *)

Method(c) ==
  /\ state_ \in {"method_start", "method"}
  /\ \/ c = "sp" /\ state_ = "method" /\ Go("uri") /\ Keep
     \/ IsName(c) /\ Go("method") /\ Keep
     \/ ~IsName(c) /\ ~(c = "sp" /\ state_ = "method") /\ Reject

Uri(c) ==
  /\ state_ = "uri"
  /\ \/ c = "sp" /\ Go("http_version_h") /\ Keep
     \/ /\ c # "sp" /\ c \notin Ctl
        /\ Go("uri")
        /\ req' = [req EXCEPT !.uri_ = Append(@, c)]
        /\ UNCHANGED <<temp_key, temp_value>>
     \/ c \in Ctl /\ Reject

\* What else a state does when its literal arrives.
OnLiteral ==
  CASE state_ = "http_version_slash" ->
         /\ req' = [req EXCEPT !.major = 0, !.minor = 0]
         /\ UNCHANGED <<temp_key, temp_value>>
    [] state_ = "expecting_newline_1" ->
         UNCHANGED req /\ temp_key' = <<>> /\ temp_value' = <<>>
    [] state_ = "expecting_newline_2" ->
         /\ req' = [req EXCEPT !.headers_ = PutHeader(@, temp_key, temp_value)]
         /\ temp_key' = <<>> /\ temp_value' = <<>>
    [] OTHER -> Keep

ExpectLiteral(c) ==
  /\ state_ \in DOMAIN Literal
  /\ \/ c = Literal[state_] /\ Go(AfterLiteral[state_]) /\ OnLiteral
     \/ c # Literal[state_] /\ Reject

\* The digits of the version numbers, and what ends each number.
Major(c) ==
  /\ state_ \in {"http_version_major_start", "http_version_major"}
  /\ \/ /\ IsDigit(c) /\ Go("http_version_major")
        /\ req' = [req EXCEPT !.major = Accumulated(@, c)]
        /\ UNCHANGED <<temp_key, temp_value>>
     \/ c = "." /\ state_ = "http_version_major" /\ Go("http_version_minor_start") /\ Keep
     \/ ~IsDigit(c) /\ ~(c = "." /\ state_ = "http_version_major") /\ Reject

Minor(c) ==
  /\ state_ \in {"http_version_minor_start", "http_version_minor"}
  /\ \/ /\ IsDigit(c) /\ Go("http_version_minor")
        /\ req' = [req EXCEPT !.minor = Accumulated(@, c)]
        /\ UNCHANGED <<temp_key, temp_value>>
     \/ c = "cr" /\ state_ = "http_version_minor" /\ Go("expecting_newline_1") /\ Keep
     \/ ~IsDigit(c) /\ ~(c = "cr" /\ state_ = "http_version_minor") /\ Reject

HeaderLineStart(c) ==
  /\ state_ = "header_line_start"
  /\ \/ /\ c = "cr" /\ Go("expecting_newline_3")
        /\ IF temp_key = <<>>
           THEN Keep
           ELSE /\ req' = [req EXCEPT !.headers_ = PutHeader(@, temp_key, temp_value)]
                /\ temp_key' = <<>> /\ temp_value' = <<>>
     \/ IsBlank(c) /\ DOMAIN req.headers_ # {} /\ Go("header_lws") /\ Keep
     \/ /\ IsName(c) /\ Go("header_name")
        /\ temp_key' = Append(temp_key, c) /\ UNCHANGED <<req, temp_value>>
     \/ /\ c # "cr" /\ ~IsName(c) /\ ~(IsBlank(c) /\ DOMAIN req.headers_ # {})
        /\ Reject

HeaderName(c) ==
  /\ state_ = "header_name"
  /\ \/ c = ":" /\ Go("space_before_header_value") /\ Keep
     \/ /\ IsName(c) /\ Go("header_name")
        /\ temp_key' = Append(temp_key, c) /\ UNCHANGED <<req, temp_value>>
     \/ c # ":" /\ ~IsName(c) /\ Reject

\* A continuation line (its leading blanks), and the text of a value.
HeaderText(c) ==
  /\ state_ \in {"header_lws", "header_value"}
  /\ \/ c = "cr" /\ Go("expecting_newline_2") /\ Keep
     \/ IsBlank(c) /\ state_ = "header_lws" /\ Go("header_lws") /\ Keep
     \/ /\ c \notin Ctl /\ ~(IsBlank(c) /\ state_ = "header_lws")
        /\ Go("header_value")
        /\ temp_value' = Append(temp_value, c) /\ UNCHANGED <<req, temp_key>>
     \/ c \in Ctl \ {"cr"} /\ ~(IsBlank(c) /\ state_ = "header_lws") /\ Reject

AcceptAtCr(c) ==  \* a faulty variant: the last character is not looked at
  /\ state_ = "expecting_newline_3"
  /\ result' = "good"
  /\ UNCHANGED state_ /\ Keep

ExpectNewline3(c) ==
  /\ state_ = "expecting_newline_3"
  /\ result' = IF c = "lf" THEN "good" ELSE "bad"
  /\ UNCHANGED state_ /\ Keep

consume(c) ==
  \/ Method(c) \/ Uri(c) \/ ExpectLiteral(c) \/ Major(c) \/ Minor(c)
  \/ HeaderLineStart(c) \/ HeaderName(c) \/ HeaderText(c) \/ ExpectNewline3(c)

=============================================================================
