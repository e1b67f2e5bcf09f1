---------------------------- MODULE ReverseProxy ----------------------------
(***************************************************************************)
(* ReverseProxyHandler::HandleRequest                                      *)
(* (src/src/request_handler/reverse_proxy_handler.cc:43-245): resolve and  *)
(* connect to proxy_dest_, send the request on, take the response apart,   *)
(* follow a redirection by calling HandleRequest again, and rewrite the    *)
(* links of the page.                                                      *)
(*                                                                         *)
(* Texts are sequences of characters, of which some stand for a word:      *)
(* "Location", "gzip", "href" (href=") and "src" (src="), the host name    *)
(* Dest, and "gz", which begins what gzip::compress returns, whole or cut  *)
(* off.  A site answers a target the same way whenever it is asked for it. *)
(***************************************************************************)
EXTENDS Integers, FiniteSets, SequencesExt

CONSTANTS
  Chars,
  Dest,           \* proxy_dest_, one character
  location_path_,
  Uris,           \* URIs of the requests
  Messages,       \* well-formed responses: status line, code, header lines, body
  Malformed,      \* texts of other responses
  MaxCalls,       \* nested calls that the thread's stack has room for (a bound)
  NULL

-----------------------------------------------------------------------------
(* Texts of responses. *)

CrLf == <<"cr", "lf">>
Digits == "0" :> 0 @@ "1" :> 1 @@ "2" :> 2 @@ "3" :> 3 @@ "4" :> 4
            @@ "5" :> 5 @@ "6" :> 6 @@ "7" :> 7 @@ "8" :> 8 @@ "9" :> 9

\* An assignment to an element of a std::map.
Put(map, key, value) == [k \in {key} \cup DOMAIN map |-> IF k = key THEN value ELSE map[k]]

IsBlank(c) == c \in {"sp", "tab"}
Trim(s) ==
  LET kept == {n \in DOMAIN s : ~IsBlank(s[n])}
  IN  IF kept = {} THEN <<>> ELSE SubSeq(s, Min(kept), Max(kept))

\* Three digits that end at n, and the number they make.
ThreeDigits(line, n) ==
  n \in 3..Len(line) /\ \A k \in n - 2 .. n : line[k] \in DOMAIN Digits
Number(line, n) == 100 * Digits[line[n - 2]] + 10 * Digits[line[n - 1]] + Digits[line[n]]

\* The text of a message, its header lines ended by a blank one.
HeaderLine(line) == line[1] \o <<":">> \o line[2] \o CrLf
Text(m) ==
  m.status \o CrLf \o FlattenSeq([n \in DOMAIN m.lines |-> HeaderLine(m.lines[n])])
    \o CrLf \o m.body

\* A message has three digits in a row in one place of its status line, the code,
\* and a name before the first ":" of each header line.
InLine == Chars \ {"cr", "lf"}
WellFormed(m) ==
  /\ m.status \in Seq(InLine) /\ m.body \in Seq(Chars)
  /\ \E n \in 1..Len(m.status) :
       /\ ThreeDigits(m.status, n) /\ m.code = Number(m.status, n)
       /\ \A k \in 1..Len(m.status) : ThreeDigits(m.status, k) => k = n
  /\ m.lines \in Seq(Seq(InLine \ {":"}) \X Seq(InLine))
  /\ \A n \in DOMAIN m.lines : Trim(m.lines[n][1]) # <<>>

ASSUME ProxyAssumption ==
  /\ {Dest, "cr", "lf", ":", "slash"} \subseteq Chars
  /\ location_path_ \in Seq(Chars) \ {<<>>} /\ Uris \subseteq Seq(Chars)
  /\ \A m \in Messages : WellFormed(m)
  /\ Malformed \subseteq Seq(Chars)
  /\ MaxCalls \in Nat \ {0}

-----------------------------------------------------------------------------
VARIABLES
  uri,     \* request_.uri_ of the innermost call
  calls,   \* calls of HandleRequest that have not returned
  site,    \* target -> response, as far as the site was asked
  asked,   \* the targets of the requests sent
  reply,   \* the reply of the innermost call
  phase    \* where it is, or how the outermost call ended

vars == <<uri, calls, site, asked, reply, phase>>

Ends == {"returned", "thrown", "undefined", "hung", "overflow"}
StockReply == [code_ |-> 500, headers_ |-> <<>>, body_ |-> <<>>]

Responses == {[text |-> Text(m), sent |-> m] : m \in Messages}
               \cup {[text |-> t, sent |-> NULL] : t \in Malformed}

Init ==
  /\ uri \in Uris /\ calls = 1 /\ site = <<>> /\ asked = <<>>
  /\ reply = NULL /\ phase = "resolve"

Return(r) == reply' = r /\ phase' = "returned" /\ UNCHANGED <<uri, calls, site, asked>>
Throw == phase' = "thrown" /\ UNCHANGED <<uri, calls, site, asked, reply>>

-----------------------------------------------------------------------------
(* The exchange with proxy_dest_. *)

Resolve ==
  /\ phase = "resolve"
  /\ \/ phase' = "connect" /\ UNCHANGED <<uri, calls, site, asked, reply>>
     \/ Return(StockReply)

\* connect() without an error code throws, as it does when there was no IPv4
\* address and the endpoint is the default one.
Connect ==
  /\ phase = "connect"
  /\ \/ phase' = "write" /\ UNCHANGED <<uri, calls, site, asked, reply>>
     \/ Throw

\* boost::erase_first_copy(request_.uri_, location_path_)
TargetOf(u) ==
  LET rest == ReplaceFirstSubSeq(<<>>, location_path_, u)
  IN  IF rest = <<>> THEN <<"slash">> ELSE rest

Write ==
  /\ phase = "write"
  /\ \/ asked' = Append(asked, TargetOf(uri)) /\ phase' = "read" /\ UNCHANGED <<uri, calls, site, reply>>
     \/ Return(StockReply)

Read ==
  /\ phase = "read"
  /\ \/ /\ \E r \in IF Last(asked) \in DOMAIN site THEN {site[Last(asked)]} ELSE Responses :
             site' = Put(site, Last(asked), r)
        /\ phase' = "parse"
        /\ UNCHANGED <<uri, calls, asked, reply>>
     \/ Return(StockReply)

-----------------------------------------------------------------------------
(* The response, taken apart by positions. *)

\* Where find() first finds s in t, or Len(t) + 1.
Find(t, s) ==
  LET at == {n \in 1..Len(t) - Len(s) + 1 : SubSeq(t, n, n + Len(s) - 1) = s}
  IN  IF at = {} THEN Len(t) + 1 ELSE Min(at)
Line(t) == SubSeq(t, 1, Find(t, CrLf) - 1)

\* The last place where exactly three digits in a row were counted; a reply
\* starts with the code 0.
Code(line) ==
  LET ends == {n \in 3..Len(line) :
                 ThreeDigits(line, n) /\ ~(n > 3 /\ line[n - 3] \in DOMAIN Digits)}
  IN  IF ends = {} THEN 0 ELSE Number(line, Max(ends))

\* response_str.substr(request_line.size() + 2, header_end_pos - request_line.size())
\* A faulty variant: the line end of the last header is left out.
HeadersShort(t) ==
  SubSeq(t, Len(Line(t)) + 3, Min({Len(t), Find(t, CrLf \o CrLf) - 1}))
Headers(t) == SubSeq(t, Len(Line(t)) + 3, Min({Len(t), Find(t, CrLf \o CrLf) + 1}))

\* response_str.substr(header_end_pos + 4); npos + 4 wraps around to 3.
BodyStart(t) == IF Find(t, CrLf \o CrLf) > Len(t) THEN 4 ELSE Find(t, CrLf \o CrLf) + 4

\* One character of the headers: at is "begin" at the beginning of a line,
\* "line" in it and "lf" after its carriage return.
NewLine(headers, at) ==
  [headers |-> headers, at |-> at, key |-> <<>>, buf |-> <<>>, in_key |-> TRUE, skip |-> TRUE]
\* A faulty variant: every ":" of the line ends the name.
ScanColons(a, c) ==
  CASE a.at = "lf" -> NewLine(a.headers, "begin")
    [] a.at # "lf" /\ c = "cr" -> NewLine(Put(a.headers, Trim(a.key), Trim(a.buf)), "lf")
    [] a.at # "lf" /\ a.skip /\ c = "sp" -> [a EXCEPT !.at = "line"]
    [] a.at # "lf" /\ ~a.skip /\ c = ":" ->
         [a EXCEPT !.at = "line", !.key = a.buf, !.buf = <<>>, !.skip = TRUE]
    [] OTHER -> [a EXCEPT !.at = "line", !.buf = Append(@, c), !.skip = FALSE]
Scan(a, c) ==
  CASE a.at = "lf" -> NewLine(a.headers, "begin")
    [] a.at # "lf" /\ c = "cr" -> NewLine(Put(a.headers, Trim(a.key), Trim(a.buf)), "lf")
    [] a.at # "lf" /\ a.skip /\ c = "sp" -> [a EXCEPT !.at = "line"]
    [] a.at # "lf" /\ ~a.skip /\ a.in_key /\ c = ":" ->
         [a EXCEPT !.at = "line", !.key = a.buf, !.buf = <<>>, !.in_key = FALSE, !.skip = TRUE]
    [] OTHER -> [a EXCEPT !.at = "line", !.buf = Append(@, c), !.skip = FALSE]
Scanned(t) == FoldLeft(Scan, NewLine(<<>>, "begin"), Headers(t))

Parsed(t) ==
  [code_ |-> Code(Line(t)), headers_ |-> Scanned(t).headers, body_ |-> SubSeq(t, BodyStart(t), Len(t))]

\* Without a line end substr() throws, as it does when there is no body to start
\* at and after a last header that ends in a lone carriage return.  A header
\* line that does not end is read past the string's end.
Parse ==
  /\ phase = "parse"
  /\ LET t == site[Last(asked)].text
     IN  IF Len(Line(t)) = Len(t) \/ BodyStart(t) > Len(t) + 1 \/ Scanned(t).at = "lf"
         THEN Throw
         ELSE IF Scanned(t).at = "line"
         THEN phase' = "undefined" /\ UNCHANGED <<uri, calls, site, asked, reply>>
         ELSE reply' = Parsed(t) /\ phase' = "redirect" /\ UNCHANGED <<uri, calls, site, asked>>

-----------------------------------------------------------------------------
(* Redirection. *)

\* A faulty variant: no "slash" is put between the location and the rest.
UriReplaceBare(u) ==
  LET hosts == {n \in DOMAIN u : u[n] = Dest}
      after == SubSeq(u, Max(hosts) + 1, Len(u))
  IN  IF hosts = {} THEN u
      ELSE location_path_ \o (IF after # <<>> /\ Head(after) = "slash" THEN Tail(after) ELSE after)

\* regex_replace of ".*" proxy_dest_ "/{0,1}": all up to the last host name.
UriReplace(u) ==
  LET hosts == {n \in DOMAIN u : u[n] = Dest}
      after == SubSeq(u, Max(hosts) + 1, Len(u))
  IN  IF hosts = {} THEN u
      ELSE location_path_ \o <<"slash">>
             \o (IF after # <<>> /\ Head(after) = "slash" THEN Tail(after) ELSE after)

\* std::map operator[] of a key that may be missing.
Lookup(headers, name) == IF name \in DOMAIN headers THEN headers[name] ELSE <<>>
Location == Lookup(reply.headers_, <<"Location">>)
IsRedirect == phase = "redirect" /\ reply.code_ \in {301, 302}

\* A faulty variant: a redirection to the URI at hand is followed as well.
FollowsAlways == IsRedirect /\ UriReplace(Location) # Location
Follows == IsRedirect /\ UriReplace(Location) \notin {Location, uri}

(* The recursive call, for which the stack has room MaxCalls times. *)
Again ==
  /\ Follows
  /\ IF calls = MaxCalls
     THEN phase' = "overflow" /\ UNCHANGED <<uri, calls, reply>>
     ELSE phase' = "resolve" /\ uri' = UriReplace(Location) /\ calls' = calls + 1 /\ reply' = NULL
  /\ UNCHANGED <<site, asked>>

\* Looking "Location" up has entered it.
NotFollowed ==
  /\ phase = "redirect" /\ ~Follows
  /\ reply' = IF reply.code_ \in {301, 302}
              THEN [reply EXCEPT !.headers_ = Put(@, <<"Location">>, Location)]
              ELSE reply
  /\ phase' = "rewrite"
  /\ UNCHANGED <<uri, calls, site, asked>>

-----------------------------------------------------------------------------
(* The page. *)

\* append_relative_URI: href="/ and src="/ become links below the location.
Links(body) ==
  LET below == IF Last(location_path_) = "slash" THEN Front(location_path_) ELSE location_path_
  IN  FlattenSeq([n \in DOMAIN body |->
        IF n > 1 /\ body[n - 1] \in {"href", "src"} /\ body[n] = "slash"
        THEN below \o <<"slash">> ELSE <<body[n]>>])

\* gzip::decompress (src/include/gzip/decompress.h:23-60) never ends for no data at
\* all, and throws for data that gzip did not write, unless it is too short to tell;
\* of data cut off it returns what there was, which is compressed again.
Gzipped == Lookup(reply.headers_, <<"Content-Encoding">>) = <<"gzip">>

\* The body that is sent, and headers_["Content-Length"].
Sized(r, body) ==
  [r EXCEPT !.body_ = body, !.headers_ = Put(@, <<"Content-Length">>, Len(body))]

(* The rewriting, and the return of every nested call. *)
Rewrite ==
  /\ phase = "rewrite"
  /\ IF ~Gzipped
     THEN Return(Sized(reply, Links(reply.body_)))
     ELSE IF reply.body_ = <<>>
     THEN phase' = "hung" /\ UNCHANGED <<uri, calls, site, asked, reply>>
     ELSE \/ Head(reply.body_) # "gz" /\ Throw
          \/ /\ Head(reply.body_) = "gz" \/ Len(reply.body_) = 1
             /\ Return(Sized(reply, <<"gz">> \o Links(Tail(reply.body_))))

Ended == phase \in Ends /\ UNCHANGED vars

Next == Resolve \/ Connect \/ Write \/ Read \/ Parse \/ Again \/ NotFollowed \/ Rewrite \/ Ended

Spec == Init /\ [][Next]_vars

-----------------------------------------------------------------------------
(* Properties. *)

Answered == calls = Len(asked) /\ Last(asked) \in DOMAIN site
Sent == site[Last(asked)].sent

\* The value that a message gives a header last, nothing if it does not have it.
Values(m, name) == {n \in DOMAIN m.lines : Trim(m.lines[n][1]) = name}
Value(m, name) ==
  IF Values(m, name) = {} THEN <<>> ELSE Trim(m.lines[Max(Values(m, name))][2])

\* reverse_proxy_handler.cc:130-222: the reply that is returned for a well-formed
\* response has its code, its headers, each with the value it had last, and its
\* body with the links rewritten, in the encoding it came in; its length is the
\* length of the body that is sent.
Relayed ==
  phase = "returned" /\ reply # StockReply /\ Sent # NULL =>
    /\ reply.code_ = Sent.code
    /\ \A n \in DOMAIN Sent.lines : Trim(Sent.lines[n][1]) \in DOMAIN reply.headers_
    /\ \A h \in DOMAIN reply.headers_ \ {<<"Content-Length">>} : reply.headers_[h] = Value(Sent, h)
    /\ IF Value(Sent, <<"Content-Encoding">>) = <<"gzip">>
       THEN Head(reply.body_) = "gz" /\ Tail(reply.body_) = Links(Tail(Sent.body))
       ELSE reply.body_ = Links(Sent.body)
    /\ reply.headers_[<<"Content-Length">>] = Len(reply.body_)

\* A location names a host at its start or behind its first two slashes, up to the
\* next one; what follows is the path, which may be left out.
HostAt(location, n) ==
  /\ location[n] = Dest
  /\ n # Len(location) => location[n + 1] = "slash"
  /\ \/ n = 1
     \/ /\ n > 2 /\ location[n - 2] = "slash" /\ location[n - 1] = "slash"
        /\ \A k \in 1..n - 3 : location[k] # "slash"
PathAfter(location, n) ==
  IF n = Len(location) THEN <<"slash">> ELSE SubSeq(location, n + 1, Len(location))

\* The request that a redirection leads to: it does not lead away from a location
\* without the host name, and where the name is the host and does not come again
\* in the path it leads to that path.
LeadsTo(location, target) ==
  /\ \E n \in DOMAIN location : location[n] = Dest
  /\ \A n \in DOMAIN location :
       HostAt(location, n) /\ (\A k \in n + 1..Len(location) : location[k] # Dest) =>
         target = PathAfter(location, n)

\* reverse_proxy_handler.cc:184 "Send the request to that specified redirect URL":
\* a redirection to proxy_dest_ is followed to the path that its location names,
\* whichever the location path and whatever was asked before.  Of a location that
\* holds the host name again in its path uri_replace (225-233) drops all up to
\* there, which LeadsTo leaves open.
Followed ==
  \A n \in 1..Len(asked) - 1 :
    LET m == site[asked[n]].sent
    IN  m # NULL => LeadsTo(Value(m, <<"Location">>), asked[n + 1])

\* The targets that requests and redirections name, fewer than the calls that the
\* stack has room for.
Targets ==
  {TargetOf(u) : u \in Uris}
    \cup {TargetOf(UriReplace(Lookup(Parsed(r.text).headers_, <<"Location">>))) : r \in Responses}
FewTargets == IsFiniteSet(Targets) /\ Cardinality(Targets) < MaxCalls

\* reverse_proxy_handler.cc:189-196: HandleRequest stops by itself at a site that
\* redirects a target to itself; it recurses until the stack is exhausted only
\* where redirections go round through two targets or more.
OnlyCyclesOverflow ==
  phase = "overflow" =>
    \E m, n, k \in DOMAIN asked : m < n /\ n < k /\ asked[m] = asked[k] /\ asked[m] # asked[n]

\* reverse_proxy_handler.cc:130-181, 205: a well-formed response is taken apart
\* without an exception and without a read past its end, gzip's apart, and only
\* an empty gzip page keeps the thread forever.
WellFormedSafe ==
  Answered /\ Sent # NULL =>
    /\ phase # "undefined"
    /\ phase \in {"thrown", "hung"} => Value(Sent, <<"Content-Encoding">>) = <<"gzip">>
    /\ phase = "thrown" => Head(Sent.body) # "gz"
    /\ phase = "hung" => Sent.body = <<>>
=============================================================================
