# A TLA+ verification development for the web server of CS_130

The server is a C++ program on `boost::asio` (`src/src`, `src/include`): an
nginx-like configuration says on which port it listens and which handler serves
which path; a pool of threads runs one `io_service`; each connection is a session
that reads one request, parses it, has a handler answer it, writes the reply and
shuts the connection down.  Paths below are relative to
the repository's root; line numbers in the modules' comments refer to the files of
the same name.

## Inventory

| component | code | state | operations |
|---|---|---|---|
| session | `src/session.cc`, `include/session.h` | `data_[1024]`, `request_`, `request_parser_`, `rep`, the socket | `handle_read`, `handle_write` |
| server | `src/server.cc` | the acceptor, the threads | `run`, `start_accept`, `handle_accept` |
| dispatcher | `src/request_handler/dispatcher.cc` | `handlers_`, and the statics `request_handler_uri`, `num_handlers`, `num_requests`, `request_code_received_` | constructor and `createHandler`, `dispatch` |
| status handler | `src/request_handler/status_handler.cc` | `request_info`, a member of an object all threads share | `HandleRequest` |
| echo, health, static, redirect, 404, 400 handlers | `src/request_handler/*_handler.cc` | none after `Init` | `HandleRequest` |
| reverse proxy handler | `src/request_handler/reverse_proxy_handler.cc` | members written in `HandleRequest` | `HandleRequest`, by recursion over redirections |
| markdown handler | `src/request_handler/markdown_handler.cc` | none after `Init` | `HandleRequest`: the form with the last ten posts, or storing and showing one |
| database | `src/db/` | the singleton `db_instance` with its pool of MongoDB clients; the stored posts | `createPool`, `getClientFromPool`, `insert`, `DBHelper` |
| request parser | `src/http/request_parser.cc` | `state_`, `temp_key`, `temp_value` | `parse`, `consume` |
| reply | `src/http/reply.cc` | code, headers, body | `to_buffers`, stock replies |
| configuration parser | `src/config_parser/` | the tree of statements and blocks, the stack of open blocks | `Parse`, `ParseToken`, `GetConfig`, `GetPort`, `ToString` |
| logger | `src/logger/` | a static `Logger` and one mutex that is not recursive | `log`, `logRequest`, `logMetrics` |
| main | `src/server_main.cc` | none | start-up, the SIGINT handler, which logs and calls `exit` |
| maddy (vendored) | `include/maddy` | the open block, with the block nested in it | `Parse`, `AddLine` of nine block parsers |
| gzip (vendored) | `include/gzip` | none | `compress`, `decompress` |

How they meet: `main` parses the configuration, takes the port from it, builds
the dispatcher from its location statements and runs the server.  `server` and
`session` call each other only through the `io_service`: each asynchronous
operation's completion handler may run on any thread of the pool.  A session calls
the parser, the dispatcher and one handler, and then starts a write whose buffers
point into its reply.  All sessions share the dispatcher's statics, and nothing
in the code locks them.

What is hard here, and what would be correct:

* **Sessions on many threads.**  No lock protects a session; it is safe only if
  at most one completion handler of it exists at any time.  The reply must be
  left alone while it is written.  The acceptor must be armed again on every path.
* **The statics.**  `num_requests++`, `push_back` and `pop_back` are unlocked.
  The counter should count requests; the status page should list the codes sent.
* **A read is not a request.**  A session parses whatever one read delivers.  A
  read that does not end a line is rewritten first, and a request that is not
  complete makes `handle_read` call itself on the same bytes.  It must end, and
  what it accepts must be what was sent.
* **Registration and lookup.**  First statement wins; longest prefix wins in any
  order of the map; the status page's table agrees with the handlers.
* **The configuration.**  Accept exactly the balanced configurations, with a stack
  of raw pointers that must never dangle or be empty; the port must be the one asked for.
* **The proxied response.**  It is cut up by positions that may be `npos`; redirections
  are followed by recursion; links and lengths are rewritten.
* **The pool of clients.**  It is made by the first request that needs it, by check
  and then act, on any thread; a second pool destroys the first.  A thread logs while it
  has a client, and waits for a client after it logged.
* **The end of the process.**  SIGINT is handled on whatever thread it interrupts, by
  code that takes the logger's mutex, and `exit` destroys the statics while the other
  threads go on.
* **Markdown.**  A nested block ends by finding in its line the tags its parents have just
  written there.  The result must be well-formed for any nesting, and no text may be lost.

`PROJECT.json` lists each of these hazards at its line, with the properties that
would notice it or the reason there is none yet.

## Modules

| module | what it is |
|---|---|
| `Server` | server, threads, sessions, statics, status handler |
| `Connections` | abstract: what a client may see of the server, with no threads |
| `MCServer` | instances of `Server` |
| `ServerProofs` | the inductive invariant of `Server` and what follows from it; what is exact when the pool has one thread; `Server` implements `Connections` |
| `Dispatcher`, `MCDispatcher`, `DispatcherProofs` | registration and lookup |
| `RequestParser` | the automaton of `consume` |
| `RequestGrammar` | reference: what a request is, and what it says |
| `SessionRead`, `MCSessionRead` | one read: formatting, parsing, the recursive call |
| `SessionReadProofs` | the automaton accepts what the grammar describes and stores what it says; the inductive invariant of `SessionRead` over reads of any length |
| `ConfigParser` | tokens, tree and port of a configuration file |
| `ConfigParserProofs` | the discipline of the parser's stack, the port, and the files it accepts |
| `ConfigRoundTrip`, `MCConfigRoundTrip` | reference grammar; `ToString` and a second parse |
| `ReverseProxy`, `MCReverseProxy` | one proxied request with all its redirections |
| `ReverseProxyProofs` | responses taken apart, redirections and the depth of the recursion, for any site |
| `Logger` | the mutex, the signal handler on top of any thread, `exit` |
| `MarkdownDb` | main, the threads, the markdown pages and the pool; extends `Logger` |
| `MarkdownDbProofs` | the inductive invariants of `Logger` and `MarkdownDb`; `MarkdownDb` implements `Logger` |
| `Maddy`, `MCMaddy` | the Markdown parser and its block parsers |
| `MaddyProofs` | the inductive invariants of `Maddy`, for documents of any lines and length |
| `SequenceLemmas` | lemmas the proofs share: induction, least and greatest places, `FlattenSeq` |

### Server

`op[s]` is the asynchronous operation a session is in, which stands for the
`io_service`'s queue and the kernel's part: `Connect`, `AcceptError`, `Receive` and
`WriteComplete` complete operations, `Dequeue` lets an idle thread take a completed
one, `Continue` takes a thread one step on in its handler (`pc[t]`).  Each access to a
static that needs a load and a store is two actions, with the loaded value in `reg[t]` or
`vec[t]`: this is what the compiled code does, and it is one of the outcomes of the data race.
The other outcome is that the process dies: `Race` holds where two threads are in the
same vector, in the map's tree or in `request_info` at once, and then `Crash` may
happen.  `Crash` also covers what ends the process without a race: a read of one byte
(`substr` throws), `handler->name` of a null handler, `pop_back` of an empty vector, and
what a handler throws that talks to another host or reads files (`Throwing`): nothing catches
`exists` in the static handler (`static_request_handler.cc:51`), nor the index out of range that
maddy may meet there (lines 78 to 85).

Abstracted: what a request says is the parser's verdict on it and its URI (the
verdict is `SessionRead`'s subject); which handler a URI reaches is the constant
`dispatch` (`Dispatcher`'s subject); of a reply, its code and the status page's rows.  The
handlers without state can reply with any of their codes (the proxy's are the
constant `ProxyCodes`).  An indeterminate parse becomes `bad` in the recursive call:
that is what `SecondPassRejects` checks of `SessionRead`.  `fds` never
shrinks, since nothing closes a socket; `MaxFds` is a bound of the model.

`Connections` has a phase, a target and a code per connection.  The refinement mapping
hides threads, statics and the reply until its write is started.

### Dispatcher

A path is a sequence of characters, a handler the number of the statement it was created for.
`createHandler` is one iteration of the constructor's loop with everything it calls;
the loop of `dispatch` is `Visit`, over the keys in *any* order, which is more than
`std::map` does and shows that the order does not matter.  Statements are
those the parser can produce with a child block.

### RequestParser, RequestGrammar, SessionRead

`consume` keeps all of the automaton's states and transitions; the
states that only expect one character are in a table.  `RequestGrammar` says the same thing
declaratively, by lines, without the automaton.  `SessionRead` has one action per
call of `handle_read`, one per character, and one per verdict.  It has no NUL bytes
(`strcpy` would stop there; the automaton rejects them anyway), and the size of
the buffer, 1024 bytes, is abstracted.  The two version numbers are `int`s of the range that
`MaxInt` gives (`request_parser.cc:127`, `138`, `145`, `156`): a number with more digits than that
holds wraps, which is what the build makes of it, and `Faithful` asks nothing of its value.  Nothing but
a log line (`logger.cc:74`) reads them.

### ConfigParser, ConfigRoundTrip

One step per character and one per token.  `NginxConfig` objects are numbered, so a stale
pointer would be a number on the stack that is nobody's child.  Two loops of the code
that are recursion over the tree (`GetConfig`, `ToString`) are recursive
functions.  The port keeps its width: an `int` that becomes a 16-bit `short`.
A word in which the file ends is dropped, as in the code.

### ReverseProxy

Error paths are disjuncts of the action where they occur.  `substr` and `find` keep
their results, `npos + 4` included; reading past the string's end is the outcome
`undefined`, an exception `thrown`, `gzip::decompress` of nothing `hung`, and
recursion deeper than `MaxCalls` `overflow`.  A site answers one target always
in the same way.  A well-formed response has three digits in a row in one place of its status
line (the code takes the last such place for the status), a name before the first `:` of each
header line, and no carriage return or line feed but its line ends; whatever else a site
may send is `Malformed`.  The length of the page is put into `headers_` like any header.
Not modelled: the method and headers of the request that is
sent, and dots of `proxy_dest_` that its regular expression reads as wildcards.

### Logger, MarkdownDb

A thread has two frames, its own code and the signal handler when that has interrupted it
(`at[f]`); the code beneath a handler does not run, and this handler never returns.  `Logger`
lets the code of any thread call it at any time.  `MarkdownDb` says when: each of its actions
that logs in the code is a `Call`, and the thread's next action waits until its frame is out of
the logger (`At`).  Log calls with only local work between them are one call.  The steps of
`HandleRequest` are then the ones other threads can tell apart: the check in `createPool`, the
assignment, the loading of the pointer, the wait for a client, the access, the release.

A pool is a number; `made` is the last one, and a thread at any other pool is `Dangling`: what
it does next is undefined (`UseDangling` ends the process, or the thread stays where it
is).  MongoDB is external: the posts are a sequence, read whole and appended to, and either may
fail with an exception that the code catches and logs.  `Throws` is what it does not catch:
mongocxx's constructor, `to_json` of a post that is no UTF-8 (`db_handler.cc:31`), `get_utf8` of a
document without `md` (line 63), `exists`, and maddy.  `exit` destroys what was made last first.

### Maddy

A block parser is a record.  Each has at most one child, so the open ones are a sequence
(`block`), outermost first, where the code has a chain of `childParser` pointers.  `AddLine` is the
code's recursion over that chain: on the way down (`HandedDown`) each parser does to the line what its
`parseBlock` does and hands it to its child, or to one it opens; the innermost writes what is left
(`Written`); on the way back (`Adopted`) the result of a finished child goes to its parent.  Both ways
are recursive functions of the number of parsers passed.  A line is a sequence of tokens: the marks the parsers look for, words for the
text between them, and tags, which a parent writes into the line it hands down and which end a
list below it.  `ReadLine` is one turn of `Parse`'s loop; `EndOfInput` is the empty line after
the last one.  Of the inline parsers it has those that meet such lines: a carriage return is a
line break, and three back quotes (`fence`) inside text are an empty inline code and a back
quote.  `HtmlParser` is never made, since the server passes no configuration.
`Tokens` are those the lines consist of: by `TextAssumption` none is a tag, since a post with HTML of its
own can break any nesting, and no word is a mark.

## Runs

Every passing run also has, for each property, a mutant: a plausible bug in one modelled
definition under which the property fails in the same run.

| run | checks | bounds, and why they suffice |
|---|---|---|
| `server_one_thread` | `CountExact`, `BoardExact`, `PageExact`, `NeverCrashes`, `Answered`, `Listening` | one thread, four sessions (three connections and the one that listens): a page built after a page and another reply; a proxy that may hold the only thread; a static handler that may throw.  The data races need two threads and are in the next runs |
| `server_pool` | `TypeOK`, `AcceptArmed`, `SessionConfined`, `CountNeverOvershoots`, `ReplyStable`, `ImplementsConnections`, `Answered` | two threads, three sessions, a URI without handler, a proxy that waits or throws, all kinds of read: races are between pairs of threads |
| `server_board_race` | violates `BoardExact` | two threads, three sessions |
| `server_null_handler` | violates `NeverCrashes` | one thread, a URI without location |
| `dispatcher` | `TypeOK`, `FirstAsked`, `TableAgrees`, `LongestPrefix`, `CatchAll` | at most three statements: replacement needs two, a third comes after it; the paths include a prefix by characters that is none by segments, slashes at the end, the empty path and both fixed keys |
| `session_read` | `Verdict`, `Faithful`, `SecondPassRejects`, `Finishes` | some 1900 reads: two requests (one with a continued and a repeated header), either line end, every part of them, one character lost, added or replaced at every place, bodies; a version of two and three digits where `MaxInt` is 63, so one fits and one does not |
| `session_read_body` | violates `CompleteServed` | the same reads |
| `config` | `Nested`, `PortAsked`, `AcceptsGrammar`, `RoundTrip` | every text of at most four of nine characters, and every sequence of at most four pieces that nest, quote, comment and set ports, a port that a `short` takes for negative among them |
| `reverse_proxy` | `Relayed`, `Followed`, `OnlyCyclesOverflow`, `WellFormedSafe` | eight nested calls over a site of a few targets: longer than any chain without a cycle; locations with the host name once, not at all, and again in the path; every part of a response as a malformed one |
| `maddy` | `Balanced`, `TextKept`, `EmptyLineEnds`, `RowsFirst` | every document of five lines of a family that nests (lists in lists, checklists, quotes with everything inside), of seven lines of tables, of four lines of any blocks after each other: three levels of lists open and close, a table has a head, a body and a foot |
| `maddy_finished` | violates `AllFinished` | up to four lines of text, quotes and headlines: nothing that a document could be blamed for leaving open |
| `markdown_db` | `Exclusive`, `PageRecent`, `PoolOutlivesUse`, `HangIsFinal`, `SignalEnds`, `Served` | main and two threads, two requests, one SIGINT, a pool of one client, two posts from before, and a form of two posts: a form is then at its limit or above it, with posts in an order that can be told, and two threads compete for everything there is one of.  A form below its limit is left to the theorem `FormRecent` |

The runs of `Server` use four sessions at most since a session is never reused: the
last one can only listen.  Sessions are interchangeable, but a symmetry set is not sound where
liveness is checked, so `OrderedSpec` of `MCServer` uses them in a fixed order instead:
every behaviour of `Server` is one of these with its sessions renamed.  `MaxFds`, `MaxCalls`,
`MaxRequests`, `MaxSignals` and the lengths of texts, documents and chains are bounds of the
instances; the theorems hold for every value of them.
`Rest`, `Returned`, `Started`, `Ended`, `Halted` and `Done` are self-loops of states where the modelled part is over, so that every other state without a
successor would be reported as a deadlock.

### Fairness

*`Server`.*  `WF` of each thread's next step: threads are scheduled by the system.  It is
not assumed of a thread that is in a handler that waits for another host (`Waits`), and a thread
that must die does.  `SF` of taking each session's completion: the `io_service` queue
is first in, first out, so a completion cannot be passed over forever while threads
come back to the queue, although each single moment at which a thread is idle may go by.
Nothing is assumed of clients: a connection may be silent forever.  So `Answered` lets a
session wait for the other host its own handler talks to, or for all the threads when each
of them does (`AllWait`); the waiting of fewer threads delays no one else.
*`MarkdownDb`.*  `WF` of each thread's next step, in its code or in the handler on top of
it: threads are scheduled, and a call of the MongoDB driver ends in a result or a timeout.  Nothing
is assumed of a thread at a pool that was destroyed, which may stay there forever: `Served` lets it
(`Stranded`), and says that it holds up no other thread.  A
thread that waits for the mutex or for a client may be overtaken by the requests that
come in, of which there are finitely many, so neither the mutex nor the pool has to be
fair.  Nobody has to send a request or a signal.
*`SessionRead`.*  `WF(Next)`: one thread runs one handler.  The other modules have
safety properties only.

### What the violations show

* `BoardExact` with two threads: unlocked updates of `request_code_received_` lose a
  code, or leave one behind that the status handler pushed for its own page.
* `NeverCrashes` where a URI has no location: `dispatch` returns `NULL`, the stock 404
  is built, and then `handler->name` is read through the null pointer
  (`session.cc:113`).  The shipped configurations have a `NotFoundHandler` at `/`,
  and `CatchAll` shows that this is what keeps it from happening.
* `CompleteServed`: a complete request whose body, in the same read, does not end in `\r\n` is
  formatted a second time and becomes `...\r\r\n`, which is rejected.
* `AllFinished`: `parser.h:105` says "make sure, that all parsers are finished" and gives the open
  block one empty line.  A quote hands that line to the paragraph in it, which ends, and stays open
  itself: a document whose last line is `> w` loses it.  So do a quote in a quote, and a table or a
  code block that was not closed (`TextKept` shows that nothing else is lost).

Some more that reading the models shows, each of them within what a passing property
allows:

* Two handler types are stored under a key of their own (`dispatcher.cc:117`), so they
  replace a handler although the comment of line 94 says a taken path is skipped
  (`FirstAsked` and `TableAgrees` have the exception).
* The recursive call counts the request again (`session.cc:38`, `124`), so the "number of
  requests received" (`src/README.md:82`) is the number of calls of `handle_read`, which is what
  `CountExact` says.
* A redirection goes "to that specified redirect URL" (`reverse_proxy_handler.cc:184`), but the
  regular expression of `uri_replace` (225-233) is greedy: of a location with the host name again
  in its path or query, as in `http://D/login?next=http://D/a`, all up to the last host name is
  dropped, and the request goes to `/a`.  The run has such locations, and without the exception that
  `LeadsTo` makes for them `Followed` is violated.
* A table whose separator has no row before it is indexed past its end (`RowsFirst`).
* Two first requests for markdown may each make a pool; the second destroys the first under
  the thread that uses it (`PoolOutlivesUse` allows it only after such an overlap).
* A SIGINT delivered to a thread that is in the logger hangs the process for good, also
  against a second SIGINT (`HangIsFinal`; the run sends one, the theorem `HangFinal` any number).
* Every thread may wait for another host at once, and then no one is served (`AllWait`).

## Proofs

`ServerProofs`, from `ServerAssumption` only (so for any threads, sessions, URIs,
`dispatch` and inputs): `IInv` is inductive.

* `TypeOK`
* `CurInv`: a thread is inside `handle_read` exactly while it has a session, that session
  is `running`, and no other thread has it.  `SessionConfined` alone is not inductive:
  nothing in it says that the session a thread holds cannot be taken again.
* `ReplyInv`: the reply exists from the handler's return until the write has completed.
* `AcceptArmed`: one operation of the acceptor, or one thread about to start one; the
  four conjuncts exclude the pairs that would make a second one possible.
* `CountInv`: the loaded counter is below the number of reads that were counted, without
  which the store could not be bounded.

From it: `TypeCorrect`, `AlwaysArmed`, `Confinement`, `NoOvercount`, `ReplyUnchanged`.
`Refinement`, `Spec => ImplementsConnections`, maps initial states to initial
states, and each action to a step of `Connections` or to a stutter; `AcceptArmed` is
what `Listen` needs, `CurInv` what every step inside `handle_read` needs, and `RInv` adds
that a thread past the parse holds a decided request and a reply that its handler
can give.

The last part adds the assumption `Threads = {t}`, since `server_board_race` shows that
`BoardExact` needs it.  Its `OneInv` says what the statics hold at each point of the thread's handler:
`Expected` is the list of codes sent plus the entry that the thread has put into the map and
not yet accounted for (the page's own 200 until it is popped, the reply's code until it is
sent), `PageOne` what the page has listed so far, `CountOne` the counter, one behind while it
is stored.  From it `OneThreadCounts`, `OneThreadBoard` and `OneThreadPage`; and, if every URI has a
location and no read is of one byte, `OneThreadLives`: nothing but a handler that reads files or
talks to another host ends the process, since what `pop_back` meets is never empty.

`DispatcherProofs`, from `DispatcherAssumption`: `IInv` is `TypeOK`, `FirstAsked`,
`TableAgrees`, `BuiltFirst` (no request is dispatched before the constructor returned) and
`LoopInv` (the best handler among the keys visited so far).  From it `TypeCorrect`,
`FirstStatementWins`, `TableIsTrue` and `LongestPrefixWins`.  `RootInv` (a handler at the root once a statement
asked for one there, and none of them null if no `Init` returned null) gives `CatchesAll`.

`SessionReadProofs`, from `ParserAssumption` and `ReadAssumption`, is
about reads of any length.  Its first part says of the automaton's states which texts have led
to each of them (`Viable`), that each such text can be completed to a request, and what has been stored
by then; the recursive functions of the grammar are replaced by what they return, by induction over
lengths.  The inductive invariant `Inv` of `SessionRead` is

* `TypeOK`;
* `Unread`: nothing has touched the parser before the first pass;
* `BeingRead`: the bytes that are parsed are the read's own where they end a line, and the
  truncated and formatted ones where they do not, and only the former are read twice;
* `FirstPass`: while the parser is undecided the text so far is `Viable` for its state, after
  "good" it is a request, and after "bad" no text that begins with it is one (`Dead`).  `Verdict` alone
  does not say what the state knows of the text;
* `SecondPass`: nothing resets the parser, so it starts where a header may, reads the request's method
  as a header's name, and has not come past the method's end.

From it: `DecidedHolds` (after every character, "good" is said exactly of a request, "bad" only if no text
that follows makes it one, "indeterminate" only if some text does), `VerdictHolds` (the same as the run
checks it; there the texts that may follow are `Completions`, so the theorem assumes
`Completions = Seq(Chars)`, where the run has those that its reads can need),
`SecondPassRejectsHolds` and `TypeOKHolds`.  `FilledIn` adds to it what `req`, `temp_key` and
`temp_value` hold in each state (`Counts`: a version number is that of its digits as long as an `int` holds it);
from it `FaithfulHolds`.

`ConfigParserProofs`, from `ConfigAssumption`: `Nested` is inductive once it is known that the
numbers on the stack rise (`Rising`), because a change of the top block is then a change of no
other block on it.  From it `AlwaysNested`.  `AsksForThePort` is about `GetConfig`, a recursion over the tree, and compares
it with the tokens in the order in which they were read.  `SInv` adds to `IInv`

* `Shape`: a child has a greater number than its block, and one parent, so the recursive equation has one
  solution (`SearchUnique`);
* `Recorded`: the last word read is the last one of the top block;
* `Searched`: what `GetConfig` finds in the tree so far is the word after the first key among the tokens
  so far.  It is kept because the parser only ever adds to the end of the tree.

`AcceptsTheGrammar` compares the parser's verdict with the grammar of `ConfigRoundTrip`, for every file.
The grammar is a recursion over sequences of tokens; `Grammar` shows that it is a fixpoint of its
production.  Its sequences are then told apart token by token: each token may follow the one before it, and the depth
of the braces ends at zero (`Flat`), which is what the parser looks at.  The invariant `GInv` is `Counted`, the
types and `block_counter` against the stack of blocks; `Agrees`, that the tokens read are statements the grammar
derives at each open level, with a statement begun at the innermost (`Unfinished`); and `Judged`, what a
verdict rests on.

`ReverseProxyProofs`, from `ProxyAssumption`, for any site, any `proxy_dest_` and location path,
and texts of any length.  The scan of the headers is a fold; `ReadLine` says what it does with one
line, and `HeadOfMessage` with all of them: of each name it keeps the last value (`Stored`).
`HeadEnds` says that no two line ends follow each other before the headers' end, so each
`find` and `substr` takes the part it is meant to (`TextTaken`, `MessageParsed`).
`NextTarget` says that erasing the location path from what `uri_replace` returns leaves what follows the
last host name of the location, however often either contains the other (`FollowedLast`); `LastLeads`
that this is the path of a location that does not hold the host name again.  The inductive invariant `PInv` is

* `Called`: a call that has not returned sent one request, but for the innermost;
* `Known`: the site has answered each request but, perhaps, the last;
* `Redirected`: the URI of a nested call is the one the call around it was redirected to, and
  differs from its location.  `Followed` alone does not say where the next request will go;
* `NotAgain`: no two requests in a row are for one target, the last two apart.  These may be
  (`/proxy` and `/proxy/` are one target), but then the second answer redirects to the URI
  at hand and is not followed;
* `Replied`: what the reply holds between parsing and rewriting, the `Location` that looking it
  up has entered included;
* `FollowedLast`, from which `Followed` is derived, and the properties `Relayed` and `WellFormedSafe` themselves.

From it `RepliesAreRelayed`, `RedirectionsAreFollowed` and `WellFormedIsSafe`.
`OverflowNeedsACycle` assumes `FewTargets`: the stack has room for more calls than
there are targets to be redirected to.  Then two requests had the same target, and by
`NotAgain` one between them had another.  Without it a site with a long chain of
redirections and no cycle exhausts the stack as well; the instance of the run satisfies it.

`MarkdownDbProofs`, from `LoggerAssumption` and `MarkdownAssumption`, first proves of `Logger`
alone `LoggerTypeCorrect`, `MutualExclusion` and `NoWayOut`.  `Exclusive` is inductive with the
types; `HangIsFinal` follows from it, because only the frame inside can release the mutex,
and that frame is beneath the handler that waits.  `Implementation`, `Spec => LoggerSpec`, maps
each action of `MarkdownDb` to one of `Logger` or to a stutter, so both hold of the whole
(`LogExclusive`, `HangFinal`).  The inductive invariant `IInv` of `MarkdownDb` is

* `DbTypeOK`: the types, by groups of variables, from which `TypeOK` follows;
* `PoolInv`: until two creators have overlapped, a thread at `create` is the only one and
  there is no pool yet, and past it there is one and it is the one each thread is
  at.  `PoolOutlivesUse` alone does not say who may still assign;
* `PageRecent`, which needs no more than that posts are only appended.

From it: `TypeCorrect`, `OnePool`, `FormRecent`, for any number of threads, requests,
signals, clients and posts.

`MaddyProofs`, from `MaddyAssumption` and `TextAssumption`, for documents of any lines and length, so
for chains of any depth.  `Recursion` shows that the two recursive functions exist; `Descends` and
`Ascends` that what their steps preserve holds of their values; so each fact about a whole `AddLine` is proved as
one about a step down, one about the line written, and one about a step back.  `Going` is what holds
of every line on its way down, `Trim` what the way back leaves.  The inductive invariants are

* `Shape`: the types; the open parsers are started, unfinished and nested as the callbacks allow, and the
  first of them is a code block or table only if it is alone (`ShapeHolds`);
* `Ahead`: an open table has at least as many sections as its separators say, unless one of them had no row
  before it (`RowsComeFirst`);
* for `EmptyLineEndsBlocks` no more than `Shape`: an empty line finishes each parser but quotes on its
  way down (`Emptied`), where a list is ended by the tags of its parent in front of the line.  `WhatStaysOpen`
  says so of the line that is given at the end as well;
* for `TextIsKept`, `Tidy`: an open table is alone, has written nothing, and its next row goes to the last of its
  sections (`Tabled`); no other block has rows.  A line keeps its words on its way down (`Carried`), and
  below a finished parser all are finished (`DoneBelow`), without which adoption would drop a child that is still
  open;
* for `TagsAreBalanced`, `TagsHeld`: the tags that are open in what the parsers of a block have written are those
  their kinds leave open (`Even`), outermost first; the cells of an open table leave no tag open (`Clean`).
  `Balanced` alone says nothing of an open block.  On its way down a line carries what closes and
  reopens the tags of the parsers it has been through (`Tagged`), and a list that finds its parent's tags in front
  of the line ends there (`PassedOn`).  The lines themselves have no tags, by `TextAssumption`.

Only model-checked: liveness (`Answered`, `Listening`, `Finishes`, `SignalEnds`, `Served`), which
is out of the proof system's reach; and `RoundTrip` of `ConfigRoundTrip`, which needs induction over the
trees that `ToString` prints.

## Not modelled

* The static handler's paths and files, MIME types, `to_buffers`, texts of replies: data.
* `req.body_ = begin` and `parse_method` at the start of `request_parser::parse`
  (`request_parser.h:44-45`): they set two members of the request that decide nothing in the parser.
* The decoding of the form (`urldecode2`) and the raw HTML in posts: data.
* maddy's inline parsers (emphasis, links, images): regular expressions over one line, which
  change no state; `Maddy`'s lines hold nothing they would match but what is said above.
* `gzip`: vendored; only what the proxy meets of it.
* main's errors of arguments and of binding the port: they end the process before it serves.
* `hardware_concurrency() == 0` and a process without file descriptors: listed as hazards.

## Plan

In this order:

1. `Server`, `Connections` and their proofs.  *Done.*
2. `Dispatcher` and its proofs.  *Done.*
3. `RequestParser`, `RequestGrammar`, `SessionRead`.  *Done.*
4. `ConfigParser`, `ConfigRoundTrip`.  *Done.*
5. `ReverseProxy`.  *Done.*
6. `MarkdownDb`, the pool and the pages, and its proofs.  *Done.*
7. `Logger`, the mutex, SIGINT and `exit`.  *Done.*
8. `Server` with handlers that wait, and what their waiting may not delay.  *Done.*
9. `Maddy`.  *Done.*
10. Proofs about one thread, `CatchAll`, `Nested` and `PortAsked`, about `SessionRead`'s passes and
    about `ReverseProxy`; about all that `Maddy`'s run checks, and `AcceptsGrammar`.  *Done.*  Left:
    `RoundTrip`.
11. `System`: the start-up from file to running server, composing `ConfigParser` and
    `Dispatcher`; a location or server statement without block, whose child is dereferenced.
12. The static handler's choice of file, and the wire format of a reply.
