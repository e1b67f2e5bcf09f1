---------------------------- MODULE ConfigParser ----------------------------
(***************************************************************************)
(* How the server starts (src/src/server_main.cc:47-57): GetPort has       *)
(* NginxConfigParser::Parse read the configuration file, ignores what it   *)
(* returns, and looks the port up in whatever was parsed.                  *)
(*                                                                         *)
(* ParseToken takes one character a step.  NginxConfig objects are         *)
(* numbered as they are created, and a statement's child_block_ is such a  *)
(* number, or 0 when it is null.                                           *)
(***************************************************************************)
EXTENDS Integers, SequencesExt

CONSTANTS
  Chars,     \* the characters a file may hold
  Files,     \* the files
  PortKey,   \* "port"
  Stoi       \* the number std::stoi finds in a token; no token it throws for

Blanks == {" ", "tab", "lf", "cr"}
Quotes == {"'", "\""}
Punctuation == [c \in {";", "{", "}"} |->
  CASE c = ";" -> "statement_end" [] c = "{" -> "start_block" [] c = "}" -> "end_block"]
TokenTypes == {"start", "normal", "start_block", "end_block", "comment",
               "statement_end", "eof", "error"}

ASSUME ConfigAssumption ==
  /\ Files \subseteq Seq(Chars)
  /\ PortKey \in Seq(Chars) /\ PortKey # <<>>
  /\ DOMAIN Stoi \subseteq Seq(Chars) /\ <<>> \notin DOMAIN Stoi
  /\ \A t \in DOMAIN Stoi : Stoi[t] \in Int

VARIABLES
  text, pos,            \* the file, and the characters taken from it
  state, value,         \* ParseToken's automaton, and the token's characters
  token_type,           \* what ParseToken returned, or "none" while it runs
  last_token_type,
  blocks,               \* the NginxConfig objects, each a sequence of statements
  config_stack, block_counter,
  phase,                \* "open", "parse", "parsed", "listening", or "exited"
  returned,             \* what Parse returned, or "none"
  port_num,
  seen                  \* the tokens Parse accepted, comments left out (a history)

lexer == <<pos, state, value, token_type>>
tree  == <<blocks, config_stack, block_counter>>
parse == <<last_token_type, tree, seen>>
main_ == <<phase, returned, port_num>>
vars  == <<text, lexer, parse, main_>>

Top == config_stack[Len(config_stack)]

Init ==
  /\ text \in Files /\ pos = 0
  /\ state = "whitespace" /\ value = <<>> /\ token_type = "none"
  /\ last_token_type = "start" /\ seen = <<>>
  /\ blocks = << <<>> >> /\ config_stack = <<1>> /\ block_counter = 0
  /\ phase = "open" /\ returned = "none" /\ port_num = -1

(* Parse(file_name): the file can be opened, or false is returned. *)
Open ==
  /\ phase = "open" /\ phase' = "parse"
  /\ UNCHANGED <<text, lexer, parse, returned, port_num>>

OpenFails ==
  /\ phase = "open" /\ phase' = "parsed" /\ returned' = "false"
  /\ UNCHANGED <<text, lexer, parse, port_num>>

-----------------------------------------------------------------------------
(* ParseToken. *)

\* What a character leads to; a token that goes on has the type "none".
Moves(s, type, v) == state' = s /\ token_type' = type /\ value' = v

Whitespace(c) ==
  /\ state = "whitespace"
  /\ \/ c \in Blanks /\ Moves(state, "none", value)
     \/ c \in DOMAIN Punctuation /\ Moves(state, Punctuation[c], <<c>>)
     \/ c \in Quotes /\ Moves(c, "none", <<c>>)
     \/ c = "#" /\ Moves("comment", "none", <<c>>)
     \/ /\ c \notin Blanks \cup DOMAIN Punctuation \cup Quotes \cup {"#"}
        /\ Moves("normal", "none", Append(value, c))

\* A faulty variant: the quote that ends the token is not kept.
QuoteDropped(c) ==
  /\ state \in Quotes
  /\ IF c = state THEN Moves(state, "normal", value) ELSE Moves(state, "none", Append(value, c))

Quote(c) ==
  /\ state \in Quotes
  /\ Moves(state, IF c = state THEN "normal" ELSE "none", Append(value, c))

Comment(c) ==
  /\ state = "comment"
  /\ IF c \in {"lf", "cr"} THEN Moves(state, "comment", value)
                           ELSE Moves(state, "none", Append(value, c))

\* A carriage return ends no word: the code tests for '\t' twice.
EndsWord(c) == c \in {" ", "tab", "lf"} \cup DOMAIN Punctuation

Word(c) ==
  /\ state = "normal"
  /\ IF EndsWord(c) THEN Moves(state, "normal", value) ELSE Moves(state, "none", Append(value, c))

\* input->get(); the character after a word is put back with input->unget().
ParseToken ==
  /\ phase = "parse" /\ token_type = "none" /\ pos < Len(text)
  /\ LET c == text[pos + 1]
     IN  /\ Whitespace(c) \/ Quote(c) \/ Comment(c) \/ Word(c)
         /\ pos' = IF state = "normal" /\ EndsWord(c) THEN pos ELSE pos + 1
  /\ UNCHANGED <<text, parse, main_>>

EndOfFile ==
  /\ phase = "parse" /\ token_type = "none" /\ pos = Len(text)
  /\ token_type' = IF state \in Quotes THEN "error" ELSE "eof"
  /\ UNCHANGED <<text, pos, state, value, parse, main_>>

-----------------------------------------------------------------------------
(* Parse, with the token. *)

\* The tokens that may come before one of the given type.
Before(type) ==
  CASE type = "normal" -> {"start", "statement_end", "start_block", "end_block", "normal"}
    [] type \in {"statement_end", "start_block"} -> {"normal"}
    [] type = "end_block" -> {"statement_end", "start_block", "end_block"}
    [] type = "eof" -> {"statement_end", "end_block", "start"}
    [] OTHER -> {}

\* A faulty variant: the file may end in a block.
TransitionUnclosed ==
  last_token_type \in Before(token_type) /\ (token_type = "end_block" => block_counter > 0)

Transition ==
  /\ last_token_type \in Before(token_type)
  /\ token_type = "end_block" => block_counter > 0
  /\ token_type = "eof" => block_counter = 0

Given(type) == phase = "parse" /\ token_type = type /\ Transition

\* The loop goes round, with a new token.
Accept ==
  /\ last_token_type' = token_type /\ seen' = Append(seen, <<token_type, value>>)
  /\ state' = "whitespace" /\ value' = <<>> /\ token_type' = "none"
  /\ UNCHANGED <<text, pos, main_>>

SkipComment ==
  /\ phase = "parse" /\ token_type = "comment"
  /\ state' = "whitespace" /\ value' = <<>> /\ token_type' = "none"
  /\ UNCHANGED <<text, pos, parse, main_>>

Statement(token) == [tokens |-> <<token>>, child_block_ |-> 0]

Normal ==
  /\ Given("normal") /\ Accept
  /\ LET block == blocks[Top]
         grown == [block EXCEPT ![Len(block)].tokens = Append(@, value)]
     IN  blocks' = [blocks EXCEPT ![Top] =
           IF last_token_type # "normal" THEN Append(block, Statement(value)) ELSE grown]
  /\ UNCHANGED <<config_stack, block_counter>>

StatementEnd == Given("statement_end") /\ Accept /\ UNCHANGED tree

\* A faulty variant: the new block is pushed and never made the child.
StartBlockLoose ==
  /\ Given("start_block") /\ Accept
  /\ blocks' = Append(blocks, <<>>)
  /\ config_stack' = Append(config_stack, Len(blocks) + 1) /\ block_counter' = block_counter + 1

StartBlock ==
  /\ Given("start_block") /\ Accept
  /\ LET new_config == Len(blocks) + 1
     IN  /\ blocks' = Append([blocks EXCEPT ![Top][Len(blocks[Top])].child_block_ = new_config],
                             <<>>)
         /\ config_stack' = Append(config_stack, new_config)
  /\ block_counter' = block_counter + 1

EndBlock ==
  /\ Given("end_block") /\ Accept
  /\ config_stack' = Front(config_stack) /\ block_counter' = block_counter - 1
  /\ UNCHANGED blocks

Eof ==
  /\ Given("eof")
  /\ phase' = "parsed" /\ returned' = "true"
  /\ UNCHANGED <<text, lexer, parse, port_num>>

BadTransition ==
  /\ phase = "parse" /\ token_type \notin {"none", "comment"} /\ ~Transition
  /\ phase' = "parsed" /\ returned' = "false"
  /\ UNCHANGED <<text, lexer, parse, port_num>>

-----------------------------------------------------------------------------
\* std::string GetConfig(key) returns the first of these: the tokens that follow the key in a
\* statement, before those in its child block.
Following(tokens, key) ==
  FlattenSeq([n \in DOMAIN tokens |->
    IF n > 1 /\ tokens[n - 1] = key THEN <<tokens[n]>> ELSE <<>>])

\* A faulty variant: a child block is searched before its own statement.
GetConfigChildFirst(key) ==
  LET found[b \in DOMAIN blocks] ==
        FlattenSeq([s \in DOMAIN blocks[b] |->
          (IF blocks[b][s].child_block_ = 0 THEN <<>> ELSE found[blocks[b][s].child_block_])
            \o Following(blocks[b][s].tokens, key)])
  IN  IF found[1] = <<>> THEN <<>> ELSE Head(found[1])

GetConfig(key) ==
  LET found[b \in DOMAIN blocks] ==
        FlattenSeq([s \in DOMAIN blocks[b] |->
          Following(blocks[b][s].tokens, key)
            \o (IF blocks[b][s].child_block_ = 0 THEN <<>> ELSE found[blocks[b][s].child_block_])])
  IN  IF found[1] = <<>> THEN <<>> ELSE Head(found[1])

\* The conversion to a 16-bit short.
Short(n) == ((n + 32768) % 65536) - 32768
GetPort(token) == IF token \in DOMAIN Stoi THEN Short(Stoi[token]) ELSE -1

(* The rest of GetPort, and main's check of the port. *)
main ==
  /\ phase = "parsed"
  /\ port_num' = GetPort(GetConfig(PortKey))
  /\ phase' = IF port_num' < 0 THEN "exited" ELSE "listening"
  /\ UNCHANGED <<text, lexer, parse, returned>>

\* What follows is in Dispatcher and Server.
Started == phase \in {"listening", "exited"} /\ UNCHANGED vars

Next ==
  \/ Open \/ OpenFails \/ ParseToken \/ EndOfFile
  \/ SkipComment \/ Normal \/ StatementEnd \/ StartBlock \/ EndBlock \/ Eof \/ BadTransition
  \/ main \/ Started

Spec == Init /\ [][Next]_vars

-----------------------------------------------------------------------------
(* Properties. *)

\* nginx_config_parser.cc:151-181: each block on the stack is the child of the
\* last statement of the block below it, and the statement a word or a "{" goes
\* to exists and has no child.  So back() and top() are always defined, and
\* reset() never destroys a block that the stack still points to.
Nested ==
  /\ Len(config_stack) = block_counter + 1 /\ config_stack[1] = 1
  /\ \A n \in 2..Len(config_stack) :
       LET below == blocks[config_stack[n - 1]]
       IN  below # <<>> /\ below[Len(below)].child_block_ = config_stack[n]
  /\ last_token_type = "normal" =>
       blocks[Top] # <<>> /\ blocks[Top][Len(blocks[Top])].child_block_ = 0

\* nginx_config.cc:32-74: whatever Parse returned, the port is the word after
\* the first "port" of the file that another word follows, as a 16-bit number,
\* and the server listens when that is not negative.
KeyAt == {n \in 1..Len(seen) - 1 : seen[n] = <<"normal", PortKey>> /\ seen[n + 1][1] = "normal"}
PortAsked ==
  phase \in {"listening", "exited"} =>
    /\ phase = "listening" <=> port_num >= 0
    /\ KeyAt = {} => port_num = -1
    /\ \A n \in KeyAt : (\A m \in KeyAt : n <= m) => port_num = GetPort(seen[n + 1][2])
=============================================================================
