-------------------------- MODULE ConfigRoundTrip --------------------------
(***************************************************************************)
(* ConfigParser against a grammar of configurations, and against           *)
(* NginxConfig::ToString (nginx_config.cc:23-29): what Parse accepted is   *)
(* written out and parsed once more.                                       *)
(***************************************************************************)
EXTENDS ConfigParser

VARIABLE first   \* the blocks of the first parse, once it was written out

\* NginxConfigStatement::ToString, given the text of the child block.
Indent(depth) == FlattenSeq([n \in 1..depth |-> <<" ", " ">>])
Spaced(tokens) == FlattenSeq([n \in DOMAIN tokens |-> (IF n = 1 THEN <<>> ELSE <<" ">>) \o tokens[n]])

StatementText(st, depth, child) ==
  Indent(depth) \o Spaced(st.tokens)
    \o (IF st.child_block_ = 0 THEN <<";">>
        ELSE <<" ", "{", "lf">> \o child \o Indent(depth) \o <<"}">>)
    \o <<"lf">>

ConfigText ==
  LET written[b \in DOMAIN blocks, depth \in 0..Len(blocks)] ==
        FlattenSeq([s \in DOMAIN blocks[b] |->
          LET st == blocks[b][s]
          IN  StatementText(st, depth, IF st.child_block_ = 0 THEN <<>>
                                       ELSE written[st.child_block_, depth + 1])])
  IN  written[1, 0]

\* A new NginxConfig is parsed from what ToString returned.
Serialize ==
  /\ phase \in {"listening", "exited"} /\ returned = "true" /\ first = <<>>
  /\ first' = blocks /\ text' = ConfigText
  /\ pos' = 0 /\ state' = "whitespace" /\ value' = <<>> /\ token_type' = "none"
  /\ last_token_type' = "start" /\ seen' = <<>>
  /\ blocks' = << <<>> >> /\ config_stack' = <<1>> /\ block_counter' = 0
  /\ phase' = "parse" /\ returned' = "none" /\ port_num' = -1

RoundTripInit == Init /\ first = <<>>
RoundTripNext == (Next /\ UNCHANGED first) \/ Serialize

RoundTripSpec == RoundTripInit /\ [][RoundTripNext]_<<vars, first>>

-----------------------------------------------------------------------------
\* The reference grammar: a configuration is statements one after another, and a
\* statement is words and then ";" or a configuration in braces.  The first
\* statement of s is its first n tokens, of which the first k are the words.
GrammarTypes == {"normal", "statement_end", "start_block", "end_block"}

IsConfig[s \in Seq(GrammarTypes)] ==
  s = <<>> \/ \E k, n \in DOMAIN s :
    /\ k < n /\ \A i \in 1..k : s[i] = "normal"
    /\ \/ k + 1 = n /\ s[n] = "statement_end"
       \/ /\ k + 2 <= n /\ s[k + 1] = "start_block" /\ s[n] = "end_block"
          /\ IsConfig[SubSeq(s, k + 2, n - 1)]
    /\ IsConfig[SubSeq(s, n + 1, Len(s))]

Read == [n \in DOMAIN seen |-> seen[n][1]]

\* What may follow tokens that are part of a configuration.
Completions ==
  {start \o [n \in 1..closing |-> "end_block"] :
     start \in {<<>>, <<"statement_end">>, <<"normal", "statement_end">>},
     closing \in 0..Len(blocks)}

\* nginx_config_parser.cc:122-198: the tokens that ParseToken returned are taken
\* one by one as long as some configuration begins with them; Parse returns true
\* when they are one at the file's end, and false when they are not, or when no
\* configuration begins with them and the next one.
AcceptsGrammar ==
  /\ returned = "none" => \E c \in Completions : IsConfig[Read \o c]
  /\ returned = "true" => IsConfig[Read]
  /\ returned = "false" /\ token_type = "eof" => ~IsConfig[Read]
  /\ returned = "false" /\ token_type \notin {"none", "eof", "error"} =>
       \A c \in Completions : ~IsConfig[Append(Read, token_type) \o c]

\* nginx_config.cc:23-29 and nginx_config_statement.cc:21-44: what ToString
\* writes of a parsed configuration parses to the same configuration: the same
\* words, quotes and all, in the same statements and blocks.
RoundTrip == first # <<>> /\ returned # "none" => returned = "true" /\ blocks = first
=============================================================================
