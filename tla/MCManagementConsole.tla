------------------------ MODULE MCManagementConsole ------------------------
EXTENDS ManagementConsole

L(words) == [words |-> words, nl |-> TRUE]

\* Quoted words, one of 77 characters: it takes another two and a space to fill
\* a line.
OpeningWords == {"\"a", "\"77"}
QuotingWords == OpeningWords \cup {"b\""}
Sizes == [w \in QuotingWords \cup {"", "b", "bb"} |->
            CASE w = "\"77" -> 77 [] w = "" -> 0 [] w = "b" -> 1 [] OTHER -> 2]

\* Commands of every outcome; nothing, and spaces only; a quoted argument, an
\* unbalanced one, at the longest that can be marked and too long for it; a
\* line that is cut off.
Lines ==
  {L(<<"help">>), L(<<"", "USER", "LOGOUT">>), L(<<"", "">>),
   L(<<"TIME", "\"a", "b\"">>), L(<<"TIME", "\"a", "b">>),
   L(<<"TIME", "\"77", "b">>), L(<<"TIME", "\"77", "bb">>),
   [words |-> <<"USER", "">>, nl |-> FALSE]}
=============================================================================
