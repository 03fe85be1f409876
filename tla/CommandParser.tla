--------------------------- MODULE CommandParser ---------------------------
(****************************************************************************)
(* parse_command and generate_nice_error_msg                                *)
(* (daemon/interface/utils/command_parser.cc).                              *)
(*                                                                          *)
(* A line is the sequence of what its spaces separate (two spaces in a row  *)
(* enclose the word Blank) and whether a newline ends it: of the characters *)
(* of a word the parser only looks at quotes, and the error message at      *)
(* their number.                                                            *)
(****************************************************************************)
EXTENDS SequencesExt

CONSTANTS Opening,   \* words whose first character is a double quote
          Quoting,   \* words with a double quote anywhere
          Size       \* the number of characters of a word

ASSUME QuoteAssumption == Opening \subseteq Quoting

Blank == ""

\* input.erase(0, find_first_not_of(' ')) and erase(find_last_not_of(' ') + 1):
\* behind the last space of a line that ends in a newline stands the newline,
\* so the second call leaves its trailing spaces alone.
Words(line) == {i \in 1 .. Len(line.words) : line.words[i] # Blank}

Trimmed(line) ==
  IF Words(line) = {} THEN << >>
  ELSE SubSeq(line.words, Min(Words(line)),
              IF line.nl THEN Len(line.words) ELSE Max(Words(line)))

\* The arguments at which the loop meets a quote with a space behind it.
QuotedAt(args) == {i \in 1 .. Len(args) - 1 : args[i] \in Opening}

\* The length of the arguments from the i-th on, with the spaces between them.
LengthFrom(args, i) ==
  FoldLeft(LAMBDA n, word : n + Size[word], Len(args) - i, SubSeq(args, i, Len(args)))

\* The search for the second quote begins behind the space.  When it finds one
\* the argument is stored, but not taken off the input: the loop stores it
\* again, without end.  When it finds none, the message marks the place of the
\* space; if what is left fills a line and the mark is behind the 77 characters
\* that are shown of it, its width wraps around, or is one less than zero, and
\* std::string refuses the length.
QuoteStatus(args, i) ==
  CASE \E j \in i + 1 .. Len(args) : args[j] \in Quoting   -> "diverges"
    [] /\ \A j \in i + 1 .. Len(args) : args[j] \notin Quoting
       /\ LengthFrom(args, i) >= 80 /\ Size[args[i]] >= 77 -> "throws"
    [] OTHER                                               -> "unbalanced"

parse_command(line) ==
  LET input == Trimmed(line)
      args  == Tail(input)
  IN  IF input = << >>
      THEN [status |-> "empty", command |-> Blank, args |-> << >>]
      ELSE [status  |-> IF QuotedAt(args) = {} THEN "ok"
                        ELSE QuoteStatus(args, Min(QuotedAt(args))),
            command |-> Head(input),
            args    |-> args]
=============================================================================
