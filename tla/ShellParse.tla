----------------------------- MODULE ShellParse -----------------------------
(***************************************************************************)
(* What the shell makes of a line (shell/parse.rs): words with quotes and  *)
(* variables, stages and redirections.  A text is a sequence of            *)
(* characters.                                                             *)
(***************************************************************************)
EXTENDS Integers, Sequences, SequencesExt

CONSTANTS
    Vars,  \* the variables: from names to values
    Home   \* where ~ leads

Alnum == {"a", "b", "A", "1", "2", "_"}
Env(name) == IF name \in DOMAIN Vars THEN Vars[name] ELSE <<>>

\* The first place from which on c stands, one past the end where it does not.
Close(text, from, c) ==
    LET all == {p \in from .. Len(text) : text[p] = c}
    IN  IF all = {} THEN Len(text) + 1 ELSE CHOOSE p \in all : \A q \in all : p <= q
NameEnd(text, from) ==
    LET all == {p \in from .. Len(text) : text[p] \notin Alnum}
    IN  IF all = {} THEN Len(text) + 1 ELSE CHOOSE p \in all : \A q \in all : p <= q

\* $NAME, ${NAME} and %NAME%; a sign that starts none of them stands for itself.
ExpandAt(text, s) ==
    LET i      == s.at
        braced == i < Len(text) /\ text[i + 1] = "{"
        from   == IF braced THEN i + 2 ELSE i + 1
        end    == CASE text[i] = "%" -> Close(text, i + 1, "%")
                    [] braced -> Close(text, from, "}")
                    [] OTHER -> NameEnd(text, from)
        name   == SubSeq(text, from, end - 1)
        closed == (text[i] = "$" /\ ~braced) \/ end <= Len(text)
        named  == name # <<>> /\ closed /\ (text[i] = "%" => ToSet(name) \subseteq Alnum)
    IN  IF text[i] \in {"$", "%"} /\ named
        THEN [at |-> IF text[i] = "$" /\ ~braced THEN end ELSE end + 1, out |-> s.out \o Env(name)]
        ELSE [at |-> i + 1, out |-> Append(s.out, text[i])]
Expand(text) ==
    FoldLeft(LAMBDA s, c : IF s.at > Len(text) THEN s ELSE ExpandAt(text, s),
             [at |-> 1, out |-> <<>>], text).out

ExpandHome(word) ==
    IF word = <<"~">> \/ (Len(word) > 1 /\ word[1] = "~" /\ word[2] \in {"\\", "/"})
    THEN Home \o Tail(word) ELSE word

(***************************************************************************)
(* tokenize: a word is collected over quoted and bare pieces, and only the *)
(* bare ones and those in double quotes are expanded.                      *)
(***************************************************************************)
TakeRaw(s) == [s EXCEPT !.word = @ \o Expand(s.raw), !.raw = <<>>]
Flush(s) ==
    LET t == TakeRaw(s)
    IN  IF ~t.had THEN t
        ELSE [t EXCEPT !.tokens = Append(@, <<"word", IF t.quoted THEN t.word ELSE ExpandHome(t.word)>>),
                       !.word = <<>>, !.had = FALSE, !.quoted = FALSE]
Token(s, t, n) == [Flush(s) EXCEPT !.tokens = Append(@, t), !.at = s.at + n]

\* Bug: what single quotes hold is expanded like the rest.
QuotedExpanding(line, s) ==
    LET end == Close(line, s.at + 1, line[s.at])
        t   == TakeRaw(s)
    IN  IF end > Len(line) THEN [s EXCEPT !.error = TRUE]
        ELSE [t EXCEPT !.word = @ \o Expand(SubSeq(line, s.at + 1, end - 1)),
                       !.had = TRUE, !.quoted = TRUE, !.at = end + 1]

Quoted(line, s) ==
    LET end   == Close(line, s.at + 1, line[s.at])
        inner == SubSeq(line, s.at + 1, end - 1)
        t     == TakeRaw(s)
    IN  IF end > Len(line) THEN [s EXCEPT !.error = TRUE]
        ELSE [t EXCEPT !.word = @ \o (IF line[s.at] = "'" THEN inner ELSE Expand(inner)),
                       !.had = TRUE, !.quoted = TRUE, !.at = end + 1]

TokenAt(line, s) ==
    LET c == line[s.at]
        is(k, d) == s.at + k <= Len(line) /\ line[s.at + k] = d
    IN  CASE c = " " -> [Flush(s) EXCEPT !.at = @ + 1]
          [] c \in {"'", "\""} -> Quoted(line, s)
          [] c = "|" -> Token(s, <<"pipe">>, 1)
          [] c = "<" -> Token(s, <<"op", "<">>, 1)
          [] c = ">" /\ is(1, ">") -> Token(s, <<"op", ">>">>, 2)
          [] c = ">" /\ ~is(1, ">") -> Token(s, <<"op", ">">>, 1)
          [] c = "2" /\ ~s.had /\ s.raw = <<>> /\ is(1, ">") ->
                IF is(2, "&") /\ is(3, "1") THEN Token(s, <<"errToOut">>, 4)
                ELSE IF is(2, ">") THEN Token(s, <<"op", "2>>">>, 3) ELSE Token(s, <<"op", "2>">>, 2)
          [] OTHER -> [s EXCEPT !.raw = Append(@, c), !.had = TRUE, !.at = @ + 1]
Tokenize(line) ==
    LET end == FoldLeft(LAMBDA s, c : IF s.error \/ s.at > Len(line) THEN s ELSE TokenAt(line, s),
                        [at |-> 1, tokens |-> <<>>, word |-> <<>>, raw |-> <<>>,
                         had |-> FALSE, quoted |-> FALSE, error |-> FALSE], line)
    IN  [tokens |-> Flush(end).tokens, error |-> end.error]

(***************************************************************************)
(* parse: stages between pipes, each with its words and redirections.      *)
(***************************************************************************)
NoCommand == [words |-> <<>>, redirects |-> <<>>]
ParseToken(s, t) ==
    CASE s.error -> s
      [] ~s.error /\ s.op # "" ->
            IF t[1] = "word"
            THEN [s EXCEPT !.current.redirects = Append(@, <<s.op, t[2]>>), !.op = ""]
            ELSE [s EXCEPT !.error = TRUE]
      [] ~s.error /\ s.op = "" /\ t[1] = "op" -> [s EXCEPT !.op = t[2]]
      [] ~s.error /\ s.op = "" /\ t[1] = "word" -> [s EXCEPT !.current.words = Append(@, t[2])]
      [] ~s.error /\ s.op = "" /\ t[1] = "errToOut" ->
            [s EXCEPT !.current.redirects = Append(@, <<"2>&1">>)]
      [] ~s.error /\ s.op = "" /\ t[1] = "pipe" ->
            IF s.current.words = <<>> THEN [s EXCEPT !.error = TRUE]
            ELSE [s EXCEPT !.commands = Append(@, s.current), !.current = NoCommand]

Failed == [commands |-> <<>>, error |-> TRUE]
Parse(line) ==
    LET lexed == Tokenize(line)
        end   == FoldLeft(ParseToken, [commands |-> <<>>, current |-> NoCommand, op |-> "",
                                       error |-> FALSE], lexed.tokens)
        loose == end.current # NoCommand \/ end.commands # <<>>
    IN  CASE lexed.error \/ end.error \/ end.op # "" -> Failed
          [] end.current.words = <<>> /\ loose -> Failed
          [] end.current.words = <<>> /\ ~loose -> [commands |-> <<>>, error |-> FALSE]
          [] OTHER -> [commands |-> Append(end.commands, end.current), error |-> FALSE]

(***************************************************************************)
(* A pipeline as a careful user writes it: every word in single quotes.    *)
(***************************************************************************)
Written(words) == FlattenSeq([i \in DOMAIN words |-> <<"'">> \o words[i] \o <<"'", " ">>])
Signs == [r \in {">", ">>", "2>", "2>>", "<", "2>&1"} |->
            CASE r = ">>" -> <<">", ">">> [] r = "2>" -> <<"2", ">">>
              [] r = "2>>" -> <<"2", ">", ">">> [] r = "2>&1" -> <<"2", ">", "&", "1", " ">>
              [] OTHER -> <<r>>]
WrittenCommand(c) ==
    Written(c.words) \o FlattenSeq([i \in DOMAIN c.redirects |->
        Signs[c.redirects[i][1]] \o (IF Len(c.redirects[i]) = 2 THEN Written(<<c.redirects[i][2]>>) ELSE <<>>)])
WrittenPipeline(p) ==
    FlattenSeq([i \in DOMAIN p |-> (IF i = 1 THEN <<>> ELSE <<"|">>) \o WrittenCommand(p[i])])

\* README: "A `$` inside single quotes survives": whatever the words are, a
\* quoted pipeline is run as it was meant, with no word split, joined, expanded
\* or taken for an operator.
QuotedAsMeant(p) == Parse(WrittenPipeline(p)) = [commands |-> p, error |-> FALSE]

\* The value of a variable is one word, or a part of one, whatever is in it:
\* a blank or a sign in it cuts nothing.
ExpandedIsOneWord(name) ==
    name # <<>> /\ ToSet(name) \subseteq Alnum =>
    \A form \in {<<"$">> \o name, <<"$", "{">> \o name \o <<"}">>, <<"%">> \o name \o <<"%">>,
                 <<"\"", "$">> \o name \o <<"\"">>} :
        LET p == Parse(<<"b", " ">> \o form)
        IN  ~p.error /\ Len(p.commands) = 1 /\ p.commands[1].words = <<<<"b">>, Env(name)>>
=============================================================================
