---------------------------- MODULE ShellParser ----------------------------
(***************************************************************************)
(* The shell's parser (user/sh.c): from a line of characters to a tree of  *)
(* commands.  A line is a sequence of characters; positions run from 1 to  *)
(* es == Len(text) + 1, where the terminating NUL is.  A parsing function  *)
(* returns whether it succeeded (panic() ends the process), where it       *)
(* stopped and what it built.                                              *)
(***************************************************************************)
EXTENDS Naturals, Sequences, FiniteSets, Functions, FiniteSetsExt

CONSTANT MAXARGS

ASSUME ShellParserAssumption == MAXARGS \in Nat \ {0}

whitespace == {" "}
symbols == {"<", "|", ">", "&", ";", "(", ")"}

End(text) == Len(text) + 1

\* The first position from s on whose character is not in skipped.
Skip(text, s, skipped) ==
    Min({i \in s..End(text) : i < End(text) => text[i] \notin skipped})

\* The first position from s on that ends a word.
WordEnd(text, s) ==
    Min({i \in s..End(text) : i < End(text) => text[i] \in whitespace \cup symbols})

\* gettoken(): the token, where its text begins and ends, where to go on.
\* q is the first position of the token, '+' the token '>>'.
TokenAt(text, q) ==
    IF q = End(text) THEN "NUL"
    ELSE IF text[q] = ">" /\ q + 1 < End(text) /\ text[q + 1] = ">" THEN "+"
    ELSE IF text[q] \in symbols THEN text[q] ELSE "a"
TokenEnd(text, q, tok) ==
    CASE tok = "NUL" -> q
      [] tok = "+"   -> q + 2
      [] tok = "a"   -> WordEnd(text, q)
      [] OTHER       -> q + 1
Token(text, q, tok, eq) == [tok |-> tok, q |-> q, eq |-> eq, s |-> Skip(text, eq, whitespace)]
TokenFrom(text, q) == Token(text, q, TokenAt(text, q), TokenEnd(text, q, TokenAt(text, q)))
gettoken(text, s) == TokenFrom(text, Skip(text, s, whitespace))

peek(text, s, toks) ==
    LET i == Skip(text, s, whitespace) IN i < End(text) /\ text[i] \in toks

----------------------------------------------------------------------------
(***************************************************************************)
(* The constructors.                                                       *)
(***************************************************************************)
execcmd(argv) == [type |-> "EXEC", argv |-> argv]
redircmd(sub, file, fd) == [type |-> "REDIR", cmd |-> sub, file |-> file, fd |-> fd]
pipecmd(l, r) == [type |-> "PIPE", left |-> l, right |-> r]
listcmd(l, r) == [type |-> "LIST", left |-> l, right |-> r]
backcmd(sub)  == [type |-> "BACK", cmd |-> sub]

Parsed(s, cmd) == [ok |-> TRUE, s |-> s, cmd |-> cmd]
panic == [ok |-> FALSE, s |-> 0, cmd |-> execcmd(<<>>)]

\* parseredirs(): the redirections found, in order; f is the token after the
\* symbol.  '>' and '>>' are the same: O_WRONLY|O_CREATE on descriptor 1.
RECURSIVE parseredirs(_, _, _)
Redirection(text, found, symbol, f) ==
    IF f.tok # "a" THEN [ok |-> FALSE, s |-> 0, found |-> <<>>]
    ELSE parseredirs(text,
                     Append(found, [file |-> [q |-> f.q, eq |-> f.eq],
                                    fd |-> IF symbol = "<" THEN 0 ELSE 1]),
                     f.s)
parseredirs(text, found, s) ==
    IF ~peek(text, s, {"<", ">"}) THEN [ok |-> TRUE, s |-> s, found |-> found]
    ELSE Redirection(text, found, gettoken(text, s).tok,
                     gettoken(text, gettoken(text, s).s))

\* cmd under the redirections: the first one is innermost.
RECURSIVE Wrap(_, _)
Wrap(cmd, found) ==
    IF found = <<>> THEN cmd
    ELSE Wrap(redircmd(cmd, Head(found).file, Head(found).fd), Tail(found))

\* A command under its redirections, if those are well formed.
Redirected(cmd, rd) == IF rd.ok THEN Parsed(rd.s, Wrap(cmd, rd.found)) ELSE panic

\* The loop of parseexec(): words and redirections in any order; t is the
\* token after the redirections rd.
RECURSIVE Arguments(_, _, _)
Argument(text, argv, rd, t) ==
    IF t.tok # "a" \/ Len(argv) + 1 >= MAXARGS THEN panic
    ELSE Arguments(text, Append(argv, [q |-> t.q, eq |-> t.eq]),
                   parseredirs(text, rd.found, t.s))
Arguments(text, argv, rd) ==
    IF ~rd.ok \/ peek(text, rd.s, {"|", ")", "&", ";"}) \/ gettoken(text, rd.s).tok = "NUL"
    THEN Redirected(execcmd(argv), rd)
    ELSE Argument(text, argv, rd, gettoken(text, rd.s))

\* What is parsed up to r, as cmd.
Upto(r, cmd) == IF r.ok THEN Parsed(r.s, cmd) ELSE panic

RECURSIVE parseline(_, _)
RECURSIVE parsepipe(_, _)

Block(text, body) ==
    IF body.ok /\ peek(text, body.s, {")"})
    THEN Redirected(body.cmd, parseredirs(text, <<>>, gettoken(text, body.s).s))
    ELSE panic
parseblock(text, s) == Block(text, parseline(text, gettoken(text, s).s))

parseexec(text, s) ==
    IF peek(text, s, {"("}) THEN parseblock(text, s)
    ELSE Arguments(text, <<>>, parseredirs(text, <<>>, s))

\* l, and what follows it after a '|'.
PipeInto(l, r) == Upto(r, pipecmd(l.cmd, r.cmd))
Piped(text, l) ==
    IF l.ok /\ peek(text, l.s, {"|"})
    THEN PipeInto(l, parsepipe(text, gettoken(text, l.s).s)) ELSE l
parsepipe(text, s) == Piped(text, parseexec(text, s))

RECURSIVE Backs(_, _)
Backs(text, p) ==
    IF p.ok /\ peek(text, p.s, {"&"})
    THEN Backs(text, Parsed(gettoken(text, p.s).s, backcmd(p.cmd))) ELSE p

\* l, and what follows it after a ';'.
ListThen(l, r) == Upto(r, listcmd(l.cmd, r.cmd))
Listed(text, l) ==
    IF l.ok /\ peek(text, l.s, {";"})
    THEN ListThen(l, parseline(text, gettoken(text, l.s).s)) ELSE l
parseline(text, s) == Listed(text, Backs(text, parsepipe(text, s)))

----------------------------------------------------------------------------
(***************************************************************************)
(* nulterminate(): a NUL after every word of the tree turns the positions  *)
(* into strings.                                                           *)
(***************************************************************************)
RECURSIVE WordEnds(_)
WordEnds(cmd) ==
    CASE cmd.type = "EXEC"  -> {cmd.argv[i].eq : i \in DOMAIN cmd.argv}
      [] cmd.type = "REDIR" -> WordEnds(cmd.cmd) \cup {cmd.file.eq}
      [] cmd.type = "BACK"  -> WordEnds(cmd.cmd)
      [] OTHER              -> WordEnds(cmd.left) \cup WordEnds(cmd.right)

\* The string at a position of the line that has NULs at ends.
String(text, ends, word) ==
    SubSeq(text, word.q, Min({i \in ends \cup {End(text)} : i >= word.q}) - 1)

RECURSIVE Strings(_, _, _)
Strings(text, ends, cmd) ==
    CASE cmd.type = "EXEC"  -> execcmd([i \in DOMAIN cmd.argv |->
                                            String(text, ends, cmd.argv[i])])
      [] cmd.type = "REDIR" -> redircmd(Strings(text, ends, cmd.cmd),
                                        String(text, ends, cmd.file), cmd.fd)
      [] cmd.type = "BACK"  -> backcmd(Strings(text, ends, cmd.cmd))
      [] OTHER -> [cmd EXCEPT !.left  = Strings(text, ends, @),
                              !.right = Strings(text, ends, @)]

nulterminate(text, cmd) == Strings(text, WordEnds(cmd), cmd)

Whole(text, p) ==
    IF p.ok /\ Skip(text, p.s, whitespace) = End(text)
    THEN Parsed(p.s, nulterminate(text, p.cmd)) ELSE panic
parsecmd(text) == Whole(text, parseline(text, 1))

----------------------------------------------------------------------------
(***************************************************************************)
(* The reference: the grammar read the other way.  A line is pipelines,    *)
(* each put in the background or not, separated by ';'; a pipeline is      *)
(* simple commands or parenthesised lines, separated by '|'.               *)
(***************************************************************************)
Parens(t) == <<"(">> \o t \o <<")">>

RECURSIVE Words(_)
Words(ws) == IF ws = <<>> THEN <<>> ELSE Head(ws) \o <<" ">> \o Words(Tail(ws))

RECURSIVE Simple(_)
Simple(cmd) == cmd.type = "EXEC" \/ (cmd.type = "REDIR" /\ Simple(cmd.cmd))

RECURSIVE LineOf(_)
RECURSIVE UnitOf(_)
UnitOf(cmd) ==
    CASE cmd.type = "EXEC" -> Words(cmd.argv)
      [] cmd.type = "REDIR" ->
            (IF Simple(cmd.cmd) \/ cmd.cmd.type = "REDIR" THEN UnitOf(cmd.cmd)
             ELSE Parens(LineOf(cmd.cmd)))
            \o <<IF cmd.fd = 0 THEN "<" ELSE ">">> \o cmd.file
      [] OTHER -> Parens(LineOf(cmd))

RECURSIVE PipelineOf(_)
PipelineOf(cmd) ==
    IF cmd.type = "PIPE" THEN UnitOf(cmd.left) \o <<"|">> \o PipelineOf(cmd.right)
    ELSE UnitOf(cmd)

RECURSIVE JobOf(_)
JobOf(cmd) ==
    IF cmd.type = "BACK" THEN JobOf(cmd.cmd) \o <<"&">> ELSE PipelineOf(cmd)

LineOf(cmd) ==
    IF cmd.type = "LIST" THEN JobOf(cmd.left) \o <<";">> \o LineOf(cmd.right)
    ELSE JobOf(cmd)

\* How often c occurs in a line, '>>' counting as one '>'.
Count(text, c) ==
    Cardinality({i \in DOMAIN text :
        text[i] = c /\ ~(c = ">" /\ i > 1 /\ text[i - 1] = ">")})

RECURSIVE AllWords(_)
AllWords(cmd) ==
    CASE cmd.type = "EXEC"  -> {cmd.argv[i] : i \in DOMAIN cmd.argv}
      [] cmd.type = "REDIR" -> AllWords(cmd.cmd) \cup {cmd.file}
      [] cmd.type = "BACK"  -> AllWords(cmd.cmd)
      [] OTHER              -> AllWords(cmd.left) \cup AllWords(cmd.right)

\* The tree a line was parsed to says what the line says: writing it out
\* gives the characters of the line, apart from blanks and parentheses, no
\* word has swallowed a symbol, and reading it again gives the same tree.
Faithful(text, cmd) ==
    LET again == LineOf(cmd)
    IN  /\ \A c \in (Range(text) \cup Range(again)) \ {" ", "(", ")"} :
              Count(text, c) = Count(again, c)
        /\ \A word \in AllWords(cmd) :
              word # <<>> /\ Range(word) \cap (symbols \cup whitespace) = {}
        /\ parsecmd(again).cmd = cmd
============================================================================
