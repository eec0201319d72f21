------------------------------- MODULE Shell -------------------------------
(***************************************************************************)
(* The shell at work (user/sh.c): main() reads a line, forks a process to  *)
(* parse and run it, and waits; runcmd() wires up and forks the processes  *)
(* of the tree.                                                            *)
(*                                                                         *)
(* todo[p] is the calls that process p has still to make, one action each. *)
(* A process is known by its slot; a pipe by the path in the tree of the   *)
(* PIPE node that made it.                                                 *)
(***************************************************************************)
EXTENDS ShellParser, SequencesExt

CONSTANTS
    NPROC,      \* the processes there can be
    Lines,      \* what may be typed
    Filters,    \* the programs that read their input to its end
    Missing     \* names of files and programs that do not exist

ASSUME ShellAssumption ==
    /\ NPROC \in Nat /\ NPROC > 1
    /\ \A t \in Lines : t \in Seq(STRING)
    /\ Filters \subseteq Seq(STRING) /\ Missing \subseteq Seq(STRING)

Procs == 1..NPROC
Main  == 1
NOFILE == 5

VARIABLES
    todo,       \* the calls still to be made; <<>> for a zombie
    parent,     \* the parent; 0 for an unused slot
    fds,        \* the open files of each process
    p01,        \* the descriptors pipe() returned in the local p[2]
    line,       \* what was typed
    parsed,     \* what the parser makes of it
    ran, done,  \* the programs that were started, and the leaves that ended
    failed,     \* a call of the shell has failed
    cut         \* history: the PIPE nodes whose second fork1() has failed

vars == <<todo, parent, fds, p01, line, parsed, ran, done, failed, cut>>

Closed  == [kind |-> "none", of |-> <<>>]
Console == [kind |-> "console", of |-> <<>>]
File(name) == [kind |-> "file", of |-> name]
Pipe(end, path) == [kind |-> end, of |-> path]

\* The lowest free descriptors, as the kernel hands them out.
Free(f) == {i \in DOMAIN f : f[i] = Closed}
Second(f) == Min(Free(f) \ {Min(Free(f))})

----------------------------------------------------------------------------
(***************************************************************************)
(* The calls.  P0 and P1 stand for the descriptors in p[0] and p[1].       *)
(***************************************************************************)
P0 == NOFILE
P1 == NOFILE + 1
Close(d)       == [op |-> "close", fd |-> d]
Dup(d)         == [op |-> "dup", fd |-> d]
Open(file, fd) == [op |-> "open", file |-> file, fd |-> fd]
MakePipe(path) == [op |-> "pipe", path |-> path]
Fork(code)     == [op |-> "fork", code |-> code]
Wait           == [op |-> "wait"]
Exit           == [op |-> "exit"]
Run(cmd, path) == [op |-> "run", cmd |-> cmd, path |-> path]
Exec(argv, path) == [op |-> "exec", argv |-> argv, path |-> path]
Program(name, path) == [op |-> "program", name |-> name, path |-> path]

\* What the process that made a pipe still has open after its forks.
\* Mutant: it keeps the write end.
KeepsWriteEnd == <<Close(P0)>>
ClosesPipe == <<Close(P0), Close(P1)>>

\* The ends a child of a pipe takes for its output (1) or input (0).
TakesEnd(d, end) == <<Close(d), Dup(end)>> \o <<Close(P0), Close(P1)>>

\* The LIST case of runcmd().  Mutant: the second does not wait for the first.
RunListAtOnce(cmd, L, R) == <<Fork(<<Run(cmd.left, L)>>), Run(cmd.right, R)>>
RunList(cmd, L, R) == <<Fork(<<Run(cmd.left, L)>>), Wait, Run(cmd.right, R)>>

\* runcmd().
runcmd(cmd, path) ==
    LET L == Append(path, "L")
        R == Append(path, "R")
    IN  CASE cmd.type = "EXEC" ->
                IF cmd.argv = <<>> THEN <<Exit>> ELSE <<Exec(cmd.argv, path), Exit>>
          [] cmd.type = "REDIR" ->
                <<Close(cmd.fd), Open(cmd.file, cmd.fd), Run(cmd.cmd, L)>>
          [] cmd.type = "LIST" -> RunList(cmd, L, R)
          [] cmd.type = "PIPE" ->
                <<MakePipe(path),
                  Fork(TakesEnd(1, P1) \o <<Run(cmd.left, L)>>),
                  Fork(TakesEnd(0, P0) \o <<Run(cmd.right, R)>>)>>
                \o ClosesPipe \o <<Wait, Wait, Exit>>
          [] cmd.type = "BACK" -> <<Fork(<<Run(cmd.cmd, L)>>), Exit>>

\* A call of runcmd() makes the calls of runcmd().
Calls(code) ==
    IF code # <<>> /\ Head(code).op = "run" THEN runcmd(Head(code).cmd, Head(code).path)
    ELSE code

\* main() between two prompts: "cd" is run by the shell itself; any other
\* line by a process that parses it, and exits if that panics.
IsCd(text) == Len(text) >= 3 /\ SubSeq(text, 1, 3) = <<"c", "d", " ">>
MainLoop ==
    IF IsCd(line) THEN <<>>
    ELSE <<Fork(IF parsed.ok THEN <<Run(parsed.cmd, <<>>)>> ELSE <<Exit>>), Wait>>

----------------------------------------------------------------------------
(***************************************************************************)
(* The steps of process p.  init, which adopts and reaps, is not one of    *)
(* Procs.                                                                  *)
(***************************************************************************)
TheInit == NPROC + 1

Alive(p) == parent[p] # 0 /\ todo[p] # <<>>
Zombie(p) == parent[p] # 0 /\ todo[p] = <<>>
At(p, op) == Alive(p) /\ Head(todo[p]).op = op
Then(p, code) == todo' = [todo EXCEPT ![p] = Calls(code)]
Rest(p) == Tail(todo[p])
Fd(p, d) == CASE d = P0 -> p01[p][1] [] d = P1 -> p01[p][2] [] OTHER -> d
SetFd(p, d, f) == fds' = [fds EXCEPT ![p][d] = f]

\* getcmd(): the line, and then end of file.
GetCmd(p) ==
    /\ At(p, "getcmd")
    /\ Then(p, MainLoop \o <<[op |-> "eof"]>>)
    /\ UNCHANGED <<parent, fds, p01, line, parsed, ran, done, failed, cut>>

Eof(p) ==
    /\ At(p, "eof")
    /\ Then(p, <<Exit>>)
    /\ UNCHANGED <<parent, fds, p01, line, parsed, ran, done, failed, cut>>

DoClose(p) ==
    /\ At(p, "close")
    /\ SetFd(p, Fd(p, Head(todo[p]).fd), Closed)
    /\ Then(p, Rest(p))
    /\ UNCHANGED <<parent, p01, line, parsed, ran, done, failed, cut>>

DoDup(p) ==
    /\ At(p, "dup")
    /\ SetFd(p, Min(Free(fds[p])), fds[p][Fd(p, Head(todo[p]).fd)])
    /\ Then(p, Rest(p))
    /\ UNCHANGED <<parent, p01, line, parsed, ran, done, failed, cut>>

\* open(): '>' creates what is missing; without the file there is no command.
DoOpen(p) ==
    /\ At(p, "open")
    /\ IF Head(todo[p]).fd = 0 /\ Head(todo[p]).file \in Missing
       THEN Then(p, <<Exit>>) /\ failed' = TRUE /\ UNCHANGED fds
       ELSE /\ SetFd(p, Min(Free(fds[p])), File(Head(todo[p]).file))
            /\ Then(p, Rest(p)) /\ UNCHANGED failed
    /\ UNCHANGED <<parent, p01, line, parsed, ran, done, cut>>

\* pipe(): two descriptors, or panic().
DoPipe(p) ==
    /\ At(p, "pipe")
    /\ LET f == fds[p]
           path == Head(todo[p]).path
       IN  IF Cardinality(Free(f)) < 2
           THEN Then(p, <<Exit>>) /\ failed' = TRUE /\ UNCHANGED <<fds, p01>>
           ELSE /\ p01' = [p01 EXCEPT ![p] = <<Min(Free(f)), Second(f)>>]
                /\ fds' = [fds EXCEPT ![p][Min(Free(f))] = Pipe("r", path),
                                      ![p][Second(f)] = Pipe("w", path)]
                /\ Then(p, Rest(p)) /\ UNCHANGED failed
    /\ UNCHANGED <<parent, line, parsed, ran, done, cut>>

\* fork1(): the child has the parent's files and locals; with no slot left
\* the parent panics.  Only the right side of a PIPE starts with close(0).
DoFork(p) ==
    /\ At(p, "fork")
    /\ LET unused == {q \in Procs : parent[q] = 0}
           q == Min(unused)
           code == Head(todo[p]).code
       IN  IF unused = {}
           THEN /\ Then(p, <<Exit>>) /\ failed' = TRUE
                /\ cut' = IF Head(code) = Close(0) THEN cut \cup {Front(Last(code).path)}
                          ELSE cut
                /\ UNCHANGED <<parent, fds, p01>>
           ELSE /\ todo' = [todo EXCEPT ![p] = Calls(Tail(@)), ![q] = Calls(code)]
                /\ parent' = [parent EXCEPT ![q] = p]
                /\ fds' = [fds EXCEPT ![q] = fds[p]]
                /\ p01' = [p01 EXCEPT ![q] = p01[p]]
                /\ UNCHANGED <<failed, cut>>
    /\ UNCHANGED <<line, parsed, ran, done>>

\* wait(): for a zombie child, if there is a child.
DoWait(p) ==
    /\ At(p, "wait")
    /\ LET children == {q \in Procs : parent[q] = p}
       IN  \/ children = {} /\ UNCHANGED parent
           \/ \E q \in children : Zombie(q) /\ parent' = [parent EXCEPT ![q] = 0]
    /\ Then(p, Rest(p))
    /\ UNCHANGED <<fds, p01, line, parsed, ran, done, failed, cut>>

\* exec(): the program keeps the files.
Loaded(p) ==
    [path |-> Head(todo[p]).path, argv |-> Head(todo[p]).argv,
     in |-> fds[p][0], out |-> fds[p][1], err |-> fds[p][2],
     others |-> {fds[p][i] : i \in 3..(NOFILE - 1)} \ {Closed}]

DoExec(p) ==
    /\ At(p, "exec")
    /\ IF Head(Head(todo[p]).argv) \in Missing
       THEN Then(p, Rest(p)) /\ failed' = TRUE /\ UNCHANGED ran
       ELSE /\ ran' = ran \cup {Loaded(p)}
            /\ Then(p, <<Program(Head(Head(todo[p]).argv), Head(todo[p]).path), Exit>>)
            /\ UNCHANGED failed
    /\ UNCHANGED <<parent, fds, p01, line, parsed, done, cut>>

\* A program: a filter is done when its input has ended, which a pipe's has
\* when nobody has the write end open.
Ended(f) == f.kind = "r" => \A q \in Procs, i \in 0..(NOFILE - 1) : fds[q][i] # Pipe("w", f.of)

DoProgram(p) ==
    /\ At(p, "program")
    /\ Head(todo[p]).name \in Filters => Ended(fds[p][0])
    /\ done' = done \cup {Head(todo[p]).path}
    /\ Then(p, Rest(p))
    /\ UNCHANGED <<parent, fds, p01, line, parsed, ran, failed, cut>>

\* exit(): the files are closed and the children given to init.
DoExit(p) ==
    /\ At(p, "exit")
    /\ Then(p, <<>>)
    /\ fds' = [fds EXCEPT ![p] = [i \in DOMAIN fds[p] |-> Closed]]
    /\ parent' = [q \in Procs |-> IF parent[q] = p THEN TheInit ELSE parent[q]]
    /\ p01' = [p01 EXCEPT ![p] = <<0, 0>>]
    /\ UNCHANGED <<line, parsed, ran, done, failed, cut>>

\* init waits for whatever it has adopted.
InitWaits ==
    /\ \E q \in Procs : /\ Zombie(q) /\ parent[q] = TheInit
                        /\ parent' = [parent EXCEPT ![q] = 0]
    /\ UNCHANGED <<todo, fds, p01, line, parsed, ran, done, failed, cut>>

----------------------------------------------------------------------------
Init ==
    /\ line \in Lines /\ parsed = parsecmd(line)
    /\ todo = [p \in Procs |-> IF p = Main THEN <<[op |-> "getcmd"]>> ELSE <<>>]
    /\ parent = [p \in Procs |-> IF p = Main THEN TheInit ELSE 0]
    /\ fds = [p \in Procs |-> [i \in 0..(NOFILE - 1) |->
                 IF p = Main /\ i < 3 THEN Console ELSE Closed]]
    /\ p01 = [p \in Procs |-> <<0, 0>>]
    /\ ran = {} /\ done = {} /\ failed = FALSE /\ cut = {}

Step(p) ==
    \/ GetCmd(p) \/ Eof(p) \/ DoClose(p) \/ DoDup(p) \/ DoOpen(p)
    \/ DoPipe(p) \/ DoFork(p) \/ DoWait(p) \/ DoExec(p) \/ DoProgram(p) \/ DoExit(p)

Over == \A p \in Procs : parent[p] = 0

Next == (\E p \in Procs : Step(p)) \/ InitWaits

Spec ==
    /\ Init /\ [][Next]_vars
    /\ \A p \in Procs : WF_vars(Step(p))
    /\ WF_vars(InitWaits)

----------------------------------------------------------------------------
(***************************************************************************)
(* What a tree means: the programs it runs and where each one's input and  *)
(* output are connected.                                                   *)
(***************************************************************************)
RECURSIVE Meaning(_, _, _, _)
Meaning(cmd, path, in, out) ==
    LET L == Append(path, "L")
        R == Append(path, "R")
    IN  CASE cmd.type = "EXEC" ->
                {[path |-> path, argv |-> cmd.argv, in |-> in, out |-> out,
                  err |-> Console, others |-> {}] : x \in {1} \ {Len(cmd.argv) + 1}}
          [] cmd.type = "REDIR" ->
                IF cmd.fd = 0 THEN Meaning(cmd.cmd, L, File(cmd.file), out)
                              ELSE Meaning(cmd.cmd, L, in, File(cmd.file))
          [] cmd.type = "BACK" -> Meaning(cmd.cmd, L, in, out)
          [] cmd.type = "LIST" ->
                Meaning(cmd.left, L, in, out) \cup Meaning(cmd.right, R, in, out)
          [] cmd.type = "PIPE" ->
                Meaning(cmd.left, L, in, Pipe("w", path))
                \cup Meaning(cmd.right, R, Pipe("r", path), out)

\* The leaves of a tree that are not in the background.
RECURSIVE Foreground(_, _)
Foreground(cmd, path) ==
    LET L == Append(path, "L")
        R == Append(path, "R")
    IN  CASE cmd.type = "EXEC"  -> {path}
          [] cmd.type = "REDIR" -> Foreground(cmd.cmd, L)
          [] cmd.type = "BACK"  -> {}
          [] OTHER -> Foreground(cmd.left, L) \cup Foreground(cmd.right, R)

\* Every leaf right of a ';' with the leaves that must be over before it.
RECURSIVE Precedes(_, _)
Precedes(cmd, path) ==
    LET L == Append(path, "L")
        R == Append(path, "R")
    IN  CASE cmd.type = "EXEC" -> {}
          [] cmd.type \in {"REDIR", "BACK"} -> Precedes(cmd.cmd, L)
          [] OTHER ->
                Precedes(cmd.left, L) \cup Precedes(cmd.right, R)
                \cup IF cmd.type # "LIST" THEN {}
                     ELSE {<<a, m.path>> : a \in Foreground(cmd.left, L),
                                           m \in Meaning(cmd.right, R, Console, Console)}

\* A PIPE whose second fork1() fails panics and does not wait for its left
\* side: the leaves there run on by themselves.
Abandoned(leaf) == \E path \in cut : IsPrefix(Append(path, "L"), leaf)

\* A line does what it says.  The tree it is parsed to says what the line
\* says; a program starts with its input, output and error output connected
\* as the tree means, and with nothing else open; what follows a ';' starts
\* after every program before it has ended that is not in the background and
\* was not abandoned; and unless a call failed, all the programs of the line
\* have run when everything is over.  user/sh.c: parsecmd() and runcmd().
DoesWhatItSays ==
    LET tree == parsed.cmd
        started == {m.path : m \in ran}
    IN  /\ (At(Main, "getcmd") /\ parsed.ok) => Faithful(line, tree)
        /\ ran \subseteq Meaning(tree, <<>>, Console, Console)
        /\ \A ab \in Precedes(tree, <<>>) :
              (ab[1] \in started /\ ab[2] \in started) =>
                  ab[1] \in done \/ Abandoned(ab[1])
        /\ (Over /\ ~failed /\ ~IsCd(line)) => ran = Meaning(tree, <<>>, Console, Console)

\* Nobody waits for ever: every process of the line, in the background or
\* not, ends and is reaped, and the shell gets back to its prompt and to the
\* end of its input.  For that the write end of every pipe has to be closed in
\* every process but the writers.  user/sh.c: the close() calls of runcmd().
EverythingEnds == <>Over
============================================================================
