----------------------------- MODULE UserTests -----------------------------
(***************************************************************************)
(* The file system tests of usertests.c, run by processes on the model of  *)
(* the file system calls.  A test is a script: a sequence of system calls, *)
(* each with the results the test accepts.  Loops are unrolled with the    *)
(* bounds named below; the child of a fork() has a script of its own and   *)
(* runs beside its parent, so every interleaving of the two is explored.   *)
(* After the tests of usertests.c come the races it does not have: two     *)
(* processes that make a call or two each from a set of calls.             *)
(***************************************************************************)
EXTENDS FileCalls, Bags

CONSTANTS
  Tests,      \* names of tests to run, in the domain of Scripts
  Races,      \* races to run: [prelude, calls, child], see race
  HostFiles   \* the host directory mkfs copies

VARIABLES
  script,   \* the rest of each process's program
  awaited,  \* the step whose call is under way, <<>> if there is none
  env,      \* the variables of each process that hold descriptors
  oops,     \* a test has reported a wrong result
  lost      \* history: names that inodes got in directories without a name

testVars == <<script, awaited, env, oops, lost>>

MK == INSTANCE Mkfs

Parent == "parent"
Child == "child"
Vars == {"fd", "fd1"}

----------------------------------------------------------------------------
(* Calls and steps.                                                         *)

Rel(els) == [abs |-> FALSE, els |-> els]
Root(els) == [abs |-> TRUE, els |-> els]

open(path, mode) == [call |-> "open", path |-> path, mode |-> mode]
mkdir(path) == [call |-> "mkdir", path |-> path]
chdir(path) == [call |-> "chdir", path |-> path]
unlink(path) == [call |-> "unlink", path |-> path]
link(old, new) == [call |-> "link", old |-> old, new |-> new]
mknod(path) == [call |-> "mknod", path |-> path]
pipe == [call |-> "pipe"]
dup(v) == [call |-> "dup", fd |-> v]
fstat(v) == [call |-> "fstat", fd |-> v]
close(v) == [call |-> "close", fd |-> v]
read(v, n) == [call |-> "read", fd |-> v, n |-> n]
write(v, byte, n) == [call |-> "write", fd |-> v, byte |-> byte, n |-> n]

Largest == Max({NOFILE, MAXFILE * BSIZE})
OkResults == 0..Largest
AnyResult == {-1} \cup OkResults

\* A step accepts the results `want`, stores its result in `put`, is skipped
\* when the descriptor `if` is negative, and wants the units read to be
\* those of the bag `units`, in the order `data`.
Step0(c, want) ==
  [do |-> "call", c |-> c, want |-> want, put |-> "", if |-> "",
   data |-> <<>>, units |-> EmptyBag, child |-> <<>>]
Ok(c) == Step0(c, OkResults)
Bad(c) == Step0(c, {-1})
Do(c) == Step0(c, AnyResult)
Is(c, n) == Step0(c, {n})
Get(v, c) == [Ok(c) EXCEPT !.put = v]
Try(v, c) == [Do(c) EXCEPT !.put = v]
IfOpen(v, c) == [Do(c) EXCEPT !.if = v]
Reads(v, n, data) == [Is(read(v, n), Len(data)) EXCEPT !.data = data]
Lists(v, n, units) == [Ok(read(v, n)) EXCEPT !.units = units]
fork(child) == [Ok(NoCall) EXCEPT !.do = "fork", !.child = child]
wait == [Ok(NoCall) EXCEPT !.do = "wait"]

\* n steps made from their numbers 0..n-1, one after the other.
Loop(n, Body(_)) == FlattenSeq([i \in 1..n |-> Body(i - 1)])
Byte(b) == <<b, "">>
Bytes(b, n) == [i \in 1..n |-> Byte(b)]

RDWR == {"rdwr"}
CREATE == {"create"}
CREATE_RDWR == {"create", "rdwr"}

----------------------------------------------------------------------------
(* The scripts.  Bounds, with the code's numbers:                           *)
ManyFiles == 3       \* createtest: 52
SharedWrites == 2    \* sharedfd: 1000
TwoWrites == 2       \* twofiles: 12
BigDirN == 6         \* bigdir: 500; more than fill the direct blocks
BigFileN == 3        \* bigfile: 20

X == <<"x0", "x1", "x2", "x3", "x4", "x5">>

\* main(): the mark that the tests ran.
ran == <<Bad(open(Rel(<<"usertests.ran">>), {})),
         Get("fd", open(Rel(<<"usertests.ran">>), CREATE)), Do(close("fd"))>>

opentest == <<Get("fd", open(Rel(<<"echo">>), {})), Do(close("fd")),
              Bad(open(Rel(<<"doesnotexist">>), {}))>>

writetest ==
  <<Get("fd", open(Rel(<<"small">>), CREATE_RDWR)),
    Is(write("fd", 1, 3), 3), Is(write("fd", 2, 3), 3), Do(close("fd")),
    Get("fd", open(Rel(<<"small">>), {})), Is(read("fd", 6), 6),
    Do(close("fd")), Ok(unlink(Rel(<<"small">>)))>>

writetest1 ==
  <<Get("fd", open(Rel(<<"big">>), CREATE_RDWR))>>
  \o Loop(MAXFILE, LAMBDA i : <<Is(write("fd", i, BSIZE), BSIZE)>>)
  \o <<Do(close("fd")), Get("fd", open(Rel(<<"big">>), {}))>>
  \o Loop(MAXFILE, LAMBDA i : <<Reads("fd", BSIZE, Bytes(i, BSIZE))>>)
  \o <<Is(read("fd", BSIZE), 0), Do(close("fd")), Ok(unlink(Rel(<<"big">>)))>>

createtest ==
  Loop(ManyFiles, LAMBDA i : <<Try("fd", open(Rel(<<X[i + 1]>>), CREATE_RDWR)),
                               Do(close("fd"))>>)
  \o Loop(ManyFiles, LAMBDA i : <<Do(unlink(Rel(<<X[i + 1]>>)))>>)

dirtest == <<Ok(mkdir(Rel(<<"dir0">>))), Ok(chdir(Rel(<<"dir0">>))),
             Ok(chdir(Rel(<<"..">>))), Ok(unlink(Rel(<<"dir0">>)))>>

\* Two processes write to the same open file.
sharedfd ==
  LET writes(b) == Loop(SharedWrites, LAMBDA i : <<Is(write("fd", b, 3), 3)>>)
      n == 3 * SharedWrites
  IN <<Do(unlink(Rel(<<"sharedfd">>))),
       Get("fd", open(Rel(<<"sharedfd">>), CREATE_RDWR)), fork(writes(3))>>
     \o writes(4)
     \o <<wait, Do(close("fd")), Get("fd", open(Rel(<<"sharedfd">>), {})),
          Lists("fd", 2 * n, (Byte(3) :> n) @@ (Byte(4) :> n)),
          Do(close("fd")), Do(unlink(Rel(<<"sharedfd">>)))>>

\* Two processes write two files.
twofiles ==
  LET fill(f, b) ==
        <<Get("fd", open(Rel(<<f>>), CREATE_RDWR))>>
        \o Loop(TwoWrites, LAMBDA i : <<Is(write("fd", b, BSIZE - 1), BSIZE - 1)>>)
        \o <<Do(close("fd"))>>
      n == TwoWrites * (BSIZE - 1)
      check(f, b) ==
        <<Get("fd", open(Rel(<<f>>), {})), Reads("fd", n, Bytes(b, n)),
          Is(read("fd", n), 0), Do(close("fd"))>>
  IN <<Do(unlink(Rel(<<"f1">>))), Do(unlink(Rel(<<"f2">>))),
       fork(fill("f2", 3))>>
     \o fill("f1", 4) \o <<wait>> \o check("f2", 3) \o check("f1", 4)
     \o <<Do(unlink(Rel(<<"f1">>))), Do(unlink(Rel(<<"f2">>)))>>

\* Two processes create and delete different files in one directory.  Of the
\* code's i in 0..N-1 these are 1 and 2, with N = 4: a file that is removed
\* when the next one has been made, and one that stays.
createdelete ==
  LET half(a, b) ==
        <<Get("fd", open(Rel(<<a>>), CREATE_RDWR)), Do(close("fd")),
          Get("fd", open(Rel(<<b>>), CREATE_RDWR)), Do(close("fd")),
          Ok(unlink(Rel(<<a>>)))>>
      look(a, b) ==
        <<Bad(open(Rel(<<a>>), {})),
          Get("fd", open(Rel(<<b>>), {})), Do(close("fd"))>>
      drop(a, b) == <<Do(unlink(Rel(<<a>>))), Do(unlink(Rel(<<b>>)))>>
  IN <<fork(half("c1", "c2"))>> \o half("p1", "p2") \o <<wait>>
     \o look("p1", "p2") \o look("c1", "c2")
     \o drop("p1", "c1") \o drop("p2", "c2")

unlinkread ==
  LET u == Rel(<<"unlinkread">>)
  IN <<Get("fd", open(u, CREATE_RDWR)), Do(write("fd", 5, 5)), Do(close("fd")),
       Get("fd", open(u, RDWR)), Is(unlink(u), 0),
       Try("fd1", open(u, CREATE_RDWR)), Do(write("fd1", 6, 3)),
       Do(close("fd1")),
       Reads("fd", Largest, Bytes(5, 5)), Is(write("fd", 5, 10), 10),
       Do(close("fd")), Do(unlink(u))>>

linktest ==
  LET lf1 == Rel(<<"lf1">>)
      lf2 == Rel(<<"lf2">>)
  IN <<Do(unlink(lf1)), Do(unlink(lf2)), Get("fd", open(lf1, CREATE_RDWR)),
       Is(write("fd", 5, 5), 5), Do(close("fd")), Ok(link(lf1, lf2)),
       Do(unlink(lf1)), Bad(open(lf1, {})), Get("fd", open(lf2, {})),
       Is(read("fd", Largest), 5), Do(close("fd")), Bad(link(lf2, lf2)),
       Do(unlink(lf2)), Bad(link(lf2, lf1)), Bad(link(Rel(<<".">>), lf1))>>

\* Two processes create, link and remove the same name.  The i of the code's
\* loop are one of each combination of i % 3 and i % 5.
concreate ==
  LET I == <<0, 1, 4, 6>>
      C == [i \in {0, 1, 4, 6} |->
              CASE i = 0 -> "C0" [] i = 1 -> "C1" [] i = 4 -> "C4" [] i = 6 -> "C6"]
      make(i, m) ==
        IF i % m = 1 THEN <<Do(link(Rel(<<"C0">>), Rel(<<C[i]>>)))>>
        ELSE <<Get("fd", open(Rel(<<C[i]>>), CREATE_RDWR)), Do(close("fd"))>>
      drop(i, m) ==
        IF i % 3 = m THEN <<Try("fd", open(Rel(<<C[i]>>), {})), Do(close("fd"))>>
        ELSE <<Do(unlink(Rel(<<C[i]>>)))>>
      names == [u \in {<<1, C[i]>> : i \in {0, 1, 4, 6}} |-> 1]
  IN Loop(Len(I), LAMBDA k :
        <<Do(unlink(Rel(<<C[I[k + 1]]>>))), fork(make(I[k + 1], 5))>>
        \o make(I[k + 1], 3) \o <<wait>>)
     \o <<Try("fd", open(Rel(<<".">>), {})), Lists("fd", Largest, names),
          Do(close("fd"))>>
     \o Loop(Len(I), LAMBDA k :
          <<fork(drop(I[k + 1], 0))>> \o drop(I[k + 1], 1) \o <<wait>>)

\* A directory that uses indirect blocks.
bigdir ==
  LET bd == Rel(<<"bd">>)
  IN <<Do(unlink(bd)), Get("fd", open(bd, CREATE)), Do(close("fd"))>>
     \o Loop(BigDirN, LAMBDA i : <<Is(link(bd, Rel(<<X[i + 1]>>)), 0)>>)
     \o <<Do(unlink(bd))>>
     \o Loop(BigDirN, LAMBDA i : <<Is(unlink(Rel(<<X[i + 1]>>)), 0)>>)

\* subdir() up to the second look at dd/dd/ffff.
subdir1 ==
  <<Do(unlink(Rel(<<"ff">>))), Is(mkdir(Rel(<<"dd">>)), 0),
    Get("fd", open(Rel(<<"dd", "ff">>), CREATE_RDWR)), Do(write("fd", 7, 2)),
    Do(close("fd")), Bad(unlink(Rel(<<"dd">>))),
    Is(mkdir(Root(<<"dd", "dd">>)), 0),
    Get("fd", open(Rel(<<"dd", "dd", "ff">>), CREATE_RDWR)),
    Do(write("fd", 8, 2)), Do(close("fd")),
    Get("fd", open(Rel(<<"dd", "dd", "..", "ff">>), {})),
    Reads("fd", Largest, Bytes(7, 2)), Do(close("fd")),
    Is(link(Rel(<<"dd", "dd", "ff">>), Rel(<<"dd", "dd", "ffff">>)), 0),
    Is(unlink(Rel(<<"dd", "dd", "ff">>)), 0),
    Bad(open(Rel(<<"dd", "dd", "ff">>), {})),
    Is(chdir(Rel(<<"dd">>)), 0), Is(chdir(Rel(<<"dd", "..", "..", "dd">>)), 0),
    Is(chdir(Rel(<<"dd", "..", "..", "..", "dd">>)), 0),
    Is(chdir(Rel(<<".", "..">>)), 0)>>

\* The rest: calls that must fail, and the clean-up.
subdir2 ==
  <<Get("fd", open(Rel(<<"dd", "dd", "ffff">>), {})),
    Is(read("fd", Largest), 2), Do(close("fd")),
    Bad(open(Rel(<<"dd", "dd", "ff">>), {})),
    Bad(open(Rel(<<"dd", "ff", "ff">>), CREATE_RDWR)),
    Bad(open(Rel(<<"dd", "xx", "ff">>), CREATE_RDWR)),
    Bad(open(Rel(<<"dd">>), CREATE)), Bad(open(Rel(<<"dd">>), RDWR)),
    Bad(open(Rel(<<"dd">>), {"wronly"})),
    Bad(link(Rel(<<"dd", "ff", "ff">>), Rel(<<"dd", "dd", "xx">>))),
    Bad(link(Rel(<<"dd", "xx", "ff">>), Rel(<<"dd", "dd", "xx">>))),
    Bad(link(Rel(<<"dd", "ff">>), Rel(<<"dd", "dd", "ffff">>))),
    Bad(mkdir(Rel(<<"dd", "ff", "ff">>))), Bad(mkdir(Rel(<<"dd", "xx", "ff">>))),
    Bad(mkdir(Rel(<<"dd", "dd", "ffff">>))),
    Bad(unlink(Rel(<<"dd", "xx", "ff">>))), Bad(unlink(Rel(<<"dd", "ff", "ff">>))),
    Bad(chdir(Rel(<<"dd", "ff">>))), Bad(chdir(Rel(<<"dd", "xx">>))),
    Is(unlink(Rel(<<"dd", "dd", "ffff">>)), 0), Is(unlink(Rel(<<"dd", "ff">>)), 0),
    Bad(unlink(Rel(<<"dd">>))), Ok(unlink(Rel(<<"dd", "dd">>))),
    Ok(unlink(Rel(<<"dd">>)))>>

subdir == subdir1 \o subdir2

bigfile ==
  LET b == Rel(<<"bigfile">>)
      r == BSIZE - 1
  IN <<Do(unlink(b)), Get("fd", open(b, CREATE_RDWR))>>
     \o Loop(BigFileN, LAMBDA i : <<Is(write("fd", i, 2 * r), 2 * r)>>)
     \o <<Do(close("fd")), Get("fd", open(b, {}))>>
     \o Loop(2 * BigFileN, LAMBDA i : <<Reads("fd", r, Bytes(i \div 2, r))>>)
     \o <<Is(read("fd", r), 0), Do(close("fd")), Do(unlink(b))>>

\* Names of DIRSIZ characters and of one more.
fourteen ==
  <<Is(mkdir(Rel(<<"n14">>)), 0), Is(mkdir(Rel(<<"n14", "n15">>)), 0),
    Get("fd", open(Rel(<<"n15", "n15", "n15">>), CREATE)), Do(close("fd")),
    Get("fd", open(Rel(<<"n14", "n14", "n14">>), {})), Do(close("fd")),
    Bad(mkdir(Rel(<<"n14", "n14">>))), Bad(mkdir(Rel(<<"n15", "n14">>)))>>

rmdot ==
  <<Is(mkdir(Rel(<<"dots">>)), 0), Is(chdir(Rel(<<"dots">>)), 0),
    Bad(unlink(Rel(<<".">>))), Bad(unlink(Rel(<<"..">>))),
    Is(chdir(Root(<<>>)), 0), Bad(unlink(Rel(<<"dots", ".">>))),
    Bad(unlink(Rel(<<"dots", "..">>))), Is(unlink(Rel(<<"dots">>)), 0)>>

dirfile ==
  LET d == Rel(<<"dirfile">>)
      xx == Rel(<<"dirfile", "xx">>)
      dot == Rel(<<".">>)
  IN <<Get("fd", open(d, CREATE)), Do(close("fd")), Bad(chdir(d)),
       Bad(open(xx, {})), Bad(open(xx, CREATE)), Bad(mkdir(xx)), Bad(unlink(xx)),
       Bad(link(Rel(<<"README">>), xx)), Is(unlink(d), 0), Bad(open(dot, RDWR)),
       Try("fd", open(dot, {})), Step0(write("fd", 9, 1), {-1, 0}),
       Do(close("fd"))>>

\* One more nested directory than the inode cache has slots.
iref ==
  LET d == Rel(<<"irefd">>)
      none == Rel(<<>>)
      xx == Rel(<<"xx">>)
  IN Loop(NINODE + 1, LAMBDA i :
       <<Is(mkdir(d), 0), Is(chdir(d), 0), Do(mkdir(none)),
         Do(link(Rel(<<"README">>), none)),
         Try("fd", open(none, CREATE)), IfOpen("fd", close("fd")),
         Try("fd", open(xx, CREATE)), IfOpen("fd", close("fd")),
         Do(unlink(xx))>>)
     \o <<Do(chdir(Root(<<>>)))>>

----------------------------------------------------------------------------
(* Other programs: init.c up to its loop, ls.c on the root directory of the  *)
(* image, stressfs.c with two processes, and the commands on files.          *)

init ==
  LET console == Rel(<<"console">>)
  IN <<Bad(open(console, RDWR)), Do(mknod(console)),
       Try("fd", open(console, RDWR)), Do(dup("fd")), Do(dup("fd"))>>

\* stat() of ulib.c
stat(path, d) == <<Get("fd1", open(path, {})),
                   [Is(fstat("fd1"), 0) EXCEPT !.data = d], Do(close("fd1"))>>

ls ==
  <<Get("fd", open(Rel(<<".">>), {})), Is(fstat("fd"), 0)>>
  \o Loop(Len(HostFiles) + 2, LAMBDA i :
       <<Is(read("fd", 1), 1)>>
       \o (IF i < 2 THEN stat(Rel(<<".", <<".", "..">>[i + 1]>>),
                              <<"dir", 1, Blocks(Len(HostFiles) + 2) * BSIZE>>)
          ELSE stat(Rel(<<".", HostFiles[i - 1].name>>),
                    <<"file", 1, Len(HostFiles[i - 1].items)>>)))
  \o <<Do(close("fd"))>>

stressfs ==
  LET work(f) ==
        <<Try("fd", open(Rel(<<f>>), CREATE_RDWR)), Do(write("fd", 1, 2)),
          Do(write("fd", 2, 2)), Do(close("fd"))>>
  IN <<fork(work("s1"))>> \o work("s0") \o <<wait>>

\* The commands mkdir, ln, cat and rm, which stop at the first failure, one
\* after the other; cat reads a block at a time.
mkdirs(paths) == [i \in DOMAIN paths |-> Ok(mkdir(paths[i]))]
ln(old, new) == <<Ok(link(old, new))>>
cat(path, data) ==
  <<Get("fd", open(path, {}))>>
  \o Loop(Blocks(Len(data)), LAMBDA i :
       LET rest == SubSeq(data, i * BSIZE + 1, Len(data))
       IN <<Reads("fd", BSIZE, SubSeq(rest, 1, Min({BSIZE, Len(rest)})))>>)
  \o <<Is(read("fd", BSIZE), 0), Do(close("fd"))>>
rm(paths) == [i \in DOMAIN paths |-> Ok(unlink(paths[i]))]

commands ==
  LET old == Rel(<<HostFiles[1].name>>)
      new == Rel(<<"d", "l">>)
  IN mkdirs(<<Rel(<<"d">>)>>) \o ln(old, new)
     \o cat(new, [i \in DOMAIN HostFiles[1].items |-> Byte(HostFiles[1].items[i])])
     \o rm(<<old, new, Rel(<<"d">>)>>)

Scripts == [
  commands |-> commands, init |-> init, ls |-> ls, stressfs |-> stressfs,
  ran |-> ran, opentest |-> opentest, writetest |-> writetest,
  writetest1 |-> writetest1, createtest |-> createtest, dirtest |-> dirtest,
  sharedfd |-> sharedfd, twofiles |-> twofiles, createdelete |-> createdelete,
  unlinkread |-> unlinkread, linktest |-> linktest, concreate |-> concreate,
  bigdir |-> bigdir, subdir |-> subdir, bigfile |-> bigfile,
  fourteen |-> fourteen, rmdot |-> rmdot, dirfile |-> dirfile, iref |-> iref]

----------------------------------------------------------------------------
(* Races.                                                                   *)

\* After the prelude parent and child make their calls.
race(r) ==
  LET Calls(cs) == [i \in DOMAIN cs |-> Do(cs[i])]
  IN r.prelude \o <<fork(Calls(r.child))>> \o Calls(r.calls) \o <<wait>>

----------------------------------------------------------------------------
Init ==
  /\ InitWith(MK!Image(HostFiles), Parent)
  /\ \E program \in {Scripts[t] : t \in Tests}
                    \cup {race(r) : r \in Races} :
       script = [p \in Procs |-> IF p = Parent THEN program ELSE <<>>]
  /\ awaited = [p \in Procs |-> <<>>]
  /\ env = [p \in Procs |-> [v \in Vars |-> -1]]
  /\ oops = FALSE
  /\ lost = [n \in Inum |-> 0]

\* The process is between two calls and alive.
Ready(p) == /\ fs.panic = "" /\ todo[p] = <<>> /\ awaited[p] = <<>> /\ cwd[p] # 0
NextIs(p, do) == script[p] # <<>> /\ Head(script[p]).do = do
Advance(p) == script' = [script EXCEPT ![p] = Tail(@)]

\* The call with the value of its descriptor variable.
Resolve(p, c) == IF "fd" \in DOMAIN c THEN [c EXCEPT !.fd = env[p][@]] ELSE c

Issue(p) ==
  LET s == Head(script[p])
  IN /\ Ready(p) /\ NextIs(p, "call")
     /\ s.if # "" => env[p][s.if] >= 0
     /\ Start(p, Resolve(p, s.c))
     /\ awaited' = [awaited EXCEPT ![p] = <<s>>]
     /\ Advance(p)
     /\ UNCHANGED <<env, oops, lost>>

Skip(p) ==
  LET s == Head(script[p])
  IN /\ Ready(p) /\ NextIs(p, "call")
     /\ s.if # "" /\ env[p][s.if] < 0
     /\ Advance(p)
     /\ UNCHANGED <<vars, awaited, env, oops, lost>>

\* How often unit u, or a directory entry in use with its name, was read.
Occurs(data, u) ==
  Cardinality({i \in DOMAIN data : \/ data[i] = u
                                   \/ data[i][1] > 0 /\ u = <<1, data[i][2]>>})

Accepted(s, r) ==
  /\ r.ret \in s.want
  /\ s.data # <<>> => r.data = s.data
  /\ \A u \in DOMAIN s.units : Occurs(r.data, u) = s.units[u]

\* The call returned: a result the test does not accept ends the test.
Judge(p) ==
  LET s == awaited[p][1]
  IN /\ awaited[p] # <<>> /\ todo[p] = <<>> /\ fs.panic = ""
     /\ awaited' = [awaited EXCEPT ![p] = <<>>]
     /\ oops' = (oops \/ ~Accepted(s, reg[p]))
     /\ script' = IF Accepted(s, reg[p]) THEN script
                  ELSE [script EXCEPT ![p] = <<>>]
     /\ env' = IF s.put = "" THEN env ELSE [env EXCEPT ![p][s.put] = reg[p].ret]
     /\ reg' = [reg EXCEPT ![p] = IdleReg]
     /\ UNCHANGED <<fs, todo, asleep, callVars, lost>>

DoFork(p) ==
  /\ Ready(p) /\ NextIs(p, "fork")
  /\ Fork(p, Child)
  /\ script' = [script EXCEPT ![p] = Tail(@), ![Child] = Head(script[p]).child]
  /\ env' = [env EXCEPT ![Child] = env[p]]
  /\ UNCHANGED <<awaited, oops, lost>>

DoWait(p) ==
  /\ Ready(p) /\ NextIs(p, "wait")
  /\ cwd[Child] = 0
  /\ Advance(p)
  /\ UNCHANGED <<vars, awaited, env, oops, lost>>

DoExit(p) ==
  /\ Ready(p) /\ script[p] = <<>>
  /\ p = Child \/ cwd[Child] = 0
  /\ StartExit(p)
  /\ UNCHANGED testVars

Finished == \A p \in Procs : cwd[p] = 0
Stopped == (Finished \/ fs.panic # "") /\ UNCHANGED <<vars, testVars>>

\* A directory that unlink() has taken the name from, while somebody was
\* about to use it: all the links it still has are from such directories too.
Removed(s) == fs.ic[s].d.nlink = lost[fs.ic[s].inum]

\* Slot ip gets (by = 1) or loses (by = -1) a name in directory dp and, if it
\* is a directory, its ".." is a name of dp.
Rename(ip, dp, by) ==
  LET isDir == fs.ic[ip].d.type = "dir"
  IN lost' = IF ~Removed(dp) THEN lost
             ELSE [n \in Inum |->
                     lost[n] + (IF n = fs.ic[ip].inum THEN by ELSE 0)
                             + (IF n = fs.ic[dp].inum /\ isDir THEN by ELSE 0)]

\* What the step at hand means for lost.
Note(p) ==
  LET step == Top(p)
      taken == Matches(fs, fs.ic[Ip(p)].d, reg[p].name)
  IN CASE step[1] = "create3" -> Rename(Ip(p), step[2], 1)
       [] step[1] = "link4" /\ taken = {} -> Rename(step[2], Ip(p), 1)
       [] step[1] = "unlink3" /\ ~(/\ fs.ic[Ip(p)].d.type = "dir"
                                  /\ ~IsDirEmpty(fs, fs.ic[Ip(p)].d))
            -> Rename(Ip(p), step[2], -1)
       [] OTHER -> UNCHANGED lost

ProcStep(p) ==
  \/ Issue(p) \/ Skip(p) \/ Judge(p) \/ DoFork(p) \/ DoWait(p) \/ DoExit(p)
  \/ Step(p) /\ Note(p) /\ UNCHANGED <<script, awaited, env, oops>>

\* Steps that use nothing but the process's own variables.  They commute with
\* every step of another process and no property sees them, so one of them is
\* always taken first.
LocalSteps == {"namex", "link", "link3", "putip", "lockip", "unlink", "create",
               "open", "chdir", "made"}
Local(p) == /\ fs.panic = ""
            /\ IF todo[p] = <<>> THEN awaited[p] # <<>>
               ELSE Top(p)[1] \in LocalSteps
First == IF \E p \in Procs : Local(p) THEN {CHOOSE p \in Procs : Local(p)}
         ELSE Procs

Next == (\E p \in First : ProcStep(p)) \/ Stopped

TestSpec == Init /\ [][Next]_<<vars, testVars>>

----------------------------------------------------------------------------
(* Correctness.                                                             *)

\* What an inode really is: the cached copy if it is valid, else the disk's.
Current(n) ==
  LET c == {s \in Slot : fs.ic[s].ref > 0 /\ fs.ic[s].inum = n /\ fs.ic[s].valid}
  IN IF c = {} THEN fs.dino[n] ELSE fs.ic[Min(c)].d

Allocated == {n \in Inum : Current(n).type # "free"}
\* The blocks of inode n: a sequence, because none may occur twice.
BlockSeq(n) ==
  LET d == Current(n)
      direct == [i \in 1..(NDIRECT + 1) |-> d.addrs[i - 1]]
      indirect == IF d.addrs[NDIRECT] = 0 THEN <<>>
                  ELSE [j \in 1..NINDIRECT |-> fs.blk[d.addrs[NDIRECT]][j - 1][1]]
  IN SelectSeq(direct \o indirect, LAMBDA b : b # 0)
AllBlocks == FlattenSeq([n \in Inum |-> BlockSeq(n)])

\* Entries in use of the directories of which Named says that they have a name.
EntriesOf(Named(_)) ==
  LET dirs == {n \in Allocated : Current(n).type = "dir" /\ Named(n)}
      at == UNION {{n} \X (0..(Current(n).size - 1)) : n \in dirs}
  IN {e \in at : /\ Addr(fs, Current(e[1]), e[2] \div BSIZE) # 0
                 /\ Unit(fs, Current(e[1]), e[2])[1] # 0}
Entry(e) == Unit(fs, Current(e[1]), e[2])
\* How many of the entries are names of inode n; "." is not counted.
NamesIn(entries, n) ==
  Cardinality({e \in entries : Entry(e)[1] = n /\ Entry(e)[2] # "."})

\* No process is inside the kernel.
Quiet == \A p \in Procs : todo[p] = <<>>

\* No test of usertests.c reports a wrong result, whatever the order of its
\* two processes, and nothing panics.
TestsPass == ~oops /\ fs.panic = ""

\* Between calls an inode is referenced as often as open files and processes
\* hold it: every path of every call gives back what it took (iref()).
RefsExact ==
  Quiet => \A s \in Slot : fs.ic[s].ref =
    Cardinality({f \in DOMAIN file : file[f].type = "inode" /\ file[f].ip = s})
    + Cardinality({p \in Procs : cwd[p] = s})

\* Between calls the link count of an inode is the number of its names; a
\* name stands for an inode that exists; an inode without a name exists only
\* while it is in use.  The code fails this when a directory is removed while
\* somebody makes a file in it.
LinksExact ==
  LET entries == EntriesOf(LAMBDA n : Current(n).nlink > 0)
  IN Quiet =>
       /\ \A e \in entries : Entry(e)[1] \in Allocated
       /\ \A n \in Allocated :
            /\ Current(n).nlink = NamesIn(entries, n)
            /\ Current(n).nlink = 0 => Cached(n) # {}

\* The same with that exception and no other: the count of an inode is its
\* names and the ones it got in removed directories.
LinksKept ==
  LET entries == EntriesOf(LAMBDA n : Current(n).nlink > lost[n])
  IN Quiet =>
       /\ \A e \in entries : Entry(e)[1] \in Allocated
       /\ \A n \in Allocated :
            /\ Current(n).nlink = NamesIn(entries, n) + lost[n]
            /\ Current(n).nlink = 0 => Cached(n) # {}

\* Between calls the bitmap marks the blocks of the inodes, none of which has
\* two owners, free blocks are clear, as balloc() assumes, and the disk has
\* what the inode cache has.
BlocksExact == Quiet =>
  /\ IsInjective(AllBlocks)
  /\ fs.used = Range(AllBlocks)
  /\ \A b \in FreeBlocks(fs) : fs.blk[b] = ZeroBlock
  /\ \A s \in Slot : fs.ic[s].ref > 0 /\ fs.ic[s].valid =>
                     fs.dino[fs.ic[s].inum] = fs.ic[s].d

\* Between calls the file system is consistent.
FsConsistent == RefsExact /\ LinksKept /\ BlocksExact

\* A process sleeps in ilock() only while another one, awake, holds the inode
\* it wants: no wakeup is lost and the processes do not wait in a circle.
\* With the absence of deadlock every test comes to its end.
NobodyStuck ==
  \A p \in asleep : /\ fs.ic[Top(p)[2]].busy
                    /\ \E q \in Procs \ asleep : todo[q] # <<>>
=============================================================================
