----------------------------- MODULE FileCalls -----------------------------
(***************************************************************************)
(* The file system calls (sysfile.c), the file table (file.c) and what     *)
(* fork() and exit() do to open files and the current directory, on top of *)
(* the steps of FileSys.                                                   *)
(*                                                                         *)
(* A call is a record.  It starts by putting its steps into todo[p]; the   *)
(* stages of a handler between two calls into fs.c are steps of their own, *)
(* named after the handler.  A handler that fails returns -1 and leaves    *)
(* only its clean-up to do.                                                *)
(***************************************************************************)
EXTENDS FileSys

CONSTANTS
  NFILE,      \* open files per system
  NOFILE      \* open files per process

ASSUME FileCallsAssumption == NFILE \in Nat \ {0} /\ NOFILE \in Nat \ {0}

VARIABLES
  file,     \* ftable.file
  ofile,    \* proc->ofile: 0 or an index into file
  cwd       \* proc->cwd: a slot of the inode cache, 0 when there is no process

callVars == <<file, ofile, cwd>>
vars == <<fs, todo, reg, asleep, file, ofile, cwd>>

Fds == 0..(NOFILE - 1)
NoFile == [ref |-> 0, type |-> "none", ip |-> 0, off |-> 0,
           readable |-> FALSE, writable |-> FALSE]
NoCall == [call |-> "none"]
NoPath == [abs |-> FALSE, els |-> <<>>]
IdleReg == [call |-> NoCall, ip |-> 0, name |-> "", path |-> NoPath,
            ret |-> 0, data |-> <<>>]

\* Boot: `image` is on the disk, the first process is in "/" (userinit).
InitWith(image, first) ==
  /\ fs = [blk |-> image.blk, used |-> image.used, dino |-> image.dino,
           ic |-> [s \in Slot |->
                     IF s = 1 THEN [EmptySlot EXCEPT !.inum = ROOTINO, !.ref = 1]
                     ELSE EmptySlot],
           panic |-> ""]
  /\ todo = [p \in Procs |-> <<>>]
  /\ reg = [p \in Procs |-> IdleReg]
  /\ asleep = {}
  /\ file = [f \in 1..NFILE |-> NoFile]
  /\ ofile = [p \in Procs |-> [fd \in Fds |-> 0]]
  /\ cwd = [p \in Procs |-> IF p = first THEN 1 ELSE 0]

----------------------------------------------------------------------------
(* Helpers of the handlers.                                                 *)

Call(p) == reg[p].call
Ip(p) == reg[p].ip
Inode(p) == fs.ic[Ip(p)]

\* The handler returns v and has only `cleanup` left to do.
Return(p, v, cleanup) == /\ todo' = [todo EXCEPT ![p] = cleanup]
                         /\ reg' = [reg EXCEPT ![p].ret = v]
Fail(p, cleanup) == Return(p, -1, cleanup)

\* argfd(): the file behind a descriptor, 0 if there is none.
Argfd(p, fd) == IF fd \in Fds THEN ofile[p][fd] ELSE 0
FreeFds(p) == {fd \in Fds : ofile[p][fd] = 0}
FreeFiles == {f \in DOMAIN file : file[f].ref = 0}

\* create(): the steps up to a locked inode in ip, or ip = 0.
CreateSteps == NamexSteps(TRUE) \o <<<<"create", 0>>>>

----------------------------------------------------------------------------
(* The start of a call.                                                     *)

PathCall(p, c, path, steps) ==
  /\ reg' = [reg EXCEPT ![p] = [IdleReg EXCEPT !.call = c, !.path = path]]
  /\ todo' = [todo EXCEPT ![p] = steps]
  /\ UNCHANGED <<fs, asleep, callVars>>

\* Start a call that looks up a path: sys_open, sys_mkdir, sys_mknod,
\* sys_chdir, sys_unlink and sys_link.
StartPath(p, c) ==
  \/ /\ c.call = "open"
     /\ PathCall(p, c, c.path,
                 IF "create" \in c.mode THEN CreateSteps \o <<<<"open2">>>>
                 ELSE NamexSteps(FALSE) \o <<<<"open">>>>)
  \/ /\ c.call \in {"mkdir", "mknod"}
     /\ PathCall(p, c, c.path, CreateSteps \o <<<<"made">>>>)
  \/ /\ c.call = "chdir"
     /\ PathCall(p, c, c.path, NamexSteps(FALSE) \o <<<<"chdir">>>>)
  \/ /\ c.call = "unlink"
     /\ PathCall(p, c, c.path, NamexSteps(TRUE) \o <<<<"unlink">>>>)
  \/ /\ c.call = "link"
     /\ PathCall(p, c, c.old, NamexSteps(FALSE) \o <<<<"link">>>>)

\* fileread() and filewrite() of a file that allows it, filestat().  The
\* pipes of this module are only opened and closed; Pipe has their contents.
IoAllowed(f, c) ==
  /\ f # 0 /\ file[f].type = "inode"
  /\ c.call = "read" => file[f].readable
  /\ c.call = "write" => file[f].writable

StartIo(p, c) ==
  LET f == Argfd(p, c.fd)
  IN /\ c.call \in {"read", "write", "fstat"}
     /\ reg' = [reg EXCEPT ![p] =
                 [IdleReg EXCEPT !.call = c, !.ret = IF IoAllowed(f, c) THEN 0 ELSE -1]]
     /\ todo' = [todo EXCEPT ![p] =
                   IF ~IoAllowed(f, c) THEN <<>>
                   ELSE IlockSteps(file[f].ip) \o <<<<c.call, f>>>>]
     /\ UNCHANGED <<fs, asleep, callVars>>

\* sys_close: the descriptor is free before the file is closed.
StartClose(p, c) ==
  LET f == Argfd(p, c.fd)
  IN /\ c.call = "close"
     /\ reg' = [reg EXCEPT ![p] =
                 [IdleReg EXCEPT !.call = c, !.ret = IF f = 0 THEN -1 ELSE 0]]
     /\ todo' = [todo EXCEPT ![p] = IF f = 0 THEN <<>> ELSE <<<<"fileclose", f>>>>]
     /\ ofile' = IF f = 0 THEN ofile ELSE [ofile EXCEPT ![p][c.fd] = 0]
     /\ UNCHANGED <<fs, asleep, file, cwd>>

\* sys_dup: fdalloc() and filedup().
StartDup(p, c) ==
  LET f == Argfd(p, c.fd)
      ok == f # 0 /\ FreeFds(p) # {}
      fd == Min(FreeFds(p))
  IN /\ c.call = "dup"
     /\ reg' = [reg EXCEPT ![p] =
                 [IdleReg EXCEPT !.call = c, !.ret = IF ok THEN fd ELSE -1]]
     /\ ofile' = IF ok THEN [ofile EXCEPT ![p][fd] = f] ELSE ofile
     /\ file' = IF ok THEN [file EXCEPT ![f].ref = @ + 1] ELSE file
     /\ UNCHANGED <<fs, asleep, todo, cwd>>

\* sys_pipe: two files of pipealloc() and two descriptors, or nothing.
StartPipe(p, c) ==
  LET rf == Min(FreeFiles)
      wf == Min(FreeFiles \ {rf})
      fd0 == Min(FreeFds(p))
      fd1 == Min(FreeFds(p) \ {fd0})
      ok == Cardinality(FreeFiles) > 1 /\ Cardinality(FreeFds(p)) > 1
      End(w) == [NoFile EXCEPT !.ref = 1, !.type = "pipe",
                               !.readable = ~w, !.writable = w]
  IN /\ c.call = "pipe"
     /\ reg' = [reg EXCEPT ![p] =
                 [IdleReg EXCEPT !.call = c, !.ret = IF ok THEN 0 ELSE -1]]
     /\ file' = IF ok THEN [file EXCEPT ![rf] = End(FALSE), ![wf] = End(TRUE)]
                ELSE file
     /\ ofile' = IF ok THEN [ofile EXCEPT ![p][fd0] = rf, ![p][fd1] = wf]
                 ELSE ofile
     /\ UNCHANGED <<fs, asleep, todo, cwd>>

\* How many descriptors of p refer to f.
Opens(p, f) == Cardinality({fd \in Fds : ofile[p][fd] = f})

\* fork(): the child q gets the parent's files and its directory.
Fork(p, q) ==
  /\ fs.panic = "" /\ todo[p] = <<>> /\ cwd[p] # 0 /\ cwd[q] = 0
  /\ ofile' = [ofile EXCEPT ![q] = ofile[p]]
  /\ file' = [f \in DOMAIN file |->
                [file[f] EXCEPT !.ref = @ + Opens(p, f)]]
  /\ cwd' = [cwd EXCEPT ![q] = cwd[p]]
  /\ fs' = [fs EXCEPT !.ic[cwd[p]].ref = @ + 1]            \* idup()
  /\ UNCHANGED <<todo, reg, asleep>>

\* exit(): close every file, then leave the directory.
StartExit(p) ==
  /\ todo' = [todo EXCEPT ![p] =
                FlattenSeq([i \in 1..NOFILE |->
                              IF ofile[p][i - 1] = 0 THEN <<>>
                              ELSE <<<<"fileclose", ofile[p][i - 1]>>>>])
                \o <<<<"iput", cwd[p]>>, <<"gone">>>>]
  /\ ofile' = [ofile EXCEPT ![p] = [fd \in Fds |-> 0]]
  /\ reg' = [reg EXCEPT ![p] = IdleReg]
  /\ UNCHANGED <<fs, asleep, file, cwd>>

Gone(p) ==
  /\ At(p, "gone")
  /\ cwd' = [cwd EXCEPT ![p] = 0]
  /\ Then(p, <<>>)
  /\ UNCHANGED <<fs, reg, asleep, file, ofile>>

\* syscall(): the dispatch to the handlers of file calls.
Start(p, c) ==
  /\ fs.panic = "" /\ todo[p] = <<>> /\ cwd[p] # 0
  /\ \/ StartPath(p, c) \/ StartIo(p, c) \/ StartClose(p, c)
     \/ StartDup(p, c) \/ StartPipe(p, c)

----------------------------------------------------------------------------
(* file.c: fileclose(), fileread(), filewrite(), filestat().                *)

Fileclose(p) ==
  LET f == Top(p)[2]
      last == file[f].ref = 1
  IN /\ At(p, "fileclose")
     /\ file' = [file EXCEPT ![f] = IF last THEN NoFile ELSE [@ EXCEPT !.ref = @ - 1]]
     /\ Then(p, IF last /\ file[f].type = "inode" THEN <<<<"iput", file[f].ip>>>>
                ELSE <<>>)
     /\ fs' = IF file[f].ref < 1 THEN Panic(fs, "fileclose") ELSE fs
     /\ UNCHANGED <<reg, asleep, ofile, cwd>>

\* readi() of a file or a directory, and the offset.  The only device is the
\* console, whose driver is in Console: here a device has none.
Fileread(p) ==
  LET f == Top(p)[2]
      s == file[f].ip
      d == fs.ic[s].d
      off == file[f].off
      n == Min({Call(p).n, d.size - off})
      g == BmapAll(fs, s, Blocks(off + n))
  IN /\ At(p, "read")
     /\ IF d.type = "dev" \/ off > d.size
        THEN Fail(p, <<<<"iunlock", s>>>>) /\ UNCHANGED <<fs, file>>
        ELSE /\ fs' = g
             /\ reg' = [reg EXCEPT ![p].ret = n,
                  ![p].data = IF g.panic # "" THEN <<>> ELSE
                    [i \in 1..n |-> Unit(g, g.ic[s].d, off + i - 1)]]
             /\ file' = [file EXCEPT ![f].off = off + n]
             /\ todo' = [todo EXCEPT ![p] = <<<<"iunlock", s>>>>]
     /\ UNCHANGED <<asleep, ofile, cwd>>

\* writei(): its tests, and the offset read under the inode's lock.
Filewrite(p) ==
  LET f == Top(p)[2]
      s == file[f].ip
      off == file[f].off
      n == Min({Call(p).n, MAXFILE * BSIZE - off})
  IN /\ At(p, "write")
     /\ IF fs.ic[s].d.type = "dev" \/ off > fs.ic[s].d.size
        THEN Fail(p, <<<<"iunlock", s>>>>)
        ELSE Then(p, <<<<"writei", f, off, off + n>>>>) /\ UNCHANGED reg
     /\ UNCHANGED <<fs, asleep, callVars>>

\* writei(): one block at a time, then the size; filewrite(): the offset.
Writei(p) ==
  LET f == Top(p)[2]
      s == file[f].ip
      off == Top(p)[3]
      end == Top(p)[4]
      m == Min({end - off, BSIZE - (off % BSIZE)})
      us == [i \in 1..m |-> <<Call(p).byte, "">>]
  IN /\ At(p, "writei")
     /\ IF off < end
        THEN /\ fs' = WriteBlock(fs, s, off, us)
             /\ Then(p, <<<<"writei", f, off + m, end>>>>)
             /\ UNCHANGED <<reg, file>>
        ELSE /\ fs' = WriteEnd(fs, s, end)
             /\ reg' = [reg EXCEPT ![p].ret = end - file[f].off]
             /\ file' = [file EXCEPT ![f].off = end]
             /\ Then(p, <<<<"iunlock", s>>>>)
     /\ UNCHANGED <<asleep, ofile, cwd>>

Filestat(p) ==
  LET s == file[Top(p)[2]].ip
      d == fs.ic[s].d
  IN /\ At(p, "fstat")
     /\ reg' = [reg EXCEPT ![p].data = <<d.type, d.nlink, d.size>>]
     /\ Then(p, <<<<"iunlock", s>>>>)
     /\ UNCHANGED <<fs, asleep, callVars>>

----------------------------------------------------------------------------
(* sysfile.c: sys_link.                                                     *)

\* The old name is found: a link more, before the new name exists.
Link(p) ==
  /\ At(p, "link")
  /\ IF Ip(p) = 0 THEN Fail(p, <<>>)
     ELSE Then(p, IlockSteps(Ip(p)) \o <<<<"link2">>>>) /\ UNCHANGED reg
  /\ UNCHANGED <<fs, asleep, callVars>>

\* nlink++ and nlink-- with iupdate().  Mutant: nothing is taken back.
LinkCount(f, s) == Iupdate([f EXCEPT !.ic[s].d.nlink = @ + 1], s)
LinkStays(f, s) == f
LinkUncount(f, s) == Iupdate([f EXCEPT !.ic[s].d.nlink = @ - 1], s)

Link2(p) ==
  /\ At(p, "link2")
  /\ IF Inode(p).d.type = "dir"
     THEN Fail(p, Unlockput(Ip(p))) /\ UNCHANGED fs
     ELSE /\ fs' = LinkCount(fs, Ip(p))
          /\ reg' = [reg EXCEPT ![p].path = Call(p).new]
          /\ Then(p, <<<<"iunlock", Ip(p)>>>> \o NamexSteps(TRUE)
                     \o <<<<"link3", Ip(p)>>>>)
  /\ UNCHANGED <<asleep, callVars>>

\* The undoing of the link at `bad:`.
BadSteps(s) == IlockSteps(s) \o <<<<"badlink", s>>>>

Link3(p) ==
  LET ip == Top(p)[2]
  IN /\ At(p, "link3")
     /\ IF Ip(p) = 0 THEN Then(p, BadSteps(ip))
        ELSE Then(p, IlockSteps(Ip(p)) \o <<<<"link4", ip>>>>)
     /\ UNCHANGED <<fs, reg, asleep, callVars>>

\* dirlink() of the new name; it fails if the name exists.
Link4(p) ==
  LET ip == Top(p)[2]
      dp == Ip(p)
      f == BmapAll(fs, dp, Blocks(fs.ic[dp].d.size))
      found == Matches(f, f.ic[dp].d, reg[p].name)
  IN /\ At(p, "link4")
     /\ IF found # {}
        THEN /\ fs' = f
             /\ Then(p, IgetSteps(Unit(f, f.ic[dp].d, Min(found))[1])
                        \o <<<<"putip">>>> \o Unlockput(dp) \o BadSteps(ip))
             /\ UNCHANGED reg
        ELSE /\ fs' = Dirlink(fs, dp, reg[p].name, fs.ic[ip].inum)
             /\ Return(p, 0, Unlockput(dp) \o <<<<"iput", ip>>>>)
     /\ UNCHANGED <<asleep, callVars>>

\* The iput() of an inode that dirlookup() has just returned.
Putip(p) ==
  /\ At(p, "putip")
  /\ Then(p, <<<<"iput", Ip(p)>>>>)
  /\ UNCHANGED <<fs, reg, asleep, callVars>>

Badlink(p) ==
  LET ip == Top(p)[2]
  IN /\ At(p, "badlink")
     /\ fs' = LinkUncount(fs, ip)
     /\ Fail(p, Unlockput(ip))
     /\ UNCHANGED <<asleep, callVars>>

----------------------------------------------------------------------------
(* sysfile.c: sys_unlink.                                                   *)

Unlink(p) ==
  /\ At(p, "unlink")
  /\ IF Ip(p) = 0 THEN Fail(p, <<>>)
     ELSE Then(p, IlockSteps(Ip(p)) \o <<<<"unlink2", Ip(p)>>>>) /\ UNCHANGED reg
  /\ UNCHANGED <<fs, asleep, callVars>>

Unlink2(p) ==
  LET dp == Top(p)[2]
      f == BmapAll(fs, dp, Blocks(fs.ic[dp].d.size))
      found == Matches(f, f.ic[dp].d, reg[p].name)
  IN /\ At(p, "unlink2")
     /\ IF reg[p].name \in {".", ".."}
        THEN Fail(p, Unlockput(dp)) /\ UNCHANGED fs
        ELSE /\ fs' = f
             /\ IF found = {} THEN Fail(p, Unlockput(dp))
                ELSE /\ Then(p, IgetSteps(Unit(f, f.ic[dp].d, Min(found))[1])
                                \o <<<<"lockip">>, <<"unlink3", dp, Min(found)>>>>)
                     /\ UNCHANGED reg
     /\ UNCHANGED <<asleep, callVars>>

\* ilock() of an inode that iget() has just returned.
Lockip(p) ==
  /\ At(p, "lockip")
  /\ Then(p, IlockSteps(Ip(p)))
  /\ UNCHANGED <<fs, reg, asleep, callVars>>

\* Both locked: erase the entry, then the link count of the parent
\* directory if a subdirectory goes.
Unlink3(p) ==
  LET dp == Top(p)[2]
      off == Top(p)[3]
      ip == Ip(p)
      d == fs.ic[ip].d
      erased == WriteEntry(fs, dp, off, Zero)
  IN /\ At(p, "unlink3")
     /\ IF d.nlink < 1
        THEN fs' = Panic(fs, "unlink: nlink < 1") /\ UNCHANGED <<reg, todo>>
        ELSE IF d.type = "dir" /\ ~IsDirEmpty(fs, d)
        THEN UNCHANGED fs /\ Fail(p, Unlockput(ip) \o Unlockput(dp))
        ELSE /\ fs' = IF d.type = "dir" THEN LinkUncount(erased, dp) ELSE erased
             /\ Then(p, Unlockput(dp) \o <<<<"unlink4", ip>>>>)
             /\ UNCHANGED reg
     /\ UNCHANGED <<asleep, callVars>>

Unlink4(p) ==
  LET ip == Top(p)[2]
  IN /\ At(p, "unlink4")
     /\ fs' = LinkUncount(fs, ip)
     /\ Return(p, 0, Unlockput(ip))
     /\ UNCHANGED <<asleep, callVars>>

----------------------------------------------------------------------------
(* sysfile.c: create(), sys_open, sys_mkdir, sys_mknod, sys_chdir.          *)

NewType(c) == CASE c.call = "open" -> "file"
                [] c.call = "mkdir" -> "dir"
                [] c.call = "mknod" -> "dev"

\* create(): lock the parent.
Create(p) ==
  /\ At(p, "create")
  /\ Then(p, IF Ip(p) = 0 THEN <<>>
             ELSE IlockSteps(Ip(p)) \o <<<<"create2", Ip(p)>>>>)
  /\ UNCHANGED <<fs, reg, asleep, callVars>>

\* create(): the name exists, or an inode is allocated for it.
Create2(p) ==
  LET dp == Top(p)[2]
      f == BmapAll(fs, dp, Blocks(fs.ic[dp].d.size))
      found == Matches(f, f.ic[dp].d, reg[p].name)
  IN /\ At(p, "create2")
     /\ fs' = f
     /\ Then(p, IF found # {}
                THEN IgetSteps(Unit(f, f.ic[dp].d, Min(found))[1]) \o Unlockput(dp)
                     \o <<<<"lockip">>, <<"exists">>>>
                ELSE <<<<"ialloc", NewType(Call(p)), 1>>, <<"lockip">>,
                       <<"create3", dp>>>>)
     /\ UNCHANGED <<reg, asleep, callVars>>

\* create(): an existing file can be opened, nothing else.
Exists(p) ==
  LET ok == Call(p).call = "open" /\ Inode(p).d.type = "file"
  IN /\ At(p, "exists")
     /\ Then(p, IF ok THEN <<>> ELSE Unlockput(Ip(p)))
     /\ IF ok THEN UNCHANGED reg ELSE ReturnIp(p, 0)
     /\ UNCHANGED <<fs, asleep, callVars>>

\* The new inode before it has a name, with "." and ".." in a directory.
NewInode(f, ip, dp, type) ==
  LET g == Iupdate([f EXCEPT !.ic[ip].d.nlink = 1], ip)
  IN IF type # "dir" THEN g
     ELSE Dirlink(Dirlink(LinkCount(g, dp), ip, ".", f.ic[ip].inum),
                  ip, "..", f.ic[dp].inum)

\* create(): parent and new inode are locked.
Create3(p) ==
  LET dp == Top(p)[2]
      ip == Ip(p)
  IN /\ At(p, "create3")
     /\ fs' = Dirlink(NewInode(fs, ip, dp, NewType(Call(p))), dp, reg[p].name,
                      fs.ic[ip].inum)
     /\ Then(p, Unlockput(dp))
     /\ UNCHANGED <<reg, asleep, callVars>>

\* sys_open without O_CREATE.
Open(p) ==
  /\ At(p, "open")
  /\ IF Ip(p) = 0 THEN Fail(p, <<>>)
     ELSE Then(p, IlockSteps(Ip(p)) \o <<<<"open1">>>>) /\ UNCHANGED reg
  /\ UNCHANGED <<fs, asleep, callVars>>

Open1(p) ==
  /\ At(p, "open1")
  /\ IF Inode(p).d.type = "dir" /\ Call(p).mode # {}
     THEN Fail(p, Unlockput(Ip(p)))
     ELSE Then(p, <<<<"open2">>>>) /\ UNCHANGED reg
  /\ UNCHANGED <<fs, asleep, callVars>>

\* sys_open: filealloc() and fdalloc(), or give everything back.
Open2(p) ==
  LET f == Min(FreeFiles)
      fd == Min(FreeFds(p))
  IN /\ At(p, "open2")
     /\ IF Ip(p) = 0 THEN Fail(p, <<>>) /\ UNCHANGED <<file, ofile>>
        ELSE IF FreeFiles = {} \/ FreeFds(p) = {}
        THEN Fail(p, Unlockput(Ip(p))) /\ UNCHANGED <<file, ofile>>
        ELSE /\ file' = [file EXCEPT ![f].ref = 1]
             /\ ofile' = [ofile EXCEPT ![p][fd] = f]
             /\ Return(p, fd, <<<<"iunlock", Ip(p)>>, <<"opened", f>>>>)
     /\ UNCHANGED <<fs, asleep, cwd>>

Opened(p) ==
  LET f == Top(p)[2]
      mode == Call(p).mode
  IN /\ At(p, "opened")
     /\ file' = [file EXCEPT ![f] =
                   [ref |-> @.ref, type |-> "inode", ip |-> Ip(p), off |-> 0,
                    readable |-> "wronly" \notin mode,
                    writable |-> mode \cap {"wronly", "rdwr"} # {}]]
     /\ Then(p, <<>>)
     /\ UNCHANGED <<fs, reg, asleep, ofile, cwd>>

\* sys_mkdir and sys_mknod after create().
Made(p) ==
  /\ At(p, "made")
  /\ IF Ip(p) = 0 THEN Fail(p, <<>>) ELSE Return(p, 0, Unlockput(Ip(p)))
  /\ UNCHANGED <<fs, asleep, callVars>>

Chdir(p) ==
  /\ At(p, "chdir")
  /\ IF Ip(p) = 0 THEN Fail(p, <<>>)
     ELSE Then(p, IlockSteps(Ip(p)) \o <<<<"chdir2">>>>) /\ UNCHANGED reg
  /\ UNCHANGED <<fs, asleep, callVars>>

Chdir2(p) ==
  /\ At(p, "chdir2")
  /\ IF Inode(p).d.type # "dir" THEN Fail(p, Unlockput(Ip(p)))
     ELSE Return(p, 0, <<<<"iunlock", Ip(p)>>, <<"iput", cwd[p]>>, <<"setcwd">>>>)
  /\ UNCHANGED <<fs, asleep, callVars>>

Setcwd(p) ==
  /\ At(p, "setcwd")
  /\ cwd' = [cwd EXCEPT ![p] = Ip(p)]
  /\ Then(p, <<>>)
  /\ UNCHANGED <<fs, reg, asleep, file, ofile>>

----------------------------------------------------------------------------
\* A step inside fs.c changes neither files nor descriptors.
FsStep(p) ==
  /\ \/ Iget(p) \/ IlockSleep(p) \/ Ilock(p) \/ Iunlock(p) \/ Iput(p)
     \/ Itrunc(p) \/ Ifree(p) \/ Ialloc(p) \/ Namei(p, cwd[p]) \/ Namex(p)
     \/ Element(p)
  /\ UNCHANGED callVars

\* A stage of a handler.
HandlerStep(p) ==
  \/ Fileclose(p) \/ Fileread(p) \/ Filewrite(p) \/ Writei(p) \/ Filestat(p)
  \/ Link(p) \/ Link2(p) \/ Link3(p) \/ Link4(p) \/ Putip(p) \/ Badlink(p)
  \/ Unlink(p) \/ Unlink2(p) \/ Lockip(p) \/ Unlink3(p) \/ Unlink4(p)
  \/ Create(p) \/ Create2(p) \/ Exists(p) \/ Create3(p)
  \/ Open(p) \/ Open1(p) \/ Open2(p) \/ Opened(p) \/ Made(p)
  \/ Chdir(p) \/ Chdir2(p) \/ Setcwd(p) \/ Gone(p)

Step(p) == FsStep(p) \/ HandlerStep(p)
=============================================================================
