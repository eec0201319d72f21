------------------------------ MODULE FileSys ------------------------------
(***************************************************************************)
(* The file system of fs.c: blocks, inodes, directories and path names, as *)
(* several processes use it at once.                                       *)
(*                                                                         *)
(* A process inside the file system has a list of things still to do, like *)
(* the frames on its kernel stack: `todo[p]` starts with the step it is    *)
(* about to take.  A step is what one process does between two points      *)
(* where another one can matter: a critical section of icache.lock, an     *)
(* access to one on-disk inode, or work on an inode whose I_BUSY lock the  *)
(* process holds.                                                          *)
(*                                                                         *)
(* Sizes are counted in units: a byte, a directory entry and a block       *)
(* number take one unit each, and every unit is a pair of a number and a   *)
(* name, so that the same block can hold any of them.                      *)
(***************************************************************************)
EXTENDS Integers, Sequences, FiniteSets, FiniteSetsExt, SequencesExt

CONSTANTS
  Procs,      \* processes
  NINODE,     \* slots of the inode cache
  NInodes,    \* superblock: ninodes; inode 0 is not used
  NBlocks,    \* superblock: data blocks are 1..NBlocks
  NDIRECT,    \* direct block addresses of an inode
  BSIZE       \* units per block

ASSUME FileSysAssumption ==
  /\ \A n \in {NINODE, NInodes, NBlocks, NDIRECT, BSIZE} : n \in Nat \ {0}
  /\ IsFiniteSet(Procs)

VARIABLES
  fs,       \* the disk and the inode cache, with the panic if there was one
  todo,     \* what each process still has to do inside the kernel
  reg,      \* the local variables of its system call
  asleep    \* processes asleep in ilock()

fsVars == <<fs, todo, reg, asleep>>

Slot == 1..NINODE
Inum == 1..(NInodes - 1)
Block == 1..NBlocks
NINDIRECT == BSIZE
MAXFILE == NDIRECT + NINDIRECT
ROOTINO == 1

Zero == <<0, "">>
ZeroBlock == [i \in 0..(BSIZE - 1) |-> Zero]
NoAddrs == [i \in 0..NDIRECT |-> 0]
FreeDinode == [type |-> "free", nlink |-> 0, size |-> 0, addrs |-> NoAddrs]
EmptySlot == [inum |-> 0, ref |-> 0, busy |-> FALSE, valid |-> FALSE,
              d |-> FreeDinode]

Panic(f, msg) == [f EXCEPT !.panic = msg]
Blocks(n) == (n + BSIZE - 1) \div BSIZE

----------------------------------------------------------------------------
(* Blocks.  The buffer of the bitmap is held from the test of a bit to its  *)
(* write, so an allocation is one step.  A block is cleared when it is      *)
(* freed and never when it is allocated.                                    *)

FreeBlocks(f) == Block \ f.used

\* balloc() takes the first clear bit.  The bitmap block has BPB bits, more
\* than the disk has blocks, and the loop goes through all of them: on a full
\* disk balloc() does not panic but returns a block behind the end of the
\* disk, and the model stops.
Balloc(f) ==
  IF FreeBlocks(f) = {} THEN Panic(f, "block behind the end of the disk")
  ELSE [f EXCEPT !.used = @ \cup {Min(FreeBlocks(f))}]

\* bfree() with its bzero().
Bfree(f, b) ==
  IF b \notin f.used THEN Panic(f, "freeing free block")
  ELSE [f EXCEPT !.used = @ \ {b}, !.blk[b] = ZeroBlock]

----------------------------------------------------------------------------
(* Inode contents: bmap(), and the blocks of an inode.                      *)

Addr(f, d, bn) ==
  IF bn < NDIRECT THEN d.addrs[bn]
  ELSE IF d.addrs[NDIRECT] = 0 THEN 0
  ELSE f.blk[d.addrs[NDIRECT]][bn - NDIRECT][1]

\* Allocate a block if addrs[i] of slot s has none.
BmapDirect(f, s, i) ==
  IF f.ic[s].d.addrs[i] # 0 \/ FreeBlocks(f) = {} THEN
    IF f.ic[s].d.addrs[i] # 0 THEN f ELSE Balloc(f)
  ELSE [Balloc(f) EXCEPT !.ic[s].d.addrs[i] = Min(FreeBlocks(f))]

\* Return the file system in which block bn of slot s is mapped.
Bmap(f, s, bn) ==
  IF bn < NDIRECT THEN BmapDirect(f, s, bn)
  ELSE IF bn >= MAXFILE THEN Panic(f, "bmap: out of range")
  ELSE LET g == BmapDirect(f, s, NDIRECT)
           a == g.ic[s].d.addrs[NDIRECT]
       IN IF g.panic # "" \/ g.blk[a][bn - NDIRECT][1] # 0 THEN g
          ELSE IF FreeBlocks(g) = {} THEN Balloc(g)
          ELSE [Balloc(g) EXCEPT
                  !.blk[a][bn - NDIRECT] = <<Min(FreeBlocks(g)), "">>]

\* Reading goes through bmap() too.
BmapAll(f, s, n) == FoldLeft(LAMBDA g, bn : Bmap(g, s, bn), f,
                             [i \in 1..n |-> i - 1])

\* The unit at offset off of an inode whose block is mapped.
Unit(f, d, off) == f.blk[Addr(f, d, off \div BSIZE)][off % BSIZE]

\* iupdate(): copy the cached inode to the disk.
Iupdate(f, s) == [f EXCEPT !.dino[f.ic[s].inum] = f.ic[s].d]

\* The body of the loop of writei(): units `us` that fit into one block.
WriteBlock(f, s, off, us) ==
  LET g == Bmap(f, s, off \div BSIZE)
      b == Addr(g, g.ic[s].d, off \div BSIZE)
      o == off % BSIZE
  IN IF g.panic # "" THEN g
     ELSE [g EXCEPT !.blk[b] =
             [i \in 0..(BSIZE - 1) |->
                IF i \in o..(o + Len(us) - 1) THEN us[i - o + 1] ELSE @[i]]]

\* The end of writei(): a longer file is recorded on disk.
WriteEnd(f, s, off) ==
  IF off > f.ic[s].d.size THEN Iupdate([f EXCEPT !.ic[s].d.size = off], s)
  ELSE f

\* writei() of one directory entry.
WriteEntry(f, s, off, de) ==
  IF off \div BSIZE >= MAXFILE THEN Panic(f, "dirlink")
  ELSE LET g == WriteBlock(f, s, off, <<de>>)
       IN IF g.panic # "" THEN g ELSE WriteEnd(g, s, off + 1)

----------------------------------------------------------------------------
(* Directories.  dirlookup() looks at whole blocks, also behind the end of  *)
(* the directory; isdirempty() and the search for a free entry stop at it.  *)

Offsets(d) == 0..(Blocks(d.size) * BSIZE - 1)

Matches(f, d, name) ==
  {off \in Offsets(d) : /\ Unit(f, d, off)[1] # 0
                        /\ Unit(f, d, off)[2] = name}

\* The first empty entry, or the end of the directory.
EmptyEntry(f, d) ==
  Min({off \in 0..(d.size - 1) : Unit(f, d, off)[1] = 0} \cup {d.size})

\* dirlink() after its dirlookup() found nothing.
Dirlink(f, s, name, inum) ==
  LET g == BmapAll(f, s, Blocks(f.ic[s].d.size))
  IN IF g.panic # "" THEN g
     ELSE WriteEntry(g, s, EmptyEntry(g, g.ic[s].d), <<inum, name>>)

\* isdirempty(): only the first two entries, "." and "..", are in use.  Every
\* block of a directory that mkdir() made is mapped.
IsDirEmpty(f, d) == \A off \in 2..(d.size - 1) : Unit(f, d, off)[1] = 0

----------------------------------------------------------------------------
(* The steps of a process.                                                  *)

Top(p) == Head(todo[p])
At(p, step) == /\ fs.panic = "" /\ p \notin asleep
               /\ todo[p] # <<>> /\ Top(p)[1] = step

\* Replace the step at hand by others.
Then(p, steps) == todo' = [todo EXCEPT ![p] = steps \o Tail(@)]
\* The function whose step is at hand returns ip.
ReturnIp(p, s) == reg' = [reg EXCEPT ![p].ip = s]

IlockSteps(s) == <<<<"ilock", s>>>>
\* iunlockput()
Unlockput(s) == <<<<"iunlock", s>>, <<"iput", s>>>>
IgetSteps(inum) == <<<<"iget", inum>>>>

Cached(inum) == {s \in Slot : fs.ic[s].ref > 0 /\ fs.ic[s].inum = inum}
Empty == {s \in Slot : fs.ic[s].ref = 0}

\* iget(): the cached inode, or a fresh slot that is not yet valid.
Iget(p) ==
  /\ At(p, "iget")
  /\ LET inum == Top(p)[2] IN
     IF Cached(inum) # {} THEN
       LET s == Min(Cached(inum))
       IN fs' = [fs EXCEPT !.ic[s].ref = @ + 1] /\ ReturnIp(p, s)
     ELSE IF Empty # {} THEN
       LET s == Min(Empty)
       IN /\ fs' = [fs EXCEPT !.ic[s].inum = inum, !.ic[s].ref = 1,
                              !.ic[s].busy = FALSE, !.ic[s].valid = FALSE]
          /\ ReturnIp(p, s)
     ELSE fs' = Panic(fs, "iget: no inodes") /\ UNCHANGED reg
  /\ Then(p, <<>>)
  /\ UNCHANGED asleep

\* ilock(): wait while another process holds the inode.
IlockSleep(p) ==
  /\ At(p, "ilock") /\ fs.ic[Top(p)[2]].busy
  /\ asleep' = asleep \cup {p}
  /\ UNCHANGED <<fs, todo, reg>>

\* ilock(): take the inode and read it if it is not valid.  Nobody else
\* writes the on-disk inode while the slot is busy, so the read is part of
\* the step.
Ilock(p) ==
  LET s == Top(p)[2]
      d == IF fs.ic[s].valid THEN fs.ic[s].d ELSE fs.dino[fs.ic[s].inum]
  IN /\ At(p, "ilock") /\ ~fs.ic[s].busy
     /\ fs' = IF fs.ic[s].ref < 1 THEN Panic(fs, "ilock")
              ELSE IF d.type = "free" /\ ~fs.ic[s].valid
              THEN Panic(fs, "ilock: no type")
              ELSE [fs EXCEPT !.ic[s].busy = TRUE, !.ic[s].valid = TRUE,
                              !.ic[s].d = d]
     /\ Then(p, <<>>)
     /\ UNCHANGED <<reg, asleep>>

\* wakeup(ip).  Mutant: it is forgotten.
WakeupLost(s) == UNCHANGED asleep
Wakeup(s) == asleep' = asleep \ {q \in asleep : Top(q) = <<"ilock", s>>}

Iunlock(p) ==
  LET s == Top(p)[2]
  IN /\ At(p, "iunlock")
     /\ fs' = IF ~fs.ic[s].busy \/ fs.ic[s].ref < 1 THEN Panic(fs, "iunlock")
              ELSE [fs EXCEPT !.ic[s].busy = FALSE]
     /\ Wakeup(s)
     /\ Then(p, <<>>)
     /\ UNCHANGED reg

\* iput(): the inode has no other user and no name.  Mutant: other users are
\* not looked for.
LastUseAnyRef(i) == i.valid /\ i.d.nlink = 0
LastUse(i) == i.ref = 1 /\ i.valid /\ i.d.nlink = 0

\* iput(): drop a reference; the last one of a nameless inode frees it first.
Iput(p) ==
  LET s == Top(p)[2]
      i == fs.ic[s]
  IN /\ At(p, "iput")
     /\ IF LastUse(i)
        THEN /\ fs' = IF i.busy THEN Panic(fs, "iput busy")
                      ELSE [fs EXCEPT !.ic[s].busy = TRUE]
             /\ Then(p, <<<<"itrunc", s>>, <<"ifree", s>>>>)
        ELSE /\ fs' = [fs EXCEPT !.ic[s].ref = @ - 1]
             /\ Then(p, <<>>)
     /\ UNCHANGED <<reg, asleep>>

\* The blocks an indirect block names.
IndirectBlocks(f, b) == {f.blk[b][j][1] : j \in 0..(NINDIRECT - 1)} \ {0}

\* itrunc(): one direct block per step, then the indirect block with its
\* own; at the end the inode is written, first without its blocks and then
\* (iput) without its type.
Itrunc(p) ==
  LET s == Top(p)[2]
      addrs == fs.ic[s].d.addrs
      direct == {i \in 0..(NDIRECT - 1) : addrs[i] # 0}
      last == addrs[NDIRECT]
  IN /\ At(p, "itrunc")
     /\ \/ /\ direct # {}
           /\ fs' = [Bfree(fs, addrs[Min(direct)])
                       EXCEPT !.ic[s].d.addrs[Min(direct)] = 0]
           /\ UNCHANGED todo
        \/ /\ direct = {} /\ last # 0
           /\ fs' = [Bfree(FoldSet(LAMBDA b, f : Bfree(f, b), fs,
                                   IndirectBlocks(fs, last)), last)
                       EXCEPT !.ic[s].d.addrs[NDIRECT] = 0]
           /\ UNCHANGED todo
        \/ /\ direct = {} /\ last = 0
           /\ fs' = Iupdate([fs EXCEPT !.ic[s].d.size = 0,
                                       !.ic[s].d.type = "free"], s)
           /\ Then(p, <<>>)
     /\ UNCHANGED <<reg, asleep>>

\* The end of iput(): nothing of the slot is valid any more.
IfreeFlags(i) == [i EXCEPT !.busy = FALSE, !.valid = FALSE, !.ref = @ - 1]

Ifree(p) ==
  LET s == Top(p)[2]
  IN /\ At(p, "ifree")
     /\ fs' = [fs EXCEPT !.ic[s] = IfreeFlags(@)]
     /\ Wakeup(s)
     /\ Then(p, <<>>)
     /\ UNCHANGED reg

\* ialloc(): look at one on-disk inode, claim it or go on to the next.
Ialloc(p) ==
  LET type == Top(p)[2]
      k == Top(p)[3]
  IN /\ At(p, "ialloc")
     /\ IF k \notin Inum
        THEN fs' = Panic(fs, "ialloc: no inodes") /\ Then(p, <<>>)
        ELSE IF fs.dino[k].type = "free"
        THEN /\ fs' = [fs EXCEPT !.dino[k] = [FreeDinode EXCEPT !.type = type]]
             /\ Then(p, IgetSteps(k))
        ELSE Then(p, <<<<"ialloc", type, k + 1>>>>) /\ UNCHANGED fs
     /\ UNCHANGED <<reg, asleep>>

----------------------------------------------------------------------------
(* Paths.  A path is absolute or not and has a sequence of elements;        *)
(* skipelem() takes the first one, cut to DIRSIZ characters.  The only      *)
(* names longer than that are the ones in the domain of Long.               *)

Long == [n15 |-> "n14"]
NameOf(element) == IF element \in DOMAIN Long THEN Long[element] ELSE element

NamexSteps(parent) == <<<<"namei", parent>>, <<"namex", parent>>>>

\* namex(): the start, at the root or at the current directory.
Namei(p, cwd) ==
  /\ At(p, "namei")
  /\ IF reg[p].path.abs
     THEN Then(p, IgetSteps(ROOTINO)) /\ UNCHANGED <<fs, reg>>
     ELSE /\ fs' = [fs EXCEPT !.ic[cwd].ref = @ + 1]      \* idup()
          /\ ReturnIp(p, cwd)
          /\ Then(p, <<>>)
  /\ UNCHANGED asleep

\* namex(): the test of the loop.
Namex(p) ==
  LET parent == Top(p)[2]
      s == reg[p].ip
  IN /\ At(p, "namex")
     /\ IF reg[p].path.els # <<>>
        THEN Then(p, IlockSteps(s) \o <<<<"element", parent>>>>) /\ UNCHANGED reg
        ELSE IF parent
        THEN Then(p, <<<<"iput", s>>>>) /\ ReturnIp(p, 0)
        ELSE Then(p, <<>>) /\ UNCHANGED reg
     /\ UNCHANGED <<fs, asleep>>

\* namex(): the body of the loop, with the directory locked.
Element(p) ==
  LET parent == Top(p)[2]
      s == reg[p].ip
      rest == Tail(reg[p].path.els)
      name == NameOf(Head(reg[p].path.els))
      f == BmapAll(fs, s, Blocks(fs.ic[s].d.size))
      found == Matches(f, f.ic[s].d, name)
      Step(ip) == reg' = [reg EXCEPT ![p].path.els = rest, ![p].name = name,
                                     ![p].ip = ip]
  IN /\ At(p, "element")
     /\ IF fs.ic[s].d.type # "dir"
        THEN Then(p, Unlockput(s)) /\ Step(0) /\ UNCHANGED fs
        ELSE IF parent /\ rest = <<>>
        THEN Then(p, <<<<"iunlock", s>>>>) /\ Step(s) /\ UNCHANGED fs
        ELSE /\ fs' = f
             /\ IF f.panic # "" \/ found = {}
                THEN Then(p, Unlockput(s)) /\ Step(0)
                ELSE /\ Then(p, IgetSteps(Unit(f, f.ic[s].d, Min(found))[1])
                                \o Unlockput(s) \o <<<<"namex", parent>>>>)
                     /\ Step(s)
     /\ UNCHANGED asleep

=============================================================================
