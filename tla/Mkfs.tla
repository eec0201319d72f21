-------------------------------- MODULE Mkfs --------------------------------
(***************************************************************************)
(* The image tool (tools/mkfs.c), as a function from a directory of the    *)
(* host to the disk image the kernel boots from.  Inodes and blocks are    *)
(* handed out in order and never given back.                               *)
(*                                                                         *)
(* A host directory is a sequence of entries in the order readdir_r()      *)
(* returns them: [name, dir, items], where items are the entries of a      *)
(* subdirectory or the bytes of a file.                                    *)
(***************************************************************************)
EXTENDS Integers, Sequences, SequencesExt

CONSTANTS NInodes, NBlocks, NDIRECT, BSIZE

LOCAL Zero == <<0, "">>
LOCAL Free == [type |-> "free", nlink |-> 0, size |-> 0,
               addrs |-> [i \in 0..NDIRECT |-> 0]]

\* mkfs(): a disk of zeroes.
Blank == [blk |-> [b \in 1..NBlocks |-> [i \in 0..(BSIZE - 1) |-> Zero]],
          dino |-> [n \in 1..(NInodes - 1) |-> Free],
          freeblock |-> 1, freeinode |-> 1]

\* ialloc(): the next inode, with one link and no bytes.
Ialloc(img, type) ==
  [img EXCEPT !.dino[img.freeinode] = [Free EXCEPT !.type = type, !.nlink = 1],
              !.freeinode = @ + 1]

\* iappend(): a block, and an indirect block, where there is none yet.
WithBlock(img, inum, fbn) ==
  LET addrs == img.dino[inum].addrs
      next == img.freeblock
      ind == IF addrs[NDIRECT] = 0 THEN next ELSE addrs[NDIRECT]
      g == IF addrs[NDIRECT] # 0 THEN img
           ELSE [img EXCEPT !.dino[inum].addrs[NDIRECT] = next, !.freeblock = @ + 1]
  IN IF fbn < NDIRECT THEN
       IF addrs[fbn] # 0 THEN img
       ELSE [img EXCEPT !.dino[inum].addrs[fbn] = next, !.freeblock = @ + 1]
     ELSE IF g.blk[ind][fbn - NDIRECT][1] # 0 THEN g
     ELSE [g EXCEPT !.blk[ind][fbn - NDIRECT] = <<g.freeblock, "">>,
                    !.freeblock = @ + 1]

\* iappend(): one more unit.
AppendUnit(img, inum, u) ==
  LET off == img.dino[inum].size
      fbn == off \div BSIZE
      g == WithBlock(img, inum, fbn)
      b == IF fbn < NDIRECT THEN g.dino[inum].addrs[fbn]
           ELSE g.blk[g.dino[inum].addrs[NDIRECT]][fbn - NDIRECT][1]
  IN [g EXCEPT !.blk[b][off % BSIZE] = u, !.dino[inum].size = @ + 1]

Iappend(img, inum, us) ==
  FoldLeft(LAMBDA g, u : AppendUnit(g, inum, u), img, us)

\* The size add_dir() leaves: whole blocks, and one more when they are full.
DirSize(off) == ((off \div BSIZE) + 1) * BSIZE

RECURSIVE AddDir(_, _, _, _)
\* add_dir(): "." and "..", then every entry with what is below it.
AddDir(img, entries, cur, parent) ==
  LET AddEntry(g, e) ==
        LET child == g.freeinode
            h == IF e.dir
                 THEN AddDir(Ialloc(g, "dir"), e.items, child, cur)
                 ELSE Iappend(Ialloc(g, "file"), child,
                              [i \in DOMAIN e.items |-> <<e.items[i], "">>])
        IN Iappend(h, cur, <<<<child, e.name>>>>)
      dots == Iappend(img, cur, <<<<cur, ".">>, <<parent, "..">>>>)
      full == FoldLeft(AddEntry, dots, entries)
  IN [full EXCEPT !.dino[cur].size = DirSize(@)]

\* main(): the root directory is inode 1; balloc() marks what was used.
Image(root) ==
  LET img == AddDir(Ialloc(Blank, "dir"), root, 1, 1)
  IN [blk |-> img.blk, dino |-> img.dino, used |-> 1..(img.freeblock - 1)]
=============================================================================
