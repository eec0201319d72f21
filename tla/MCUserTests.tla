---------------------------- MODULE MCUserTests ----------------------------
\* Instances of the file system tests for TLC.
EXTENDS UserTests

HostFile(n) == [name |-> n, dir |-> FALSE, items |-> <<9>>]
\* Three files: the root directory does not end at the end of a block.
Image == <<[HostFile("echo") EXCEPT !.items = <<9, 8, 7, 6, 5>>],
           HostFile("README"), HostFile("init")>>

AllTests == DOMAIN Scripts

F == Rel(<<"d", "f">>)
G == Rel(<<"d", "g">>)
D == Rel(<<"d">>)
\* Calls on a directory d and the names f and g in it.
Calls == {open(F, CREATE_RDWR), open(F, {}), open(G, CREATE_RDWR), mkdir(G),
          unlink(F), unlink(G), link(F, G), link(G, F), chdir(D),
          write("fd", 2, BSIZE), read("fd", 2), close("fd"),
          dup("fd"), pipe}
Changes == {unlink(F), link(F, G), unlink(G), open(G, CREATE_RDWR), mkdir(G)}
CallPairs == {<<a, b>> : a, b \in Changes} \cup {<<a>> : a \in Calls \cup {unlink(D)}}

EmptyDir == <<Ok(mkdir(D))>>
OpenFile == EmptyDir \o <<Get("fd", open(F, CREATE_RDWR)), Do(write("fd", 1, 1))>>

\* A call of the parent against one or two of the child, d/f exists.
FileRaces == [prelude : {OpenFile}, calls : {<<a>> : a \in Calls}, child : CallPairs]

\* Names are made in a directory, and removed, while the directory is removed.
README == Rel(<<"README">>)
In(n) == Rel(<<n>>)
MakeName == {<<open(G, CREATE)>>, <<mkdir(G)>>, <<link(README, G)>>,
             <<chdir(D), open(In("g"), CREATE), unlink(In("g"))>>,
             <<chdir(D), mkdir(In("g")), unlink(In("g"))>>}
RemoveDir == {<<unlink(D)>>, <<unlink(D), open(In("x"), CREATE)>>}
DirRaces == [prelude : {EmptyDir}, calls : MakeName, child : RemoveDir]

AllRaces == FileRaces \cup DirRaces
=============================================================================
