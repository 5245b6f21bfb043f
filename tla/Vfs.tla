--------------------------------- MODULE Vfs ---------------------------------
(***************************************************************************)
(* The virtual file system (kernel/vfs.c) over the RAM file system         *)
(* (drivers/fs/ramfs.c): nodes with reference counts in a cache keyed by   *)
(* mount point and inode, and the operations on them. A lookup takes one   *)
(* step per path component. A node comes from kmalloc, so the fields its   *)
(* creator does not set have any value: the reference count and the links  *)
(* of the AVL tree.                                                        *)
(*                                                                         *)
(* What a freed node or a wild pointer leads to is not followed: mode is   *)
(* then "wild", or "overrun" past the end of an array. An access to NULL,  *)
(* through a pointer or as a function, halts.                              *)
(***************************************************************************)
EXTENDS Integers, Sequences, FiniteSets, FiniteSetsExt

CONSTANTS
  Ids,          (* Blocks kmalloc can return for nodes: 1 .. n.            *)
  Memory,       (* What new memory contains where a node has its reference *)
                (* count and its links: [ref, links], links is "are NULL". *)
  RefWrap,      (* Reference counts are modulo this: 2^32.                 *)
  RootInode,    (* DIRCUTOFF.                                              *)
  Children,     (* Directory inode -> sequence of [name, inode].           *)
  FileSize,     (* Bytes of the file.                                      *)
  SizeWrap,     (* offset + size is modulo this: 2^64.                     *)
  Paths, Offsets, Sizes, Indices,   (* Arguments of callers.               *)
  MaxOpen       (* Bound: opens that are not closed.                       *)

VARIABLES nodes, tree, walk, known, opens, contents, ret, mode, hasOpen
vars == <<nodes, tree, walk, known, opens, contents, ret, mode, hasOpen>>

None == 0
Idle == [at |-> None, path |-> <<>>, rest |-> <<>>, why |-> "none"]
Unused == [state |-> "unused", inode |-> 0, type |-> "file", ref |-> 0, junk |-> 0,
           links |-> TRUE, mountpoint |-> None, mount_ptr |-> None]

NewNode(inode, type, mountpoint, m) ==
  [Unused EXCEPT !.state = "live", !.inode = inode, !.type = type, !.ref = m.ref, !.junk = m.ref,
                 !.links = m.links, !.mountpoint = mountpoint]

(* vfs_init keeps a reference on the root.                                 *)
Init ==
  /\ \E m \in Memory :
       nodes = [i \in Ids |-> IF i = 1
                  THEN [NewNode(RootInode, "dir", 1, m) EXCEPT !.ref = (m.ref + 1) % RefWrap] ELSE Unused]
  /\ tree = {} /\ walk = Idle /\ known = {1} /\ opens = [i \in Ids |-> 0]
  /\ contents = TRUE /\ ret = "ok" /\ mode = "ok" /\ hasOpen \in BOOLEAN

Live(i) == i # None /\ nodes[i].state = "live"
FirstUnused == {i \in Ids : nodes[i].state = "unused" /\ \A j \in Ids : nodes[j].state = "unused" => i <= j}
Stop(m) == mode' = m /\ UNCHANGED <<nodes, tree, walk, known, opens, contents, ret, hasOpen>>

Ready == mode = "ok" /\ walk = Idle

(* The second file system: its root is in no tree.                         *)
ramfs_get_fs ==
  /\ Ready /\ \A i \in Ids \ {1} : nodes[i].inode # RootInode
  /\ \E i \in FirstUnused, m \in Memory : nodes' = [nodes EXCEPT ![i] = NewNode(RootInode, "dir", i, m)]
  /\ UNCHANGED <<tree, walk, known, opens, contents, ret, mode, hasOpen>>

-----------------------------------------------------------------------------
(* vfs_lookup and vfs_finddir.                                             *)

Lookup(path, why) ==
  /\ Ready
  /\ walk' = [at |-> 1, path |-> path, rest |-> path, why |-> why]
  /\ ret' = "ok"
  /\ UNCHANGED <<nodes, tree, known, opens, contents, mode, hasOpen>>

IsDir(inode) == inode \in DOMAIN Children
TypeOf(inode) == IF IsDir(inode) THEN "dir" ELSE "file"

(* Mutant: the name is not compared.                                       *)
EntriesAny(inode, name) == {Children[inode][k] : k \in DOMAIN Children[inode]}

(* ramfs_finddir.                                                          *)
Entries(inode, name) == {e \in {Children[inode][k] : k \in DOMAIN Children[inode]} : e.name = name}

(* A mount point is followed to the root of the file system it is in.      *)
Dir == IF nodes[walk.at].type = "mountpoint" THEN nodes[walk.at].mountpoint ELSE walk.at

Found == IF nodes[Dir].type = "dir" THEN Entries(nodes[Dir].inode, Head(walk.rest)) ELSE {}

HasKey(i, mp, inode) == nodes[i].mountpoint = mp /\ nodes[i].inode = inode

(* A search of the tree may meet a freed node or follow links that were    *)
(* never set, and must meet a freed node that has its key.                 *)
MayGoWild(mp, inode) == \E i \in tree : ~Live(i) \/ (~nodes[i].links /\ ~HasKey(i, mp, inode))
MustGoWild(mp, inode) == \E i \in tree : ~Live(i) /\ HasKey(i, mp, inode)

(* Mutant: the node left behind is freed without a look at its references. *)
LeaveAlways(n) == [n EXCEPT ![walk.at].state = "freed"]

(* The node left behind is freed if it has no reference, and stays in the  *)
(* tree.                                                                   *)
Leave(n) == IF n[walk.at].ref = 0 THEN [n EXCEPT ![walk.at].state = "freed"] ELSE n

(* Mutant: the lookup goes on to the root mounted on a stub.               *)
StepThrough(to) == walk' = [walk EXCEPT
  !.at = IF to # None /\ nodes[to].type = "mountpoint" THEN nodes[to].mount_ptr ELSE to,
  !.rest = IF to = None THEN <<>> ELSE Tail(@)]

Step(to) == walk' = [walk EXCEPT !.at = to, !.rest = IF to = None THEN <<>> ELSE Tail(@)]

Walking == mode = "ok" /\ walk.at # None /\ walk.rest # <<>>

WalkWild ==
  /\ mode = "ok" /\ walk.at # None
  /\ \/ (Walking \/ walk.why # "lookup") /\ ~(Live(walk.at) /\ Live(nodes[walk.at].mountpoint))
     \/ Walking /\ \E e \in Found : ~contents \/ MayGoWild(nodes[Dir].mountpoint, e.inode)
  /\ Stop("wild")

WalkMiss ==
  /\ Walking /\ Live(walk.at) /\ Live(Dir) /\ Found = {}
  /\ nodes' = Leave(nodes) /\ Step(None)
  /\ UNCHANGED <<tree, known, opens, contents, ret, mode, hasOpen>>

Cached(mp, inode) == {i \in tree : Live(i) /\ HasKey(i, mp, inode)}

Reached == Walking /\ Live(walk.at) /\ Live(Dir) /\ contents

WalkHit ==
  /\ Reached
  /\ \E e \in Found : \E i \in Cached(nodes[Dir].mountpoint, e.inode) :
       /\ ~MustGoWild(nodes[Dir].mountpoint, e.inode)
       /\ nodes' = Leave(nodes) /\ Step(i)
  /\ UNCHANGED <<tree, known, opens, contents, ret, mode, hasOpen>>

(* Mutant: a node that is in the cache is created again.                   *)
MissingAlways(mp, inode) == ~MustGoWild(mp, inode)

Missing(mp, inode) == ~MustGoWild(mp, inode) /\ Cached(mp, inode) = {}

(* NULL from kmalloc is not checked.                                       *)
WalkCreate ==
  /\ Reached
  /\ \E e \in Found, m \in Memory :
       LET mp == nodes[Dir].mountpoint IN
       /\ Missing(mp, e.inode)
       /\ \/ Stop("halted")
          \/ \E i \in FirstUnused :
               /\ nodes' = Leave([nodes EXCEPT ![i] = NewNode(e.inode, TypeOf(e.inode), mp, m)])
               /\ tree' = tree \cup {i}
               /\ Step(i)
               /\ UNCHANGED <<known, opens, contents, ret, mode, hasOpen>>

-----------------------------------------------------------------------------
(* What the lookup was for.                                                *)

Arrived(why) == mode = "ok" /\ walk.why = why /\ (walk.at = None \/ walk.rest = <<>>)
ArrivedLive(why) == Arrived(why) /\ (walk.at = None \/ (Live(walk.at) /\ Live(nodes[walk.at].mountpoint)))

LookupDone ==
  /\ Arrived("lookup")
  /\ known' = known \cup ({walk.at} \ {None}) /\ walk' = Idle
  /\ UNCHANGED <<nodes, tree, opens, contents, ret, mode, hasOpen>>

(* Mutant: a count does not wrap.                                          *)
PlusWide(n, i, k) == [n EXCEPT ![i].ref = @ + k]

Plus(n, i, k) == [n EXCEPT ![i].ref = (@ + k) % RefWrap]

Mounted(stub, fs) == [nodes EXCEPT
  ![stub].type = "mountpoint", ![stub].mount_ptr = fs, ![fs].mount_ptr = stub]

(* The result of the lookup is not checked, nor that the driver has an     *)
(* open function.                                                          *)
vfs_mount(fs) ==
  /\ ArrivedLive("mount")
  /\ \/ walk.at = None /\ Stop("halted")
     \/ /\ walk.at # None /\ nodes[walk.at].type # "dir"
        /\ ret' = "error" /\ walk' = Idle
        /\ UNCHANGED <<nodes, tree, known, opens, contents, mode, hasOpen>>
     \/ /\ walk.at # None /\ nodes[walk.at].type = "dir"
        /\ nodes' = Plus(Plus(Plus(Mounted(walk.at, fs), walk.at, 1), nodes[walk.at].mountpoint, 1), fs, 1)
        /\ mode' = IF hasOpen THEN "ok" ELSE "halted"
        /\ ret' = "ok" /\ walk' = Idle
        /\ UNCHANGED <<tree, known, opens, contents, hasOpen>>

(* The node that would be unmounted, with the stub it is mounted on.       *)
Unmountable(i) ==
  LET s == nodes[i].mount_ptr IN s # None /\ nodes[s].type = "mountpoint" /\ nodes[i].ref <= 1

(* -ENOENT, -EBUSY, or -EINVAL because the lookup returns the stub and not *)
(* the root mounted on it. NothingUnmountable: the rest never runs.        *)
vfs_unmount ==
  /\ ArrivedLive("unmount")
  /\ walk.at # None => ~Unmountable(walk.at)
  /\ ret' = "error" /\ walk' = Idle
  /\ UNCHANGED <<nodes, tree, known, opens, contents, mode, hasOpen>>

-----------------------------------------------------------------------------
(* Operations on a node that a lookup has returned.                        *)

Use(i) == Ready /\ i \in known

UseWild(i) == Use(i) /\ ~(Live(i) /\ Live(nodes[i].mountpoint)) /\ Stop("wild")

Usable(i) == Use(i) /\ Live(i) /\ Live(nodes[i].mountpoint)

(* Mutant: a failed open of the driver keeps the reference on the mount.   *)
vfs_open_keep(i) ==
  /\ Usable(i) /\ MapThenSumSet(LAMBDA j : opens[j], Ids) < MaxOpen
  /\ \/ /\ nodes' = Plus(Plus(nodes, i, 1), nodes[i].mountpoint, 1)
        /\ opens' = [opens EXCEPT ![i] = @ + 1] /\ ret' = "ok"
     \/ /\ hasOpen /\ nodes' = Plus(nodes, nodes[i].mountpoint, 1) /\ ret' = "error"
        /\ UNCHANGED opens
  /\ UNCHANGED <<tree, walk, known, contents, mode, hasOpen>>

vfs_open(i) ==
  /\ Usable(i) /\ MapThenSumSet(LAMBDA j : opens[j], Ids) < MaxOpen
  /\ \/ /\ nodes' = Plus(Plus(nodes, i, 1), nodes[i].mountpoint, 1)
        /\ opens' = [opens EXCEPT ![i] = @ + 1] /\ ret' = "ok"
     \/ hasOpen /\ ret' = "error" /\ UNCHANGED <<nodes, opens>>
  /\ UNCHANGED <<tree, walk, known, contents, mode, hasOpen>>

(* At 0 references the driver closes, which frees the contents with the    *)
(* root, and the node is freed but stays in the tree. Otherwise the        *)
(* function ends without a return value.                                   *)
vfs_close(i) ==
  /\ Usable(i) /\ opens[i] > 0
  /\ opens' = [opens EXCEPT ![i] = @ - 1]
  /\ LET n == Plus(Plus(nodes, i, RefWrap - 1), nodes[i].mountpoint, RefWrap - 1) IN
       IF n[i].ref = 0
         THEN /\ nodes' = [n EXCEPT ![i].state = "freed"] /\ ret' = "ok"
              /\ contents' = (contents /\ nodes[i].inode # RootInode)
         ELSE nodes' = n /\ ret' \in {"ok", "junk"} /\ UNCHANGED contents
  /\ UNCHANGED <<tree, walk, known, mode, hasOpen>>

InFile(offset, size) == (offset + size) % SizeWrap <= FileSize

ReadResult(i, offset, size) ==
  IF size = 0 \/ (nodes[i].type = "file" /\ InFile(offset, size)) THEN "ok" ELSE "error"

vfs_read(i, offset, size) ==
  /\ Usable(i)
  /\ ret' = ReadResult(i, offset, size)
  /\ mode' = IF ret' = "ok" /\ size > 0 /\ ~(contents /\ offset + size <= FileSize) THEN "overrun" ELSE "ok"
  /\ UNCHANGED <<nodes, tree, walk, known, opens, contents, hasOpen>>

(* ramfs_readdir does not check the index.                                 *)
vfs_readdir(i, index) ==
  /\ Usable(i) /\ ret' = "ok"
  /\ LET d == IF nodes[i].type = "mountpoint" THEN nodes[i].mountpoint ELSE i IN
       mode' = IF nodes[d].type = "dir" /\ ~(contents /\ index < Len(Children[nodes[d].inode])) THEN "overrun" ELSE "ok"
  /\ UNCHANGED <<nodes, tree, walk, known, opens, contents, hasOpen>>

(* The RAM file system has no function for the following ones; a create    *)
(* that is not supported is reported as a success.                         *)
Answer(i, r) ==
  Usable(i) /\ ret' = r /\ UNCHANGED <<nodes, tree, walk, known, opens, contents, mode, hasOpen>>

vfs_write(i, size) == Answer(i, IF size = 0 THEN "ok" ELSE "error")
vfs_create(i) == Answer(i, "ok")
vfs_ioctl(i) == Answer(i, "error")

-----------------------------------------------------------------------------
Call ==
  \/ ramfs_get_fs
  \/ \E path \in Paths, why \in {"lookup", "mount", "unmount"} :
       /\ why = "mount" => \E i \in Ids \ {1} : nodes[i].inode = RootInode
       /\ Lookup(path, why)
  \/ \E i \in Ids :
       \/ UseWild(i) \/ vfs_open(i) \/ vfs_close(i) \/ vfs_create(i) \/ vfs_ioctl(i)
       \/ \E size \in Sizes : vfs_write(i, size)
       \/ \E offset \in Offsets, size \in Sizes : vfs_read(i, offset, size)
       \/ \E index \in Indices : vfs_readdir(i, index)

Next ==
  \/ Call \/ WalkWild \/ WalkMiss \/ WalkHit \/ WalkCreate \/ LookupDone \/ vfs_unmount
  \/ \E fs \in {i \in Ids \ {1} : nodes[i].inode = RootInode} : vfs_mount(fs)

Spec == Init /\ [][Next]_vars

-----------------------------------------------------------------------------
(* Properties.                                                             *)

Modes == {"ok", "wild", "overrun", "halted"}

(* Counts have their width, and the tree has nodes that were created.      *)
TypeOK ==
  /\ \A i \in Ids : nodes[i].ref \in 0 .. (RefWrap - 1) /\ nodes[i].type \in {"file", "dir", "mountpoint"}
  /\ tree \cup known \subseteq {i \in Ids : nodes[i].state # "unused"}
  /\ walk.at \in Ids \cup {None} /\ mode \in Modes

(* References a node should have: its opens, the one of vfs_init, those of *)
(* the mounts on it and of it, and those of the nodes it is the mount      *)
(* point of.                                                               *)
Stub(i) == IF nodes[i].type = "mountpoint" THEN 1 ELSE 0
References(i) ==
  opens[i] + Stub(i) + (IF i = 1 THEN 1 ELSE 0)
   + Cardinality({j \in Ids : Stub(j) = 1 /\ nodes[j].mount_ptr = i})
   + MapThenSumSet(LAMBDA j : opens[j] + Stub(j), {j \in Ids : nodes[j].mountpoint = i})

(* vfs_open, vfs_close and vfs_mount keep the count of every node equal to *)
(* the references to it, plus what was in its memory when it was created,  *)
(* within the width of the count.                                          *)
RefsCounted == TypeOK /\ \A i \in Ids : Live(i) => nodes[i].ref = (nodes[i].junk + References(i)) % RefWrap

(* As long as no count wraps, a node that is open is not freed, and its    *)
(* file system keeps its root and its contents.                            *)
OpenNodesLive ==
  (\A i \in Ids : nodes[i].junk + References(i) < RefWrap) =>
    \A i \in Ids : opens[i] > 0 => Live(i) /\ Live(nodes[i].mountpoint) /\ contents

(* The inode a path stands for in the file system, or -1.                  *)
Resolve[path \in Paths] ==
  LET At[k \in 0 .. Len(path)] ==
        IF k = 0 THEN RootInode
        ELSE IF ~IsDir(At[k - 1]) THEN -1
        ELSE LET es == {e \in {Children[At[k - 1]][m] : m \in DOMAIN Children[At[k - 1]]} : e.name = path[k]}
             IN  IF es = {} THEN -1 ELSE (CHOOSE e \in es : TRUE).inode
  IN  At[Len(path)]

(* Without mounts vfs_lookup returns the node of the inode that the path   *)
(* stands for, and NULL exactly if there is none. It is the same node each *)
(* time, with mounts as well: the cache has at most one, freed or not, for *)
(* an inode of a file system.                                              *)
LookupExact ==
  /\ Arrived("lookup") /\ (\A i \in Ids : Stub(i) = 0) =>
       Resolve[walk.path] = IF walk.at = None THEN -1 ELSE nodes[walk.at].inode
  /\ \A i, j \in tree : HasKey(i, nodes[j].mountpoint, nodes[j].inode) => i = j

(* vfs_unmount never unmounts: what the lookup of a path returns is a      *)
(* stub, whose mount_ptr is the mounted root and not a stub.               *)
NothingUnmountable == Arrived("unmount") /\ walk.at # None => ~Unmountable(walk.at)

-----------------------------------------------------------------------------
(* What the comments of the code say and the code does not do.             *)

(* "cache mekanism assumes holding a reference can keep it cached"         *)
(* (vfs.c:352): a node without one leaves the cache when it is freed.      *)
CacheHasNoFreed == \A i \in tree : Live(i)

(* The kernel never follows a freed node, if new memory is zero.           *)
NeverWild == (\A i \in Ids : nodes[i].junk = 0 /\ nodes[i].links) => mode # "wild"

(* "we need to change the node to point to the root of this mounted        *)
(* system" (vfs.c:178).                                                    *)
MountFollowed == Walking /\ Live(walk.at) /\ nodes[walk.at].type = "mountpoint" => Dir = nodes[walk.at].mount_ptr

(* "@return 0 on success, negative error code when applicable." of         *)
(* vfs_close (vfs.c:93).                                                   *)
CloseReturns == ret # "junk"

(* "0 on end-of-array (or invalid bound)" of vfs_readdir (vfs.c:228).      *)
ReaddirBounded == mode # "overrun"

(* "Mount a file system to the specified `mount_path`" (vfs.c:379): a      *)
(* mount returns.                                                          *)
MountReturns == [][Arrived("mount") /\ walk.at # None => mode' # "halted"]_vars
=============================================================================
