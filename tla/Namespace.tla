----------------------------- MODULE Namespace -----------------------------
(***************************************************************************)
(* The names of one volume: the calls of ext4.c that create, link, rename  *)
(* and remove.                                                             *)
(*                                                                         *)
(* A directory is its name table (Directory has what is inside), its ".."  *)
(* record, and its flag of being indexed; the "." record always names the  *)
(* directory.  The mount point's lock keeps calls apart.  A call that      *)
(* changes several inodes one after another and may stop in between is     *)
(* split into steps: the creation of each missing component of a path, and *)
(* each entry that ext4_dir_rm takes away.  The others are one action per  *)
(* call, with an outcome for every change they may fail after.             *)
(*                                                                         *)
(* A path is the sequence of its components below the mount point; a       *)
(* trailing slash, or the mount point by itself, ends in the empty one.    *)
(***************************************************************************)
EXTENDS Integers, Sequences, SequencesExt, FiniteSets, FiniteSetsExt

CONSTANTS
    Ino,       \* inode numbers
    Root,      \* EXT4_INODE_ROOT_INDEX
    Name,      \* names of entries
    Paths,     \* the paths given to the calls
    Makes,     \* the kinds of inode that calls create
    LinkMax,   \* EXT4_LINK_MAX
    LinkWrap   \* 2^16: links_count is a 16-bit field

Dots == {".", ".."}
Kind == {"dir", "file", "symlink", "node"}
NoIno == 0

ASSUME NamespaceAssumption ==
    /\ Ino \subseteq Nat \ {NoIno} /\ IsFiniteSet(Ino) /\ Root \in Ino
    /\ Name \cap (Dots \cup {""}) = {} /\ IsFiniteSet(Name)
    /\ Paths \subseteq Seq(Name \cup Dots \cup {""}) \ {<<>>}
    /\ Makes \subseteq Kind
    /\ LinkMax \in Nat /\ LinkWrap \in Nat /\ 2 < LinkMax /\ LinkMax < LinkWrap

VARIABLES
    kind,     \* of each inode: its type, "free" if it is not allocated
    links,    \* links_count
    owns,     \* inodes other than directories that have blocks
    ents,     \* name tables of the directories
    up,       \* their ".." records
    indexed,  \* directories with EXT4_INODE_FLAG_INDEX
    dirIndex, \* the volume has EXT4_FCOM_DIR_INDEX
    call,     \* locals of the call under way
    damage    \* history: what calls have left behind

vars == <<kind, links, owns, ents, up, indexed, dirIndex, call, damage>>
tree == <<kind, links, owns, ents, up, indexed, dirIndex>>

(* A call that leaves damage ends the behaviour:                           *)
(*   dangling  an entry names an inode that was never made or was freed    *)
(*   leaked    an inode or block is allocated and nothing names it         *)
(*   twice     a renamed inode kept its old entry                          *)
(*   cycle     a directory was moved below itself                          *)
(*   dots      a "." or ".." record was added, or the one there removed    *)
(*   overflow  a link count wrapped                                        *)
(*   linked    a file was freed while it had other names                   *)
(*   torn      a directory lost its blocks and kept its entry              *)
(*   stopped   a directory is linear and its count has stopped at 1        *)
Damage ==
    {"dangling", "leaked", "twice", "cycle", "dots", "overflow", "linked", "torn", "stopped"}

NoEntries == [n \in Name |-> NoIno]
Idle == [op |-> "idle"]
Quiet == damage = {}
IsDir(i) == i # NoIno /\ kind[i] = "dir"

-----------------------------------------------------------------------------
(* Walking a path.                                                         *)

\* ext4_dir_find_entry.  The index leads to leaves only: the "." and ".."
\* records of an indexed directory lie in its root block and are not found.
Find(d, c) ==
    IF c \in Name THEN ents[d][c]
    ELSE IF d \in indexed THEN NoIno
    ELSE IF c = "." THEN d ELSE up[d]

\* One pass of the loop of ext4_generic_open2: from d by the k-th component.
Pass(p, k, d) ==
    IF ~IsDir(d) THEN NoIno
    ELSE IF p[k] # "" THEN Find(d, p[k])
    ELSE IF k = Len(p) THEN d ELSE NoIno

\* The inode after n components.
Reach(p, n) ==
    LET go[k \in 0 .. n] == IF k = 0 THEN Root ELSE Pass(p, k, go[k - 1])
    IN  go[n]
At(p) == Reach(p, Len(p))
Opens(p, K) == At(p) # NoIno /\ kind[At(p)] \in K

\* What ext4_generic_open2 returns in parent_inode and name_off.  A trailing
\* slash moves the name on and leaves the parent where it was.
ParentOf(p) == Reach(p, IF Last(p) = "" /\ Len(p) > 1 THEN Len(p) - 2 ELSE Len(p) - 1)
NameOf(p) == Last(p)

\* The first component that is missing: a position in p, or 0.
Missing(p) ==
    LET S == {n \in DOMAIN p : IsDir(Reach(p, n - 1)) /\ Reach(p, n) = NoIno /\ p[n] # ""}
    IN  IF S = {} THEN 0 ELSE Min(S)

\* d is a directory at or below the directory a: whatever holds d and, with a
\* directory, the one its ".." names, holds a.
Below(d, a) ==
    \A S \in SUBSET Ino :
        d \in S /\ (\A i \in S : up[i] \in S \cup {NoIno}) => a \in S

-----------------------------------------------------------------------------
(* Link counts and entries.                                                *)

\* ext4_fs_inode_links_count_inc
LinkInc(i, l) ==
    LET n == (l + 1) % LinkWrap
    IN  IF i \in indexed /\ n > 1 /\ (n >= LinkMax \/ n = 2) THEN 1 ELSE n
Wraps(i) == (links[i] + 1) % LinkWrap = 0

\* Mutant: removing a directory is forgotten by the one that held it.
LinkDec_files(i, l) == IF kind[i] = "dir" THEN l ELSE IF l > 0 THEN l - 1 ELSE 0

\* ext4_fs_inode_links_count_dec
LinkDec(i, l) ==
    IF kind[i] = "dir" THEN IF l > 2 THEN l - 1 ELSE l
    ELSE IF l > 0 THEN l - 1 ELSE 0

\* ext4_dir_add_entry and ext4_dir_remove_entry; a dot name is damage and no
\* entry of the table.
Add(e, d, c, i) == IF c \in Name THEN [e EXCEPT ![d][c] = i] ELSE e
Drop(e, d, c) == Add(e, d, c, NoIno)

\* Mutant: the inode keeps the flag of the directory it was.
Free_flag(S) ==
    /\ kind' = [i \in Ino |-> IF i \in S THEN "free" ELSE kind[i]]
    /\ owns' = owns \ S
    /\ indexed' = indexed
    /\ up' = [i \in Ino |-> IF i \in S THEN NoIno ELSE up[i]]

\* ext4_fs_free_inode of the inodes in S.
Free(S) ==
    /\ kind' = [i \in Ino |-> IF i \in S THEN "free" ELSE kind[i]]
    /\ owns' = owns \ S
    /\ indexed' = indexed \ S
    /\ up' = [i \in Ino |-> IF i \in S THEN NoIno ELSE up[i]]

Hurt(D) == damage' = damage \cup D
If(c, w) == IF c THEN {w} ELSE {}

\* An empty volume.  Another system indexes only directories of several blocks.
Init ==
    /\ kind = [i \in Ino |-> IF i = Root THEN "dir" ELSE "free"]
    /\ links = [i \in Ino |-> IF i = Root THEN 2 ELSE 0]
    /\ owns = {}
    /\ ents = [i \in Ino |-> NoEntries]
    /\ up = [i \in Ino |-> IF i = Root THEN Root ELSE NoIno]
    /\ dirIndex \in BOOLEAN
    /\ indexed \in IF dirIndex THEN {{}, {Root}} ELSE {{}}
    /\ call = Idle
    /\ damage = {}

\* A call looks a name up in the directory d, and ext4_dir_find_entry cannot
\* read a node of the index: it goes through the records instead, and from then
\* on the directory is a linear one.
IndexLost(d) ==
    /\ Quiet
    /\ indexed' = indexed \ {d}
    /\ Hurt(If(links[d] = 1, "stopped"))
    /\ UNCHANGED <<kind, links, owns, ents, up, dirIndex, call>>

-----------------------------------------------------------------------------
(* Creation: ext4_fopen, ext4_dir_mk, ext4_fsymlink, ext4_mknod.           *)

Ask(k, p) == [op |-> "make", kind |-> k, path |-> p]
Fopen(p) == Ask("file", p)
DirMk(p) == Ask("dir", p)
Fsymlink(p) == Ask("symlink", p)
Mknod(p) == Ask("node", p)

\* What ext4_generic_open2 is asked for: by a new call, or by the one under way.
Asked ==
    IF ~Quiet THEN {}
    ELSE IF call = Idle
    THEN {r \in UNION {{Fopen(p), DirMk(p), Fsymlink(p), Mknod(p)} : p \in Paths} : r.kind \in Makes}
    ELSE {r \in {call} : r.op = "make"}

\* The first free bit of the inode bitmap.
FreeInodes == {i \in Ino : kind[i] = "free"}

\* One pass of ext4_generic_open2 over a component that is not there:
\* ext4_fs_alloc_inode and ext4_link.
MakeMissing(r) ==
    /\ FreeInodes # {}
    /\ \E n \in {Missing(r.path)} \ {0} :
         LET d == Reach(r.path, n - 1)
             c == r.path[n]
             i == Min(FreeInodes)
             k == IF n = Len(r.path) THEN r.kind ELSE "dir"
         IN  /\ ents' = Add(ents, d, c, i)
             /\ kind' = [kind EXCEPT ![i] = k]
             /\ IF k = "dir"
                THEN /\ links' = [links EXCEPT ![i] = 2, ![d] = LinkInc(d, @)]
                     /\ up' = [up EXCEPT ![i] = d]
                     /\ indexed' = IF dirIndex THEN indexed \cup {i} ELSE indexed
                ELSE /\ links' = [links EXCEPT ![i] = LinkInc(i, @)]
                     /\ UNCHANGED <<up, indexed>>
             /\ Hurt(If(c \in Dots, "dots") \cup If(k = "dir" /\ Wraps(d), "overflow"))
    /\ call' = r
    /\ UNCHANGED <<owns, dirIndex>>

\* It fails: no inode, or no room for the entry (nothing has changed); no room
\* for the records of a new directory.  The entry is taken back only if the
\* directory is linear and the component the last, for strlen(n) counts to the
\* end of the path; the directory's first block is not freed with its inode.
MakeFails(r) ==
    /\ \E n \in {Missing(r.path)} \ {0} :
         LET last == n = Len(r.path)
             isDir == r.kind = "dir" \/ ~last
             left == IF dirIndex \/ ~last THEN "dangling" ELSE "leaked"
         IN  Hurt({}) \/ (FreeInodes # {} /\ isDir /\ Hurt({left}))
    /\ call' = Idle
    /\ UNCHANGED tree

\* What is done with an inode that has been opened for the call.  "w"
\* truncates a file; a symbolic link is truncated and its text put in the
\* inode, or in a block if it is long; a node has its device number set.
FileOpened(i) == owns' \in {owns, owns \ {i}}
SymlinkSet(i) == owns' \in {owns \ {i}, owns \cup {i}}
MknodSet(i) == owns' = owns

\* Every component is there, or one cannot be: the last is opened if it is of
\* the kind asked for.
MakeEnds(r) ==
    /\ Missing(r.path) = 0
    /\ IF ~Opens(r.path, {r.kind}) THEN owns' = owns
       ELSE CASE r.kind = "file" -> FileOpened(At(r.path))
              [] r.kind = "symlink" -> SymlinkSet(At(r.path))
              [] r.kind \in {"node", "dir"} -> MknodSet(At(r.path))
    /\ call' = Idle
    /\ UNCHANGED <<kind, links, ents, up, indexed, dirIndex, damage>>

\* ext4_fwrite to a file that has been opened.
Write(p) ==
    /\ Quiet /\ call = Idle
    /\ Opens(p, {"file"}) /\ At(p) \notin owns
    /\ owns' = owns \cup {At(p)}
    /\ UNCHANGED <<kind, links, ents, up, indexed, dirIndex, call, damage>>

-----------------------------------------------------------------------------
(* ext4_flink and ext4_frename.                                            *)

\* ext4_create_hardlink can add its entry for the path q.
Target(q) == Reach(q, Len(q) - 1)
CanAdd(q) == NameOf(q) # "" /\ IsDir(Target(q)) /\ Find(Target(q), NameOf(q)) = NoIno

Flink(p, q) ==
    /\ Quiet /\ call = Idle
    /\ Opens(p, Kind \ {"dir"})
    /\ CanAdd(q)
    /\ ents' = Add(ents, Target(q), NameOf(q), At(p))
    /\ links' = [links EXCEPT ![At(p)] = LinkInc(At(p), @)]
    /\ Hurt(If(NameOf(q) \in Dots, "dots") \cup If(Wraps(At(p)), "overflow"))
    /\ UNCHANGED <<kind, owns, up, indexed, dirIndex, call>>

\* Mutant: ".." is not reset.
Moved_up(p, q, i, from, to) ==
    /\ ents' = Drop(Add(ents, to, NameOf(q), i), from, NameOf(p))
    /\ IF IsDir(i)
       THEN /\ links' = [[links EXCEPT ![to] = LinkInc(to, @)] EXCEPT ![from] = LinkDec(from, @)]
            /\ Hurt(If(Below(to, i), "cycle") \cup If(NameOf(p) = "", "twice")
                      \cup If({NameOf(p), NameOf(q)} \cap Dots # {}, "dots")
                      \cup If(Wraps(to), "overflow"))
       ELSE UNCHANGED links /\ Hurt(If(NameOf(q) \in Dots, "dots"))
    /\ UNCHANGED up

\* The new entry first, then the old one: ext4_create_hardlink with rename
\* set, ext4_remove_orig_reference.  No entry has the empty name, so with a
\* trailing slash the old one stays.
Moved(p, q, i, from, to) ==
    LET gone == NameOf(p) # ""
        added == Add(ents, to, NameOf(q), i)
        inc == [links EXCEPT ![to] = LinkInc(to, @)]
    IN  /\ ents' = IF gone THEN Drop(added, from, NameOf(p)) ELSE added
        /\ IF IsDir(i)
           THEN /\ up' = [up EXCEPT ![i] = to]
                /\ links' = IF gone THEN [inc EXCEPT ![from] = LinkDec(from, @)] ELSE inc
                /\ Hurt(If(Below(to, i), "cycle") \cup If(~gone, "twice")
                          \cup If({NameOf(p), NameOf(q)} \cap Dots # {}, "dots")
                          \cup If(Wraps(to), "overflow"))
           ELSE /\ UNCHANGED <<up, links>>
                /\ Hurt(If(NameOf(q) \in Dots, "dots"))

Rename(p, q) ==
    /\ Quiet /\ call = Idle
    /\ At(p) # NoIno
    /\ CanAdd(q)
    /\ Moved(p, q, At(p), ParentOf(p), Target(q))
    /\ UNCHANGED <<kind, owns, indexed, dirIndex, call>>

\* The ".." record cannot be written, or the old entry cannot be removed: the
\* inode keeps both.
RenameFails(p, q) ==
    /\ Quiet /\ call = Idle
    /\ At(p) # NoIno
    /\ CanAdd(q)
    /\ ents' = Add(ents, Target(q), NameOf(q), At(p))
    /\ Hurt({"twice"})
    /\ UNCHANGED <<kind, links, owns, up, indexed, dirIndex, call>>

-----------------------------------------------------------------------------
(* ext4_fremove, which answers EOK for a directory and does nothing.       *)

Fremove(p) ==
    /\ Quiet /\ call = Idle
    /\ Opens(p, Kind \ {"dir"})
    /\ LET i == At(p)
           left == LinkDec(i, links[i])
       IN  /\ ents' = Drop(ents, ParentOf(p), NameOf(p))
           /\ links' = [links EXCEPT ![i] = left]
           /\ Free(If(left = 0, i))
    /\ UNCHANGED <<dirIndex, call, damage>>

\* It fails after ext4_trunc_inode: the file is empty and keeps its name.  Or
\* the bitmap cannot be written: the name is gone and the inode is not.
FremoveFails(p) ==
    /\ Quiet /\ call = Idle
    /\ Opens(p, Kind \ {"dir"})
    /\ links[At(p)] = 1
    /\ owns' = owns \ {At(p)}
    /\ \/ UNCHANGED <<ents, links, damage>>
       \/ /\ ents' = Drop(ents, ParentOf(p), NameOf(p))
          /\ links' = [links EXCEPT ![At(p)] = 0]
          /\ Hurt({"leaked"})
    /\ UNCHANGED <<kind, up, indexed, dirIndex, call>>

-----------------------------------------------------------------------------
(* ext4_dir_rm: a depth-first walk that keeps its depth and finds its way  *)
(* back by the ".." records.                                               *)

DirRm(p) ==
    /\ Quiet /\ call = Idle
    /\ Opens(p, {"dir"})
    /\ call' = [op |-> "rm", top |-> At(p), at |-> At(p), depth |-> 1, name |-> NameOf(p)]
    /\ UNCHANGED <<tree, damage>>

Removing == Quiet /\ call.op = "rm"
Children(d) == {n \in Name : ents[d][n] # NoIno}

\* Mutant: the dot records count as children.
HasChildren_dots(i) == IsDir(i)

\* ext4_has_children
HasChildren(i) == IsDir(i) /\ Children(i) # {}

\* Truncated, unlinked and freed, whatever its link count says.
RmChild ==
    /\ Removing
    /\ \E n \in Children(call.at) :
         LET c == ents[call.at][n]
         IN  /\ ~HasChildren(c)
             /\ ents' = Drop(ents, call.at, n)
             /\ links' = [links EXCEPT ![c] = 0,
                                       ![call.at] = IF IsDir(c) THEN LinkDec(call.at, @) ELSE @]
             /\ Free({c})
             /\ Hurt(If(~IsDir(c) /\ links[c] > 1, "linked"))
    /\ UNCHANGED <<dirIndex, call>>

\* Mutant: the depth is not counted.
RmDescend_depth ==
    /\ Removing
    /\ \E n \in Children(call.at) :
         /\ HasChildren(ents[call.at][n])
         /\ call' = [call EXCEPT !.at = ents[call.at][n]]
    /\ UNCHANGED <<tree, damage>>

RmDescend ==
    /\ Removing
    /\ \E n \in Children(call.at) :
         /\ HasChildren(ents[call.at][n])
         /\ call' = [call EXCEPT !.at = ents[call.at][n], !.depth = @ + 1]
    /\ UNCHANGED <<tree, damage>>

RmAscend ==
    /\ Removing
    /\ Children(call.at) = {} /\ call.depth > 1
    /\ call' = [call EXCEPT !.at = up[call.at], !.depth = @ - 1]
    /\ UNCHANGED <<tree, damage>>

\* The last unlink takes the path's last name out of the directory that ".."
\* names.  With a trailing slash there is no such entry: the directory stays,
\* empty.  With a dot it is a record of that directory itself.
RmLast ==
    /\ Removing
    /\ Children(call.at) = {} /\ call.depth = 1
    /\ LET d == call.at
           dotty == call.name \in Dots
       IN  IF call.name = ""
           THEN UNCHANGED <<tree, damage>>
           ELSE /\ ents' = Drop(ents, up[d], call.name)
                /\ links' = [links EXCEPT ![d] = IF links[d] = 2 THEN 0 ELSE @,
                                          ![up[d]] = LinkDec(up[d], @)]
                /\ Free(If(links[d] = 2, d))
                /\ Hurt(If(dotty, "dots") \cup If(links[d] # 2, "leaked"))
                /\ UNCHANGED dirIndex
    /\ call' = Idle

\* The last name is gone, and the blocks or the inode cannot be freed.
RmLastFails ==
    /\ Removing
    /\ Children(call.at) = {} /\ call.depth = 1 /\ call.name # "" /\ links[call.at] = 2
    /\ ents' = Drop(ents, up[call.at], call.name)
    /\ links' = [links EXCEPT ![call.at] = 0, ![up[call.at]] = LinkDec(up[call.at], @)]
    /\ Hurt({"leaked"} \cup If(call.name \in Dots, "dots"))
    /\ call' = Idle
    /\ UNCHANGED <<kind, owns, up, indexed, dirIndex>>

\* A child loses its blocks and keeps its entry, or its entry and stays
\* allocated; or the walk stops before it has changed anything.
RmFails ==
    /\ Removing
    /\ \/ UNCHANGED <<tree, damage>>
       \/ \E n \in Children(call.at) :
            LET c == ents[call.at][n]
            IN  /\ ~HasChildren(c)
                /\ owns' = owns \ {c}
                /\ \/ UNCHANGED ents /\ Hurt(If(IsDir(c), "torn"))
                   \/ ents' = Drop(ents, call.at, n) /\ Hurt({"leaked"})
                /\ UNCHANGED <<kind, links, up, indexed, dirIndex>>
    /\ call' = Idle

-----------------------------------------------------------------------------
MakeStep == \E r \in Asked : MakeMissing(r) \/ MakeFails(r) \/ MakeEnds(r)
RmStep == RmChild \/ RmDescend \/ RmAscend \/ RmLast \/ RmLastFails \/ RmFails
Call(p) == Write(p) \/ Fremove(p) \/ FremoveFails(p) \/ DirRm(p)
Call2(p, q) == Flink(p, q) \/ Rename(p, q) \/ RenameFails(p, q)

Next ==
    \/ MakeStep
    \/ RmStep
    \/ \E d \in indexed : IndexLost(d)
    \/ \E p \in Paths : Call(p)
    \/ \E p, q \in Paths : Call2(p, q)

\* A call under way runs to its end.
Fairness == WF_vars(call # Idle /\ MakeStep) /\ WF_vars(RmStep)
Spec == Init /\ [][Next]_vars /\ Fairness

-----------------------------------------------------------------------------
(* Properties.                                                             *)

TypeOK ==
    /\ kind \in [Ino -> Kind \cup {"free"}]
    /\ links \in [Ino -> 0 .. (LinkWrap - 1)]
    /\ owns \subseteq Ino /\ indexed \subseteq Ino
    /\ ents \in [Ino -> [Name -> Ino \cup {NoIno}]]
    /\ up \in [Ino -> Ino \cup {NoIno}]
    /\ damage \subseteq Damage

Slots(i) == {s \in Ino \X Name : ents[s[1]][s[2]] = i}
SubDirs(d) == {n \in Children(d) : IsDir(ents[d][n])}

\* Whatever call has run, and at every step of one: an entry names an inode in
\* use, an inode in use has an entry, and a free one has neither entries, nor
\* blocks, nor an index flag left for its next owner.
NamesAndInodesAgree ==
    Quiet =>
        /\ \A i \in Ino \ {Root} : (kind[i] = "free") <=> (Slots(i) = {})
        /\ \A i \in Ino : ~IsDir(i) => Children(i) = {} /\ up[i] = NoIno
        /\ owns \subseteq {i \in Ino : kind[i] \in {"file", "symlink"}}
        /\ \A i \in indexed : IsDir(i)

\* The directories form one tree: each but the root has one entry, its ".."
\* names the directory that holds it, and all hang from the root.  Rename,
\* which fills in ".." anew, and removal, which goes back by it, rely on this.
OneTree ==
    Quiet =>
        /\ Slots(Root) = {} /\ up[Root] = Root
        /\ \A i \in Ino \ {Root} : IsDir(i) =>
              /\ \E s \in Slots(i) : Slots(i) = {s} /\ up[i] = s[1]
              /\ Below(i, Root)

\* ext4_fremove frees an inode when its count says so, ext4_dir_rm only if the
\* count of the directory says 2: a file's count is the number of its entries,
\* a directory's 2 and one for each directory in it.  An indexed directory
\* that has had too many of those counts 1 for good.
LinksCountNames ==
    Quiet =>
        \A i \in Ino :
            IF IsDir(i)
            THEN links[i] = 2 + Cardinality(SubDirs(i)) \/ (i \in indexed /\ links[i] = 1)
            ELSE links[i] = Cardinality(Slots(i))

\* The walk of ext4_dir_rm keeps no path: where it stands is always depth - 1
\* records ".." away from the directory it was given, so it cannot climb out
\* of it and take away something else.
StaysBelow ==
    Removing =>
        \E climb \in [0 .. (call.depth - 1) -> Ino] :
            /\ climb[0] = call.at /\ climb[call.depth - 1] = call.top
            /\ \A n \in 0 .. (call.depth - 2) : climb[n] # call.top /\ climb[n + 1] = up[climb[n]]

\* Every call returns: creation works its way down the path, and removal takes
\* each directory away before it looks at the one above again.
CallsReturn == call.op # "idle" ~> (call.op = "idle" \/ ~Quiet)
=============================================================================
