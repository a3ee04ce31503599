--------------------------- MODULE TreeInvariant ---------------------------
(***************************************************************************)
(* What the nodes of an extent tree and the call under way are at every    *)
(* step, until the first damage (TreeInv), and the words that the proofs   *)
(* about it use for a tree before and after a change.                      *)
(***************************************************************************)
EXTENDS Extents

Ent == [lblk : Nat, len : Nat, pblk : Nat, unwritten : BOOLEAN]

\* The first block of the file behind an extent; an index has at least one below it.
End(e) == e.lblk + (IF e.len = 0 THEN 1 ELSE e.len)

\* A leaf has extents and a node above it indexes of nodes one level down.
Shape(t) ==
    /\ t \in [Node -> [depth : Nat, entries : Seq(Ent)]]
    /\ \A n \in Node : \A k \in DOMAIN t[n].entries :
         LET e == t[n].entries[k] IN
         IF t[n].depth = 0 THEN e.len # 0
         ELSE e.len = 0 /\ e.pblk \in Block /\ t[e.pblk].depth = t[n].depth - 1

\* Everything below n ends at hi[n], which the next index of the node above respects.
Order(t, hi) ==
    /\ hi \in [Node -> Nat]
    /\ \A n \in Node :
         LET E == t[n].entries IN
         /\ \A j, k \in DOMAIN E : j < k => End(E[j]) <= E[k].lblk
         /\ \A k \in DOMAIN E : End(E[k]) <= hi[n]
         /\ t[n].depth > 0 =>
              \A k \in DOMAIN E :
                 /\ hi[E[k].pblk] <= hi[n]
                 /\ \A m \in DOMAIN E : k < m => hi[E[k].pblk] <= E[m].lblk

\* What is below an index does not begin before it, the places X excepted.
Low(t, X) ==
    \A n \in Node : \A k \in DOMAIN t[n].entries :
        t[n].depth > 0 /\ <<n, k>> \notin X =>
            LET e == t[n].entries[k] IN
            \A m \in DOMAIN t[e.pblk].entries : e.lblk <= t[e.pblk].entries[m].lblk

Hold(E, b) == \E k \in DOMAIN E : Holds(E[k], b)

Has(t, n, b) == Hold(t[n].entries, b)

Owned(t) == {b \in Block : \E n \in Node : Has(t, n, b)}

\* No block has two owners.
Apart(t) ==
    /\ \A n \in Node : \A j, k \in DOMAIN t[n].entries : \A b \in Block :
         Holds(t[n].entries[j], b) /\ Holds(t[n].entries[k], b) => j = k
    /\ \A n, m \in Node : \A b \in Block : Has(t, n, b) /\ Has(t, m, b) => n = m

Tree(t, hi) == Shape(t) /\ Order(t, hi) /\ Low(t, {}) /\ Apart(t)

\* The nodes are those that an index names, and X.
Linked(t, b) == \E n \in Node : t[n].depth > 0 /\ Has(t, n, b)

Nodes(t, X) == \A b \in Block : t[b] # NoNode => Linked(t, b) \/ b \in X

\* No node that an index names is empty, X excepted.
Filled(t, X) == \A b \in Block : Linked(t, b) => t[b].entries # <<>> \/ b \in X

\* A path of the tree, and one on which l and what follows it up to u has its place.
Steps(t, path, k) ==
    /\ Len(path) = t[Root].depth + 1 /\ path \in [1 .. Len(path) -> [n : Node, i : Nat]]
    /\ path[1].n = Root
    /\ \A j \in 1 .. k : t[path[j].n].depth = Len(path) - j

Chain(t, path, k) ==
    \A j \in 1 .. k : /\ path[j].i \in DOMAIN t[path[j].n].entries
                      /\ t[path[j].n].entries[path[j].i].pblk = path[j + 1].n

IsPath(t, path) ==
    /\ Steps(t, path, Len(path)) /\ Chain(t, path, Len(path) - 1)
    /\ LET h == path[Len(path)] IN
       IF t[h.n].entries = <<>> THEN h.i = 0 ELSE h.i \in DOMAIN t[h.n].entries

Between(t, path, l, u) ==
    \A j \in DOMAIN path :
        LET E == t[path[j].n].entries IN
        /\ path[j].i > 1 => E[path[j].i].lblk <= l
        /\ \A m \in DOMAIN E : m > path[j].i => u <= E[m].lblk

Clear(t, path, l, u) ==
    LET h == path[Len(path)]
        e == t[h.n].entries[h.i]
    IN h.i > 0 => End(e) <= l \/ u <= e.lblk

InsertCall(c) ==
    c = [at |-> c.at, path |-> c.path, new |-> c.new, combine |-> c.combine, then |-> c.then,
         for |-> c.for, top |-> c.top, fresh |-> c.fresh, key |-> c.key]

InsertOK(t, c) ==
    /\ InsertCall(c)
    /\ c.new \in Ent /\ c.new.len # 0 /\ c.combine \in BOOLEAN
    /\ IsPath(t, c.path)
    /\ Between(t, c.path, c.new.lblk, End(c.new))
    /\ Clear(t, c.path, c.new.lblk, End(c.new))

\* The last level that is not split yet.
Level(c) == Len(c.path) - Len(c.fresh)

\* The entries of the path's node at level j, and where the path goes on.
At(t, c, j) == t[c.path[j].n].entries

On(t, c, j) == At(t, c, j)[c.path[j].i]

\* The key is behind the path, and the levels that are split end before it.
LeftOK(t, hi, c) ==
    /\ \A j \in 1 .. Len(c.path) : c.path[j].i > 0 /\ On(t, c, j).lblk < c.key
    /\ End(On(t, c, Len(c.path))) <= c.key
    /\ \A j \in 1 .. Level(c) :
         /\ c.key < hi[c.path[j].n]
         /\ \A m \in DOMAIN At(t, c, j) : m > c.path[j].i => c.key <= At(t, c, j)[m].lblk
    /\ \A j \in (Level(c) + 1) .. Len(c.path) :
         c.path[j].i = Len(At(t, c, j)) /\ hi[c.path[j].n] <= c.key

\* The new nodes hang one below the other, from the key on, and have room above.
RightOK(t, hi, c) ==
    /\ \A j \in 1 .. Len(c.fresh) :
         LET E == t[c.fresh[j]].entries IN
         /\ t[c.fresh[j]].depth = j - 1
         /\ \A m \in DOMAIN E : c.key <= E[m].lblk
         /\ j > 1 => E # <<>> /\ E[1] = Index(c.key, c.fresh[j - 1])
    /\ c.fresh # <<>> =>
         LET top == hi[c.fresh[Len(c.fresh)]] IN
         /\ c.key < top /\ top <= hi[c.path[Level(c)].n]
         /\ \A m \in DOMAIN At(t, c, Level(c)) :
              m > c.path[Level(c)].i => top <= At(t, c, Level(c))[m].lblk

\* The new extent goes before the key, or where the new nodes begin: into their
\* leaf, which has nothing else then, and has the leaf's rest otherwise.
SideOK(t, c) ==
    IF c.new.lblk < c.key
    THEN /\ End(c.new) <= c.key
         /\ IF c.fresh = <<>> THEN c.path[Len(c.path)].i # Len(At(t, c, Len(c.path)))
            ELSE t[c.fresh[1]].entries # <<>>
    ELSE /\ c.new.lblk = c.key
         /\ IF c.fresh = <<>> THEN c.path[Len(c.path)].i = Len(At(t, c, Len(c.path)))
            ELSE t[c.fresh[1]].entries = <<>>
         /\ \A j \in 2 .. Len(c.fresh) : \A m \in DOMAIN t[c.fresh[j]].entries :
              m > 1 => End(c.new) <= t[c.fresh[j]].entries[m].lblk

SplitOK(t, hi, c) ==
    /\ InsertOK(t, c) /\ c.key \in Nat
    /\ c.fresh \in Seq(Block) /\ c.top \in 2 .. Len(c.path) /\ Level(c) >= c.top - 1
    /\ LeftOK(t, hi, c) /\ RightOK(t, hi, c) /\ SideOK(t, c)

RemoveOK(t, c) ==
    /\ c = [at |-> c.at, path |-> c.path, level |-> c.level, from |-> c.from]
    /\ Steps(t, c.path, c.level) /\ c.level \in 0 .. Len(c.path) /\ c.from \in Nat
    /\ Chain(t, c.path, c.level - 1)
    /\ \A j \in 1 .. (c.level - 1) : \A m \in DOMAIN At(t, c, j) :
         m > c.path[j].i => c.from <= At(t, c, j)[m].lblk
    /\ c.level > 0 =>
         LET h == c.path[c.level]
             E == At(t, c, c.level)
         IN
         /\ h.i > 0
         /\ IF c.level = Len(c.path)
            THEN h.i \in DOMAIN E /\ c.from < End(E[h.i])
            ELSE \A m \in DOMAIN E : m >= h.i => c.from <= E[m].lblk

NewOf(c) == IF c.at \in {"insert", "split"} THEN {b \in Block : Holds(c.new, b)} ELSE {}

TopOf(c) == IF c.at = "split" /\ c.fresh # <<>> THEN {c.fresh[Len(c.fresh)]} ELSE {}

\* The node that may be empty.
BareOf(c) ==
    CASE c.at = "insert" -> {c.path[Len(c.path)].n}
      [] c.at = "split" /\ c.fresh # <<>> -> {c.fresh[1]}
      [] c.at = "remove" /\ c.level > 0 -> {c.path[c.level].n}
      [] OTHER -> {}

Parted(o, f, g, w, p) ==
    /\ Block = o \cup f \cup g \cup w \cup p
    /\ o \cap f = {} /\ o \cap g = {} /\ o \cap w = {} /\ o \cap p = {}
    /\ f \cap g = {} /\ f \cap w = {} /\ f \cap p = {}
    /\ g \cap w = {} /\ g \cap p = {} /\ w \cap p = {}

Whole(t, hi, c, f, g) ==
    /\ Tree(t, hi)
    /\ Parted(Owned(t), f, g, NewOf(c), TopOf(c))
    /\ Nodes(t, TopOf(c)) /\ Filled(t, BareOf(c))
    /\ t[Root].entries = <<>> /\ ~(c.at = "remove" /\ c.level <= 1) => t[Root].depth = 0
    /\ c.at \in {"idle", "insert", "again", "split", "remove"}
    /\ c.at = "insert" => InsertOK(t, c) /\ c.fresh = <<>>
    /\ c.at = "split" => SplitOK(t, hi, c)
    /\ c.at = "remove" => RemoveOK(t, c)

TreeInv == damage = {} => \E hi : Whole(tree, hi, call, free, foreign)

-----------------------------------------------------------------------------
(* Changes of one node.                                                    *)

Trees == [Node -> [depth : Nat, entries : Seq(Ent)]]

Replace(t, n, d, E) == [t EXCEPT ![n] = [depth |-> d, entries |-> E]]

With(t, n, E) == Replace(t, n, t[n].depth, E)

\* The entries E, in their order and below u, in a node of depth d.
Sorted(E, d, hi, u) ==
    /\ \A j, k \in DOMAIN E : j < k => End(E[j]) <= E[k].lblk
    /\ \A k \in DOMAIN E : End(E[k]) <= u
    /\ d > 0 => \A k \in DOMAIN E :
                   /\ hi[E[k].pblk] <= u
                   /\ \A m \in DOMAIN E : k < m => hi[E[k].pblk] <= E[m].lblk

\* They may be those of node n.
Fits(t, n, d, E) ==
    \A k \in DOMAIN E :
        IF d = 0 THEN E[k].len # 0
        ELSE /\ E[k].len = 0 /\ E[k].pblk \in Block /\ E[k].pblk # n
             /\ t[E[k].pblk].depth = d - 1
             /\ \A m \in DOMAIN t[E[k].pblk].entries : E[k].lblk <= t[E[k].pblk].entries[m].lblk

\* None of them is another's.
Mine(t, n, E) ==
    /\ \A j, k \in DOMAIN E : \A b \in Block : Holds(E[j], b) /\ Holds(E[k], b) => j = k
    /\ \A b \in Block : Hold(E, b) => Has(t, n, b) \/ b \notin Owned(t)

\* The index above n.
Index2(t, m, k, n) == k \in DOMAIN t[m].entries /\ t[m].depth > 0 /\ t[m].entries[k].pblk = n

\* The index above n stays true of it, if it is not among X.
Under(t, n, d, hi, u, X, E) ==
    \A m \in Node : \A k : Index2(t, m, k, n) =>
        /\ d = t[n].depth /\ u <= hi[n]
        /\ m # n => <<m, k>> \in X \/ \A j \in DOMAIN E : t[m].entries[k].lblk <= E[j].lblk

-----------------------------------------------------------------------------
(* The first keys of the nodes above a place.                              *)

\* The levels above k whose keys follow the first entry at level k.
Above(path, k) == {j \in 1 .. (k - 1) : \A m \in (j + 1) .. k : path[m].i = 1}

OnAbove(path, k, n, q) == \E j \in Above(path, k) : path[j].n = n /\ path[j].i = q

\* The tree v has border there and is t else.
Keyed(t, v, path, k, border) ==
    /\ v \in Trees
    /\ \A n \in Node :
         /\ v[n].depth = t[n].depth
         /\ Len(v[n].entries) = Len(t[n].entries)
         /\ (\A j \in Above(path, k) : path[j].n # n) => v[n] = t[n]
         /\ \A q \in DOMAIN t[n].entries :
              /\ v[n].entries[q].len = t[n].entries[q].len
              /\ v[n].entries[q].pblk = t[n].entries[q].pblk
              /\ v[n].entries[q].lblk = IF OnAbove(path, k, n, q) THEN border
                                        ELSE t[n].entries[q].lblk

\* The tree keeps its order when border is behind what comes before the keys, before
\* what comes after them, and not behind an entry at level k.
\* The key border may go to the entries that X names, all of them above level k.
Border(t, hi, X, path, k, border) ==
    /\ \A x \in X : \E j \in Above(path, k) : x = <<path[j].n, path[j].i>>
    /\ border \in Nat /\ border < hi[path[k].n]
    /\ \A m \in DOMAIN t[path[k].n].entries : border <= t[path[k].n].entries[m].lblk
    /\ \A j \in Above(path, k) :
          path[j].i > 1 => t[path[j].n].entries[path[j].i].lblk <= border

-----------------------------------------------------------------------------
(* Whole paths, and changes at their end.                                  *)

Dropped(t, F) == [n \in Node |-> IF n \in F THEN NoNode ELSE t[n]]

-----------------------------------------------------------------------------
(* Search.                                                                 *)

Hop(t, n, l) == [n |-> n, i |-> Closest(t[n].entries, l)]

Hops(t, l, f, n) ==
    f = [k \in 1 .. n |-> IF k = 1 THEN Hop(t, Root, l)
                          ELSE Hop(t, t[f[k - 1].n].entries[f[k - 1].i].pblk, l)]

-----------------------------------------------------------------------------
(* Changes of a leaf.                                                      *)

\* The end of a path, and the node above it.
Tip(path) == path[Len(path)]

RootOK(t) == t[Root].entries = <<>> => t[Root].depth = 0

-----------------------------------------------------------------------------
(* The new extent enters a leaf.                                           *)

\* The path with the position in its leaf set.
Turned(path, i) == [path EXCEPT ![Len(path)].i = i]

\* The places above a leaf that follow its first extent.
Firsts(path) == {<<path[j].n, path[j].i>> : j \in Above(Turned(path, 1), Len(path))}

\* Tree v is tree t, but for the entries of the path's leaf.
NewLeaf(t, path, v, E) ==
    /\ v \in Trees /\ v[Tip(path).n].entries = E
    /\ \A m \in Node : v[m].depth = t[m].depth
    /\ \A m \in Node : m # Tip(path).n => v[m] = t[m]

\* The path could have been found for block l.
Behind(t, path, l) ==
    \A j \in 1 .. (Len(path) - 1) : path[j].i > 1 => t[path[j].n].entries[path[j].i].lblk <= l

\* Tree w is tree v with other keys on the path, on which v differs from t.
Rekeyed(t, path, v, w) ==
    /\ w \in Trees /\ Owned(w) = Owned(v)
    /\ \A b \in Block : Linked(w, b) <=> Linked(v, b)
    /\ \A m \in Node : /\ w[m].depth = v[m].depth
                       /\ w[m].entries = <<>> => v[m].entries = <<>>
                       /\ w[m] = t[m] \/ \E j \in 1 .. Len(path) : path[j].n = m
    /\ w[Tip(path).n].entries # <<>>

-----------------------------------------------------------------------------
(* An extent changes its state, or is split.                               *)

\* Extent i of leaf n is e in tree v, which keeps the first blocks at least.
Shortened(t, hi, v, n, i, e) ==
    /\ Tree(v, hi) /\ v \in Trees
    /\ v[n].entries = [t[n].entries EXCEPT ![i] = e]
    /\ DOMAIN v[n].entries = DOMAIN t[n].entries /\ v[n].entries # <<>>
    /\ v[n].entries[i] = e
    /\ \A m \in Node : v[m].depth = t[m].depth
    /\ \A m \in Node : m # n => v[m] = t[m]
    /\ \A b \in Block : b \in Owned(v) <=>
          b \in Owned(t) /\ (Holds(t[n].entries[i], b) => Holds(e, b))
    /\ \A b \in Block : Linked(v, b) <=> Linked(t, b)

\* Block l of the file is in an extent at the end of the path.
FoundAt(t, p, l, n, i, e) ==
    /\ IsPath(t, p) /\ Between(t, p, l, l + 1) /\ Tip(p).n = n /\ Tip(p).i = i
    /\ n \in Node /\ t[n].depth = 0 /\ i \in DOMAIN t[n].entries /\ i > 0 /\ i \in Nat
    /\ e = t[n].entries[i] /\ e \in Ent /\ e.lblk \in Nat /\ e.len \in Nat /\ e.pblk \in Nat
    /\ e.len # 0 /\ End(e) = e.lblk + e.len /\ e.lblk <= l /\ l < e.lblk + e.len

-----------------------------------------------------------------------------
(* Nodes are split.                                                        *)

\* The key that ext4_ext_insert_extent gives a split: behind the path, before
\* what follows it, and not inside the new extent.
KeyOK(t, h, p, new, key) ==
    /\ key \in Nat
    /\ \A j \in 1 .. Len(p) :
         /\ p[j].i > 0 /\ t[p[j].n].entries[p[j].i].lblk < key /\ key < h[p[j].n]
         /\ \A m \in DOMAIN t[p[j].n].entries : m > p[j].i => key <= t[p[j].n].entries[m].lblk
    /\ End(t[Tip(p).n].entries[Tip(p).i]) <= key
    /\ IF new.lblk < key THEN End(new) <= key /\ Tip(p).i # Len(t[Tip(p).n].entries)
       ELSE new.lblk = key /\ Tip(p).i = Len(t[Tip(p).n].entries)

-----------------------------------------------------------------------------
(* The tree grows.                                                         *)

\* The entries of the root are those of block b in tree v, right below it.
Deeper(t, v, b) ==
    /\ v \in Trees
    /\ v[b] = t[Root]
    /\ v[Root].depth = t[Root].depth + 1
    /\ v[Root].entries = <<Index(t[Root].entries[1].lblk, b)>>
    /\ \A m \in Node : m # Root /\ m # b => v[m] = t[m]

\* The path through the new node below the root.
Longer(p, b) ==
    [j \in 1 .. (Len(p) + 1) |->
        IF j = 1 THEN [n |-> Root, i |-> 1] ELSE IF j = 2 THEN [n |-> b, i |-> p[1].i] ELSE p[j - 1]]

-----------------------------------------------------------------------------
(* A node is split.                                                        *)

\* N is what comes after entry i of E, behind o entries of its own.
TailOf(E, i, N, o) ==
    /\ N \in Seq(Ent) /\ DOMAIN N = 1 .. (Len(E) - i + o)
    /\ \A k \in DOMAIN N : k > o => i + (k - o) \in DOMAIN E /\ N[k] = E[i + (k - o)]

\* Node x may be put under the key, behind entry i of node n.
Hangs(t, hi, n, i, key, x) ==
    /\ t[n].depth > 0 /\ x \in Block /\ x \notin Owned(t) /\ x # n
    /\ t[x].depth = t[n].depth - 1
    /\ \A m \in DOMAIN t[x].entries : key <= t[x].entries[m].lblk
    /\ key < hi[x] /\ hi[x] <= hi[n]
    /\ \A m \in DOMAIN t[n].entries : m > i => hi[x] <= t[n].entries[m].lblk

\* Node n keeps its first i entries, and block b gets the entries N.
Halve(t, n, i, b, N) == Replace(With(t, n, SubSeq(t[n].entries, 1, i)), b, t[n].depth, N)

\* The key can go between entry i of node n and what follows it.
Cut(t, hi, n, i, key) ==
    /\ key \in Nat /\ key < hi[n] /\ End(t[n].entries[i]) <= key
    /\ t[n].depth > 0 => hi[t[n].entries[i].pblk] <= key
    /\ \A m \in DOMAIN t[n].entries : m > i => key <= t[n].entries[m].lblk

\* The ends of the nodes when n ends at the key and b where n did.
Ends(hi, h, n, b, key) ==
    h[n] = key /\ h[b] = hi[n] /\ \A m \in Node : m # n /\ m # b => h[m] = hi[m]

\* Tree v names the block x too, if o is 1.
Gains(t, v, o, x) ==
    /\ \A y \in Block : y \in Owned(v) <=> y \in Owned(t) \/ (o = 1 /\ y = x)
    /\ \A y \in Block : Linked(v, y) <=> Linked(t, y) \/ (o = 1 /\ y = x)

\* What comes first of the entries N.
Begins(t, hi, n, i, key, N, o, x, b) ==
    /\ o = 0 => t[n].depth = 0
    /\ o = 1 => N[1] = Index(key, x) /\ Hangs(t, hi, n, i, key, x) /\ x # b

\* The new nodes of a split are a chain of their own.
Made2(t, F, key) ==
    /\ F \in Seq(Block) /\ Len(F) \in Nat /\ DOMAIN F = 1 .. Len(F)
    /\ \A j \in 1 .. Len(F) :
         /\ F[j] \in Block /\ F[j] \in Node /\ t[F[j]].depth = j - 1
         /\ \A m \in DOMAIN t[F[j]].entries : key <= t[F[j]].entries[m].lblk
         /\ j > 1 => /\ j - 1 \in 1 .. Len(F) /\ t[F[j]].entries # <<>>
                     /\ t[F[j]].entries[1] = Index(key, F[j - 1])
                     /\ Index2(t, F[j], 1, F[j - 1]) /\ F[j - 1] \in Owned(t)

\* The nodes of the path have kept their first entries, the current ones among them.
Part(t, v, p) ==
    /\ v[Root].depth = t[Root].depth
    /\ \A j \in 1 .. Len(p) :
         /\ v[p[j].n].depth = t[p[j].n].depth
         /\ \A m \in DOMAIN v[p[j].n].entries :
              m \in DOMAIN t[p[j].n].entries /\ v[p[j].n].entries[m] = t[p[j].n].entries[m]
         /\ p[j].i \in DOMAIN t[p[j].n].entries =>
              p[j].i \in DOMAIN v[p[j].n].entries /\ v[p[j].n].entries # <<>>
         /\ t[p[j].n].entries = <<>> => v[p[j].n].entries = <<>>

\* Tree v is tree t with node n split behind entry i.
Halved(t, v, n, i, b, N) ==
    /\ v \in Trees /\ v[n].entries = SubSeq(t[n].entries, 1, i)
    /\ v[b].entries = N /\ v[b].depth = t[n].depth
    /\ \A m \in Node : m # b => v[m].depth = t[m].depth
    /\ \A m \in Node : m # n /\ m # b => v[m] = t[m]

\* The path is at entry i of node n at level k, and does not meet b.
Stands(t, p, k, n, i) ==
    k \in 1 .. Len(p) /\ n = p[k].n /\ i = p[k].i /\ i \in DOMAIN t[n].entries

Misses(p, b) == b \in Block /\ \A j \in 1 .. Len(p) : p[j].n # b

Others(t, v, p, k) == \A j \in 1 .. Len(p) : j # k => v[p[j].n] = t[p[j].n]

\* A node of the path is split, and the call remembers the new one.
Splitting(t, hi, v, h, c, c2, n, i, b, N, o) ==
    /\ Shape(t) /\ Order(t, hi) /\ IsPath(t, c.path) /\ Made2(t, c.fresh, c.key) /\ c.key \in Nat
    /\ LeftOK(t, hi, c) /\ RightOK(t, hi, c) /\ SideOK(t, c)
    /\ Level(c) \in 2 .. Len(c.path) /\ n = c.path[Level(c)].n /\ i = c.path[Level(c)].i
    /\ b \in Block
    /\ \A j \in 1 .. Len(c.path) : c.path[j].n # b
    /\ \A j \in 1 .. Len(c.fresh) : c.fresh[j] # b /\ c.fresh[j] # n
    /\ Halved(t, v, n, i, b, N) /\ Ends(hi, h, n, b, c.key)
    /\ o \in {0, 1} /\ (o = 0 <=> c.fresh = <<>>) /\ TailOf(t[n].entries, i, N, o)
    /\ o = 1 => N[1] = Index(c.key, c.fresh[Len(c.fresh)])
    /\ c2.path = c.path /\ c2.key = c.key /\ c2.new = c.new /\ c2.fresh = Append(c.fresh, b)

SplitKnown(t, hi, v, h, c, c2, n, i, b, o) ==
    /\ Level(c) \in Nat /\ Level(c) - 1 \in 1 .. Len(c.path) /\ Level(c) \in 1 .. Len(c.path)
    /\ Level(c) = Len(c.path) - Len(c.fresh) /\ Level(c2) = Level(c) - 1
    /\ Len(c.path) \in Nat /\ Len(c.path) \in 1 .. Len(c.path)
    /\ Len(c.fresh) \in Nat /\ Len(c2.fresh) = Len(c.fresh) + 1 /\ c2.fresh \in Seq(Block)
    /\ c2.fresh # <<>>
    /\ c2.fresh[Len(c.fresh) + 1] = b
    /\ \A j \in 1 .. Len(c.fresh) : c2.fresh[j] = c.fresh[j] /\ v[c.fresh[j]] = t[c.fresh[j]]
    /\ c.fresh = <<>> <=> Len(c.fresh) = 0
    /\ t[n].depth = Len(c.fresh)
    /\ n \in Node /\ i \in DOMAIN t[n].entries /\ i \in Nat /\ Cut(t, hi, n, i, c.key)
    /\ \A j \in 1 .. Len(c.path) : c.path[j].i \in DOMAIN t[c.path[j].n].entries
    /\ \A j \in 1 .. Len(c.path) : j # Level(c) => v[c.path[j].n] = t[c.path[j].n]
    /\ \A j \in 1 .. Len(c.path) : j # Level(c) => h[c.path[j].n] = hi[c.path[j].n]
    /\ Part(t, v, c.path)

\* The entries of the new node, the first o of them new ones.
NewEntries(E, i, F, key) ==
    (IF F = <<>> THEN <<>> ELSE <<Index(key, Last(F))>>) \o SubSeq(E, i + 1, Len(E))

\* Tree v names the block x too.
Joins(t, v, x) ==
    /\ \A y \in Block : y \in Owned(v) <=> y \in Owned(t) \/ y = x
    /\ \A y \in Block : Linked(v, y) <=> Linked(t, y) \/ y = x

\* G is E with e behind entry i.
Behind2(E, i, e, G) ==
    /\ G \in Seq(Ent) /\ Len(G) = Len(E) + 1 /\ DOMAIN G = 1 .. (Len(E) + 1)
    /\ \A k \in DOMAIN G :
         \/ k <= i /\ k \in DOMAIN E /\ G[k] = E[k]
         \/ k = i + 1 /\ G[k] = e
         \/ k > i + 1 /\ k - 1 \in DOMAIN E /\ k - 1 > i /\ G[k] = E[k - 1]
    /\ \A k \in DOMAIN E : k <= i => k \in DOMAIN G /\ G[k] = E[k]
    /\ i + 1 \in DOMAIN G /\ G[i + 1] = e

\* Tree v is tree t with the entries G in node n.
Relinked(t, v, n, G) ==
    /\ v \in Trees /\ v[n].entries = G
    /\ \A m \in Node : v[m].depth = t[m].depth
    /\ \A m \in Node : m # n => v[m] = t[m]

\* The path into the new nodes.
Right(t, p, k, F) ==
    [j \in 1 .. Len(p) |->
        IF j < k THEN p[j]
        ELSE IF j = k THEN [p[k] EXCEPT !.i = @ + 1]
        ELSE [n |-> F[Len(p) - j + 1],
              i |-> IF t[F[Len(p) - j + 1]].entries = <<>> THEN 0 ELSE 1]]

Rightly(t, p, k, F, q) ==
    /\ q \in [1 .. Len(p) -> [n : Node, i : Nat]] /\ Len(q) = Len(p) /\ DOMAIN q = 1 .. Len(p)
    /\ \A j \in 1 .. Len(p) :
         /\ j < k => q[j] = p[j]
         /\ j = k => q[j].n = p[k].n /\ q[j].i = p[k].i + 1
         /\ j > k => /\ Len(p) - j + 1 \in 1 .. Len(F) /\ q[j].n = F[Len(p) - j + 1]
                     /\ q[j].i = IF t[q[j].n].entries = <<>> THEN 0 ELSE 1

\* What the new extent at the key needs to know of the new nodes.
Bare(t, F, u) ==
    /\ t[F[1]].entries = <<>>
    /\ \A j \in 2 .. Len(F) : \A m \in DOMAIN t[F[j]].entries :
         m > 1 => u <= t[F[j]].entries[m].lblk

\* The new node above which a call is about to enter the key.
Linking(t, hi, f, g, c, p, F, key, new, k, n, i, x) ==
    /\ Tree(t, hi) /\ Shape(t) /\ t \in Trees /\ IsPath(t, p)
    /\ p = c.path /\ F = c.fresh /\ key = c.key /\ new = c.new /\ x = F[Len(F)]
    /\ n = p[k].n /\ i = p[k].i
    /\ k = Len(p) - Len(F) /\ k = Level(c) /\ k \in 1 .. Len(p) /\ k # Len(p) /\ n \in Node
    /\ key \in Nat /\ F \in Seq(Block) /\ F # <<>> /\ Len(F) \in 1 .. Len(F) /\ 1 \in 1 .. Len(F)
    /\ Len(F) \in Nat
    /\ Made2(t, F, key) /\ SideOK(t, c) /\ RightOK(t, hi, c) /\ LeftOK(t, hi, c)
    /\ x \in Block /\ x \notin Owned(t) /\ x = Last(F)
    /\ Parted(Owned(t), f, g, {b \in Block : Holds(new, b)}, {x})
    /\ Nodes(t, {x}) /\ Filled(t, {F[1]}) /\ RootOK(t)

-----------------------------------------------------------------------------
(* No block can be had.                                                    *)

\* A new node holds nothing but the new node below it.
Moved(t, F) ==
    \A j \in 1 .. Len(F) :
        /\ j = 1 => t[F[j]].entries = <<>>
        /\ j > 1 => \A b : Has(t, F[j], b) <=> b = F[j - 1]

-----------------------------------------------------------------------------
(* Removal.                                                                *)

\* G is what some places of E hold, in their order.
Thins(E, G) ==
    \E s : \A k \in DOMAIN G :
        /\ s[k] \in DOMAIN E /\ G[k] = E[s[k]]
        /\ \A j \in DOMAIN G : j < k => s[j] < s[k]

\* Tree v is t with the entries G in node n, which have been there before.
Thinned(t, hi, v, n, G) ==
    /\ Tree(v, hi) /\ v \in Trees /\ v[n].entries = G
    /\ \A m \in Node : v[m].depth = t[m].depth
    /\ \A m \in Node : m # n => v[m] = t[m]
    /\ \A b \in Block : b \in Owned(v) <=> b \in Owned(t) /\ (Has(t, n, b) => Hold(G, b))
    /\ \A b \in Block : Linked(v, b) <=>
          Linked(t, b) /\ (t[n].depth > 0 /\ Has(t, n, b) => Hold(G, b))

\* Tree v has the keys of tree t, but for those on the path at levels above k.
Kept(t, v, path, k) ==
    /\ v[Root].depth = t[Root].depth
    /\ \A j \in 1 .. k : v[path[j].n].depth = t[path[j].n].depth
    /\ \A j \in 1 .. (k - 1) :
         /\ DOMAIN v[path[j].n].entries = DOMAIN t[path[j].n].entries
         /\ \A q \in DOMAIN t[path[j].n].entries :
              /\ v[path[j].n].entries[q].pblk = t[path[j].n].entries[q].pblk
              /\ q # path[j].i => v[path[j].n].entries[q].lblk = t[path[j].n].entries[q].lblk

\* Tree w is tree v with other first keys above level k.
Reset(v, hi, w, path, k) ==
    /\ Tree(w, hi) /\ w \in Trees /\ Owned(w) = Owned(v)
    /\ \A b \in Block : Linked(w, b) <=> Linked(v, b)
    /\ \A m \in Node : w[m] = v[m] \/ \E j \in 1 .. (k - 1) : path[j].n = m
    /\ \A m \in Node : w[m].entries = <<>> <=> v[m].entries = <<>>
    /\ \A m \in Node : w[m].depth = v[m].depth
    /\ w[path[k].n] = v[path[k].n]
    /\ Kept(v, w, path, k)

\* Tree v is t without the empty node b below the place of the path at level k, and
\* without its index.
Unlinked(t, hi, v, path, k, b) ==
    /\ Tree(v, hi) /\ v \in Trees /\ v[b] = NoNode
    /\ \A x \in Block : x \in Owned(v) <=> x \in Owned(t) /\ x # b
    /\ \A x \in Block : Linked(v, x) <=> Linked(t, x) /\ x # b
    /\ \A m \in Node : m # b => v[m] = t[m] \/ \E j \in 1 .. k : path[j].n = m
    /\ \A m \in Node : m # b => (v[m].entries = <<>> => t[m].entries = <<>> \/ m = path[k].n)
    /\ Kept(t, v, path, k)
    /\ \A m \in DOMAIN v[path[k].n].entries : m >= path[k].i =>
          \E q \in DOMAIN t[path[k].n].entries :
             q > path[k].i /\ v[path[k].n].entries[m].lblk = t[path[k].n].entries[q].lblk

Without(t, n, i, b) == Dropped(With(t, n, RemoveAt(t[n].entries, i)), {b})

\* The place above is where the entry that follows the one taken out is.
SamePlace(v, d, c, k) ==
    /\ d = [at |-> d.at, path |-> c.path, level |-> k, from |-> c.from]
    /\ \A m \in DOMAIN v[c.path[k].n].entries :
          m >= c.path[k].i => c.from <= v[c.path[k].n].entries[m].lblk

Raised(c, k) == [c EXCEPT !.level = k - 1]

\* The child that the removal goes down into.
Entered(c, d, k, b) ==
    /\ d = [at |-> "remove", path |-> d.path, level |-> k + 1, from |-> c.from]
    /\ d.path \in [1 .. Len(c.path) -> [n : Node, i : Nat]] /\ Len(d.path) = Len(c.path)
    /\ \A j \in 1 .. k : d.path[j] = c.path[j]
    /\ d.path[k + 1].n = b /\ d.path[k + 1].i = 1

\* What is to be removed of an index node begins at its entry i.
Upward(t, n, i, from) == \A m \in DOMAIN t[n].entries : m >= i => from <= t[n].entries[m].lblk

\* What a leaf with the extents E keeps of extent i, and of all, from block l on.
Keep(E, i, l) == IF E[i].lblk < l THEN <<[E[i] EXCEPT !.len = l - E[i].lblk]>> ELSE <<>>

Left(E, i, l) == SubSeq(E, 1, i - 1) \o Keep(E, i, l)

Gone(E, i, l) == {b \in Block : \E j \in i .. Len(E) : Holds(E[j], b)
                    /\ ~\E e \in ToSet(Keep(E, i, l)) : Holds(e, b)}

\* Extent e is the beginning of extent o.
FrontOf(e, o) ==
    /\ e \in Ent /\ e.len # 0 /\ e.lblk = o.lblk /\ End(e) <= End(o)
    /\ \A b \in Block : Holds(e, b) => Holds(o, b)

\* Tree v is t with leaf n cut at block l in extent i.
LeafCut(t, hi, v, n, i, l) ==
    /\ Tree(v, hi) /\ v \in Trees /\ v[n].entries = Left(t[n].entries, i, l)
    /\ \A m \in Node : v[m].depth = t[m].depth
    /\ \A m \in Node : m # n => v[m] = t[m]
    /\ \A b \in Block : Linked(v, b) <=> Linked(t, b)
    /\ \A b \in Block : b \in Owned(v) <=> b \in Owned(t) /\ b \notin Gone(t[n].entries, i, l)
    /\ Gone(t[n].entries, i, l) \subseteq Owned(t)
    /\ Left(t[n].entries, i, l) # <<>> =>
          1 \in DOMAIN t[n].entries /\ 1 \in DOMAIN Left(t[n].entries, i, l)
          /\ Left(t[n].entries, i, l)[1].lblk = t[n].entries[1].lblk

\* Tree v is t with the extents G in leaf n, which have no other blocks than before.
Shorn(t, hi, v, n, G) ==
    /\ Tree(v, hi) /\ v \in Trees /\ v[n].entries = G
    /\ \A m \in Node : v[m].depth = t[m].depth
    /\ \A m \in Node : m # n => v[m] = t[m]
    /\ \A b \in Block : Linked(v, b) <=> Linked(t, b)
    /\ \A b \in Block : b \in Owned(v) <=> b \in Owned(t) /\ (Has(t, n, b) => Hold(G, b))

\* What ext4_ext_remove_leaf does to the leaf n at the path's end.
LeafState(hi, k, n, i, G, gone, cut) ==
    /\ n = call.path[k].n /\ k = Len(call.path)
    /\ cut = [tree EXCEPT ![n].entries = G]
    /\ G = <<>> /\ k > 1 =>
          /\ tree' = RemoveIdx(cut, call.path, k - 1)
          /\ free' = free \cup gone \cup {n}
          /\ call' = Raised(call, k)
    /\ ~(G = <<>> /\ k > 1) =>
          /\ tree' = IF i = 1 /\ G # <<>> THEN SetFirst(cut, call.path, k, G[1].lblk) ELSE cut
          /\ free' = free \cup gone
          /\ call' = StepUp(call.path, k)
    /\ foreign' = foreign
    /\ IsPath(tree, call.path) /\ RootOK(tree) /\ Filled(tree, {n})
    /\ k \in Nat \ {0} /\ call.level = k /\ call.at = "remove"
    /\ n \in Node /\ i \in DOMAIN tree[n].entries
    /\ LeafCut(tree, hi, cut, n, i, call.from) /\ G = Left(tree[n].entries, i, call.from)
    /\ Parted(Owned(cut), free \cup gone, foreign, {}, {})
=============================================================================
