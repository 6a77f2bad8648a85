------------------------------- MODULE RBTree -------------------------------
(***************************************************************************)
(* The red-black tree of rbtree.c and the insertion of ml_main.c, pointer  *)
(* by pointer.  A node is named by its key: nodes are never copied, only   *)
(* relinked.  One step is one iteration of a loop that changes the tree;   *)
(* the searches, which do not, are functions.  The mirrored halves of the  *)
(* code are one definition with a direction.                               *)
(***************************************************************************)
EXTENDS Integers, FiniteSets

CONSTANTS Key, NIL

ASSUME KeysOK == Key \subseteq Nat /\ NIL \notin Key

VARIABLES
    tree,   \* the root and the fields of every node
    live,   \* the nodes allocated and not yet freed
    pc,     \* "idle", the loop being executed, or "free"
    arg,    \* the key the operation in progress was called with
    n,      \* rb_insert_color's n
    x, xp,  \* rb_delete_fixup's x and parent
    z       \* the node rb_delete will return, for its caller to free

vars == <<tree, live, pc, arg, n, x, xp, z>>

Ptr == Key \cup {NIL}
Other(d) == IF d = "left" THEN "right" ELSE "left"

---------------------------------------------------------------------------
(* Pointer operations on a tree t. *)

\* if (p) p->field = v
Set(f, p, v) == IF p = NIL THEN f ELSE [f EXCEPT ![p] = v]

IsBlack(t, p) == p # NIL => t.color[p] = "BLACK"
Grandparent(t, p) == t.parent[t.parent[p]]

\* The link to u in its parent p now leads to v.
Relink(t, p, u, v) ==
    IF p = NIL THEN [t EXCEPT !.root = v]
    ELSE IF t.left[p] = u THEN [t EXCEPT !.left[p] = v]
    ELSE [t EXCEPT !.right[p] = v]

\* Mutant: the rotation leaves the moved child's parent pointer behind.
RotateForgetsParent(t, d, u) ==
    LET o == Other(d)
        r == t[o][u]
        p == t.parent[u]
        t1 == [t EXCEPT ![o][u] = t[d][r], ![d][r] = u,
                        !.parent = Set(Set(@, u, r), r, p)]
    IN  Relink(t1, p, u, r)

\* rb_rotate_left (d = "left") and rb_rotate_right.
Rotate(t, d, u) ==
    LET o == Other(d)
        r == t[o][u]
        p == t.parent[u]
        t1 == [t EXCEPT ![o][u] = t[d][r], ![d][r] = u,
                        !.parent = Set(Set(Set(@, t[d][r], u), u, r), r, p)]
    IN  Relink(t1, p, u, r)

Transplant(t, u, v) ==
    LET t1 == Relink(t, t.parent[u], u, v)
    IN  [t1 EXCEPT !.parent = Set(@, v, t.parent[u])]

---------------------------------------------------------------------------
(* Searches. *)

\* rb_search_leq: the last node not above k on the way down.
SearchLeq(t, k) ==
    LET down[u \in Ptr] ==
            IF u = NIL THEN NIL
            ELSE IF u <= k
                 THEN LET r == down[t.right[u]] IN IF r = NIL THEN u ELSE r
                 ELSE down[t.left[u]]
    IN  down[t.root]

\* rb_search
Search(t, k) ==
    LET down[u \in Ptr] ==
            IF u = NIL \/ u = k THEN u
            ELSE down[IF k < u THEN t.left[u] ELSE t.right[u]]
    IN  down[t.root]

\* The node under which insert_block_rb links a new key, NIL in an empty tree.
LinkParent(t, k) ==
    LET next(u) == IF k < u THEN t.left[u] ELSE t.right[u]
        down[u \in Ptr] == IF next(u) = NIL THEN u ELSE down[next(u)]
    IN  IF t.root = NIL THEN NIL ELSE down[t.root]

\* rb_min
Minimum(t, u) ==
    LET down[v \in Ptr] == IF t.left[v] = NIL THEN v ELSE down[t.left[v]]
    IN  down[u]

---------------------------------------------------------------------------
(* Insertion. *)

\* insert_block_rb up to the call of rb_insert_color; it returns at once when
\* the key is there.
Insert(k) ==
    LET p == LinkParent(tree, k) IN
    /\ pc = "idle"
    /\ Search(tree, k) = NIL
    /\ tree' = [root   |-> IF p = NIL THEN k ELSE tree.root,
                parent |-> [tree.parent EXCEPT ![k] = p],
                left   |-> Set([tree.left EXCEPT ![k] = NIL],
                               IF p # NIL /\ k < p THEN p ELSE NIL, k),
                right  |-> Set([tree.right EXCEPT ![k] = NIL],
                               IF p # NIL /\ k > p THEN p ELSE NIL, k),
                color  |-> [tree.color EXCEPT ![k] = "RED"]]
    /\ live' = live \cup {k}
    /\ pc' = "insert_color"
    /\ arg' = k /\ n' = k
    /\ UNCHANGED <<x, xp, z>>

InsertLoops == n # tree.root /\ ~IsBlack(tree, tree.parent[n])

\* Case 1 of an iteration: recolour and move up.
InsertRecolor ==
    LET p == tree.parent[n]
        g == Grandparent(tree, n)
        u == IF p = tree.left[g] THEN tree.right[g] ELSE tree.left[g]
    IN
    /\ pc = "insert_color" /\ InsertLoops
    /\ ~IsBlack(tree, u)
    /\ tree' = [tree EXCEPT !.color[p] = "BLACK", !.color[u] = "BLACK",
                            !.color[g] = "RED"]
    /\ n' = g
    /\ UNCHANGED <<live, pc, arg, x, xp, z>>

\* Mutant: case 2 is forgotten, the outer rotation is done on an inner child.
InsertRotateOuterOnly ==
    LET p == tree.parent[n]
        g == Grandparent(tree, n)
        d == IF p = tree.left[g] THEN "left" ELSE "right"
    IN
    /\ pc = "insert_color" /\ InsertLoops
    /\ IsBlack(tree, tree[Other(d)][g])
    /\ tree' = Rotate([tree EXCEPT !.color[p] = "BLACK", !.color[g] = "RED"],
                      Other(d), g)
    /\ UNCHANGED <<live, pc, arg, n, x, xp, z>>

\* Cases 2 and 3: rotate an inner child outwards, then the grandparent.
InsertRotate ==
    LET p == tree.parent[n]
        g == Grandparent(tree, n)
        d == IF p = tree.left[g] THEN "left" ELSE "right"
        inner == n = tree[Other(d)][p]
        t1 == IF inner THEN Rotate(tree, d, p) ELSE tree
        m == IF inner THEN p ELSE n
        t2 == [t1 EXCEPT !.color[t1.parent[m]] = "BLACK", !.color[g] = "RED"]
    IN
    /\ pc = "insert_color" /\ InsertLoops
    /\ IsBlack(tree, tree[Other(d)][g])
    /\ tree' = Rotate(t2, Other(d), g)
    /\ n' = m
    /\ UNCHANGED <<live, pc, arg, x, xp, z>>

InsertDone ==
    /\ pc = "insert_color" /\ ~InsertLoops
    /\ tree' = [tree EXCEPT !.color[tree.root] = "BLACK"]
    /\ pc' = "idle"
    /\ arg' = NIL /\ n' = NIL
    /\ UNCHANGED <<live, x, xp, z>>

---------------------------------------------------------------------------
(* Deletion. *)

\* Node u with at most one child is replaced by it.
Unlink(u) ==
    LET c == IF tree.left[u] = NIL THEN tree.right[u] ELSE tree.left[u]
    IN  [tree |-> Transplant(tree, u, c), color |-> tree.color[u],
         x |-> c, parent |-> tree.parent[u]]

\* Node u with two children is replaced by its successor y, which leaves its
\* own place first.
Replace(u) ==
    LET y == Minimum(tree, tree.right[u])
        c == tree.right[y]
        t1 == IF tree.parent[y] = u THEN tree
              ELSE LET t0 == Transplant(tree, y, c)
                   IN  [t0 EXCEPT !.right[y] = t0.right[u], !.parent[t0.right[u]] = y]
        t2 == Transplant(t1, u, y)
    IN  [tree |-> [t2 EXCEPT !.left[y] = t2.left[u], !.parent[t2.left[u]] = y,
                             !.color[y] = t2.color[u]],
         color |-> tree.color[y],
         x |-> c,
         parent |-> IF tree.parent[y] = u THEN y ELSE tree.parent[y]]

\* rb_delete of key k, found at node u, up to the fix-up; nothing happens when
\* it is not found.
DeleteNode(k, u) ==
    LET r == IF tree.left[u] = NIL \/ tree.right[u] = NIL THEN Unlink(u) ELSE Replace(u)
    IN
    /\ pc = "idle"
    /\ u # NIL
    /\ tree' = r.tree
    /\ arg' = k /\ z' = u
    /\ IF r.color = "BLACK"
       THEN pc' = "delete_fixup" /\ x' = r.x /\ xp' = r.parent
       ELSE pc' = "free" /\ UNCHANGED <<x, xp>>
    /\ UNCHANGED <<live, n>>

\* Mutant: the block the key lies in is deleted, not the one that starts there.
DeleteLeq(k) == DeleteNode(k, SearchLeq(tree, k))

Delete(k) == DeleteNode(k, Search(tree, k))

\* The side of xp that x is on, as the code tests it, and its sibling.
Side == IF x = tree.left[xp] THEN "left" ELSE "right"
DeleteLoops == x # tree.root /\ IsBlack(tree, x)
DeleteBreaks == xp # NIL => tree[Other(Side)][xp] = NIL

\* A red sibling is rotated above the parent, then the new sibling is black.
AfterRedSibling ==
    LET w == tree[Other(Side)][xp] IN
    IF IsBlack(tree, w) THEN tree
    ELSE Rotate([tree EXCEPT !.color[w] = "BLACK", !.color[xp] = "RED"], Side, xp)

\* An iteration that pushes the missing black up: the sibling turns red.
DeleteRecolor ==
    LET t == AfterRedSibling
        w == t[Other(Side)][xp]
    IN
    /\ pc = "delete_fixup" /\ DeleteLoops /\ ~DeleteBreaks
    /\ IsBlack(t, t.left[w]) /\ IsBlack(t, t.right[w])
    /\ tree' = [t EXCEPT !.color[w] = "RED"]
    /\ x' = xp
    /\ xp' = t.parent[xp]
    /\ UNCHANGED <<live, pc, arg, n, z>>

\* Mutant: the far nephew keeps its colour.
DeleteRotateKeepsNephew ==
    LET d == Side
        o == Other(d)
        t == AfterRedSibling
        w == t[o][xp]
        t1 == IF IsBlack(t, t[o][w])
              THEN Rotate([t EXCEPT !.color = [Set(@, t[d][w], "BLACK") EXCEPT ![w] = "RED"]],
                          o, w)
              ELSE t
        v == t1[o][xp]
        t2 == [t1 EXCEPT !.color = [@ EXCEPT ![v] = t1.color[xp], ![xp] = "BLACK"]]
        t3 == Rotate(t2, d, xp)
    IN
    /\ pc = "delete_fixup" /\ DeleteLoops /\ ~DeleteBreaks
    /\ ~(IsBlack(t, t.left[w]) /\ IsBlack(t, t.right[w]))
    /\ tree' = t3
    /\ x' = t3.root
    /\ xp' = NIL
    /\ UNCHANGED <<live, pc, arg, n, z>>

\* An iteration that restores the missing black: make the far nephew red,
\* then rotate the sibling above the parent.
DeleteRotate ==
    LET d == Side
        o == Other(d)
        t == AfterRedSibling
        w == t[o][xp]
        t1 == IF IsBlack(t, t[o][w])
              THEN Rotate([t EXCEPT !.color = [Set(@, t[d][w], "BLACK") EXCEPT ![w] = "RED"]],
                          o, w)
              ELSE t
        v == t1[o][xp]
        t2 == [t1 EXCEPT !.color = Set([@ EXCEPT ![v] = t1.color[xp], ![xp] = "BLACK"],
                                       t1[o][v], "BLACK")]
        t3 == Rotate(t2, d, xp)
    IN
    /\ pc = "delete_fixup" /\ DeleteLoops /\ ~DeleteBreaks
    /\ ~(IsBlack(t, t.left[w]) /\ IsBlack(t, t.right[w]))
    /\ tree' = t3
    /\ x' = t3.root
    /\ xp' = NIL
    /\ UNCHANGED <<live, pc, arg, n, z>>

\* The loop ends, or breaks off where a parent or a sibling is missing.
DeleteDone ==
    /\ pc = "delete_fixup" /\ (DeleteLoops => DeleteBreaks)
    /\ tree' = [tree EXCEPT !.color = Set(@, x, "BLACK")]
    /\ pc' = "free"
    /\ x' = NIL /\ xp' = NIL
    /\ UNCHANGED <<live, arg, n, z>>

\* The caller frees the node rb_delete returns.
Free ==
    /\ pc = "free"
    /\ tree' = [tree EXCEPT !.left[z] = NIL, !.right[z] = NIL, !.parent[z] = NIL,
                            !.color[z] = "BLACK"]
    /\ live' = live \ {z}
    /\ pc' = "idle"
    /\ arg' = NIL /\ z' = NIL
    /\ UNCHANGED <<n, x, xp>>

---------------------------------------------------------------------------

Init ==
    /\ tree = [root |-> NIL, left |-> [k \in Key |-> NIL], right |-> [k \in Key |-> NIL],
               parent |-> [k \in Key |-> NIL], color |-> [k \in Key |-> "BLACK"]]
    /\ live = {}
    /\ pc = "idle"
    /\ arg = NIL /\ n = NIL /\ x = NIL /\ xp = NIL /\ z = NIL

Next ==
    \/ \E k \in Key : Insert(k)
    \/ \E k \in Key : Delete(k)
    \/ InsertRecolor \/ InsertRotate \/ InsertDone
    \/ DeleteRecolor \/ DeleteRotate \/ DeleteDone \/ Free

Spec == Init /\ [][Next]_vars

---------------------------------------------------------------------------
(* Properties. *)

Fields == [root : Ptr, left : [Key -> Ptr], right : [Key -> Ptr],
           parent : [Key -> Ptr], color : [Key -> {"RED", "BLACK"}]]

\* Every pointer is NULL or a node, every node has a colour (part of
\* SearchTree).
TypeOK ==
    /\ tree \in Fields
    /\ live \subseteq Key
    /\ pc \in {"idle", "insert_color", "delete_fixup", "free"}
    /\ {arg, n, x, xp, z} \subseteq Ptr

\* The nodes reached from u: u, its children, their children, ...
Below(u) ==
    LET level[i \in 0 .. Cardinality(Key)] ==
            IF i = 0 THEN {u} \ {NIL}
            ELSE UNION {{v, tree.left[v], tree.right[v]} : v \in level[i - 1]} \ {NIL}
    IN  level[Cardinality(Key)]

\* Between any two iterations of any loop the nodes form a binary search tree
\* with matching parent links: every node is linked, none twice, and none
\* freed but still reached (the node being deleted is already out).  So
\* rb_search_leq returns the largest key not above the one sought, even
\* inside a fix-up.
SearchTree ==
    /\ TypeOK
    /\ Below(tree.root) = live \ {z}
    /\ tree.root # NIL => tree.parent[tree.root] = NIL
    /\ \A k \in Below(tree.root) : \A d \in {"left", "right"} :
          LET c == tree[d][k] IN
          /\ c # NIL => tree.parent[c] = k
          /\ \A m \in Below(c) : IF d = "left" THEN m < k ELSE m > k
    /\ \A k \in Key :
          LET below == {m \in Below(tree.root) : m <= k}
          IN  SearchLeq(tree, k) =
                 IF below = {} THEN NIL ELSE CHOOSE m \in below : \A j \in below : j <= m

\* Black nodes on the paths below u, or -100 where they differ.  The node x
\* of the deletion loop (or the NULL it stands for) counts one black more.
BlackHeight ==
    LET extra(b) == IF pc = "delete_fixup" /\ b THEN 1 ELSE 0
        height[u \in Key] ==
            LET child(d) == IF tree[d][u] = NIL THEN extra(x = NIL /\ xp = u)
                            ELSE height[tree[d][u]]
                l == child("left")
                r == child("right")
            IN  IF l = r THEN l + extra(u = x) + (IF IsBlack(tree, u) THEN 1 ELSE 0)
                ELSE -100
    IN  IF tree.root = NIL THEN 0 ELSE height[tree.root]

\* The rules of a red-black tree hold whenever no operation is in progress,
\* and inside the loops they fail only where the loop is working: a red n
\* under a red parent, one black missing at x, which may be red.  The two
\* defensive breaks of rb_delete_fixup, which would leave it there, are never
\* taken: as long as the loop goes on, x has a parent and a sibling.
RedBlack ==
    /\ BlackHeight >= 0
    /\ \A k \in Below(tree.root) \ {n, x, tree.root} :
          IsBlack(tree, k) \/ IsBlack(tree, tree.parent[k]) \/ tree.parent[k] = x
    /\ pc = "insert_color" => ~IsBlack(tree, n)
    /\ pc = "idle" => IsBlack(tree, tree.root)
    /\ pc = "delete_fixup" /\ DeleteLoops => ~DeleteBreaks

\* The operation in progress and its key.
Call == IF arg = NIL THEN << >>
        ELSE <<IF pc = "insert_color" THEN "insert" ELSE "delete", arg>>

OM == INSTANCE OrderedMap WITH keys <- Below(tree.root), call <- Call

\* The keys found from the root are those of an ordered map: an insertion adds
\* the key it was called with, a deletion removes the key it was called with,
\* both in their first step, and no rotation, recolouring or free inside an
\* operation gains or loses a node.
ImplementsOrderedMap == OM!Spec

\* How many nodes are above u.
Depth(u) ==
    LET up[i \in 0 .. Cardinality(Key)] ==
            IF i = 0 THEN u ELSE IF up[i - 1] = NIL THEN NIL ELSE tree.parent[up[i - 1]]
    IN  Cardinality({i \in 1 .. Cardinality(Key) : up[i] # NIL})

\* What is left for a loop: nothing once its condition is false, else the
\* climb of the node it works on (x may stand for a NULL child of xp).
Work ==
    CASE pc = "insert_color" /\ InsertLoops -> 1 + Depth(n)
      [] pc = "delete_fixup" /\ DeleteLoops ->
             1 + (IF x = NIL THEN 1 + Depth(xp) ELSE Depth(x))
      [] OTHER -> 0

\* Both fix-up loops end: an iteration leaves less to do, although it changes
\* the pointers it climbs by and a rotation can push its node down again.
FixupProgress == [][pc # "idle" /\ pc' = pc => Work' < Work]_vars
=============================================================================
