------------------------------- MODULE RBTree -------------------------------
(***************************************************************************)
(* CRBTree (src/common/common_rbtree.h): a red-black tree in the nodes of  *)
(* an index chain; equal keys are kept, the newer to the right.  Left and  *)
(* right are the fields "left" and "right" of the tree, so that a          *)
(* direction is a name and the mirrored halves of the code are one here.   *)
(***************************************************************************)
EXTENDS IndexList

CONSTANT TreeCapacity       \* CAPACITY

Opposite(d) == IF d = "left" THEN "right" ELSE "left"
Everywhere(x) == [i \in 0 .. TreeCapacity - 1 |-> x]

FreeNodes == BuildIndexList(TreeCapacity, {"free", "used"})
Initialize == [ix |-> FreeNodes, root |-> Nil,
               parent |-> Everywhere(Nil), left |-> Everywhere(Nil), right |-> Everywhere(Nil),
               color |-> Everywhere("red"), key |-> Everywhere(0), object |-> Everywhere(0)]

\* Clear: the objects stay in the nodes.
Uninitialize(t) == [Initialize EXCEPT !.object = t.object]

PrevNode(t, i) == t.ix.prev[i]
NextNode(t, i) == t.ix.next[i]
IsUsedIndex(t, i) == t.ix.flag[i] = "used"
TreeIndexOf(t, i) == IF IsUsedIndex(t, i) THEN i ELSE Nil
CheckPosition(t, i) == i \in 0 .. TreeCapacity
TreeGetIndex(t, i) ==
    IF ~CheckPosition(t, i) THEN {Nil} ELSE IF i = TreeCapacity THEN {Nil, i} ELSE {TreeIndexOf(t, i)}
Parent(t, i) == t.parent[i]
Left(t, i) == t.left[i]
Right(t, i) == t.right[i]

CreateIndex(t) == [t EXCEPT !.ix = MoveIndex(@, Free(@), "free", "used")]
ResetRBNode(t, i) == [t EXCEPT !.parent[i] = Nil, !.left[i] = Nil, !.right[i] = Nil, !.key[i] = 0]
DestroyIndex(t, i) == [ResetRBNode(t, i) EXCEPT !.ix = MoveIndex(@, i, "used", "free")]

SetParent(t, i, p) == IF i = Nil THEN t ELSE [t EXCEPT !.parent[i] = p]
SetColor(t, i, c) == IF i = Nil THEN t ELSE [t EXCEPT !.color[i] = c]
IsBlack(t, i) == i = Nil \/ t.color[i] = "black"

\* Below p, or as the root, new takes the place of old.
Replace(t, p, old, new) ==
    IF p = Nil THEN [t EXCEPT !.root = new]
    ELSE IF t.left[p] = old THEN [t EXCEPT !.left[p] = new] ELSE [t EXCEPT !.right[p] = new]

\* RotateLeft (d = "left") and RotateRight.
Rotate(t, n, d) ==
    LET o == Opposite(d)
        up == t[o][n]
        inner == t[d][up]
        m == SetParent([t EXCEPT ![o][n] = inner, ![d][up] = n], inner, n)
    IN  SetParent(SetParent(Replace(m, t.parent[n], n, up), up, t.parent[n]), n, up)

\* A red node n below a red parent: recolour, or rotate once or twice.
RECURSIVE InsertRebalance(_, _)
InsertRebalance(t, n) ==
    LET p == t.parent[n]
        g == t.parent[p]
        d == IF t.left[g] = p THEN "left" ELSE "right"
        o == Opposite(d)
        uncle == t[o][g]
        inner == t[o][p] = n
        m == IF inner THEN Rotate(t, p, d) ELSE t
        top == IF inner THEN n ELSE p
    IN  IF IsBlack(t, p) THEN SetColor(t, t.root, "black")
        ELSE IF ~IsBlack(t, uncle)
        THEN InsertRebalance(SetColor(SetColor(SetColor(t, uncle, "black"), p, "black"), g, "red"), g)
        ELSE InsertRebalance(Rotate(SetColor(SetColor(m, top, "black"), g, "red"), g, o),
                             IF inner THEN p ELSE n)

RECURSIVE Descend(_, _, _)
\* FindInsertPostion: the last node on the way down, equal keys to the right.
Descend(t, n, key) ==
    LET next == IF t.key[n] > key THEN t.left[n] ELSE t.right[n]
    IN  IF next = Nil THEN n ELSE Descend(t, next, key)
FindInsertPostion(t, key) == IF t.root = Nil THEN Nil ELSE Descend(t, t.root, key)

Insert(t, key, object) ==
    IF Free(t.ix) = Nil THEN t
    ELSE LET n == Free(t.ix)
             p == FindInsertPostion(t, key)
             m == [CreateIndex(t) EXCEPT !.parent[n] = p, !.left[n] = Nil, !.right[n] = Nil,
                                         !.color[n] = "red", !.key[n] = key, !.object[n] = object]
         IN  InsertRebalance(IF p = Nil THEN [m EXCEPT !.root = n]
                             ELSE [m EXCEPT ![IF t.key[p] > key THEN "left" ELSE "right"][p] = n], n)

RECURSIVE MinNode(_, _)
MinNode(t, n) == IF Left(t, n) = Nil THEN n ELSE MinNode(t, Left(t, n))
RECURSIVE MaxNode(_, _)
MaxNode(t, n) == IF Right(t, n) = Nil THEN n ELSE MaxNode(t, Right(t, n))

\* FindNode: the first node with the key on the way down.
RECURSIVE FindFrom(_, _, _)
FindFrom(t, n, key) ==
    IF n = Nil \/ t.key[n] = key THEN n
    ELSE FindFrom(t, IF t.key[n] > key THEN t.left[n] ELSE t.right[n], key)
FindNode(t, key) == FindFrom(t, t.root, key)

\* The paths through n, below p, have one black node too few: the sibling w is
\* made black, then recoloured, or its red child rotated above p.
RECURSIVE EraseRebalance(_, _, _)
EraseRebalance(t, n, p) ==
    IF ~IsBlack(t, n) \/ n = t.root THEN SetColor(t, n, "black")
    ELSE LET d == IF t.left[p] = n THEN "left" ELSE "right"
             o == Opposite(d)
             sibling == t[o][p]
             a == IF IsBlack(t, sibling) THEN t
                  ELSE Rotate(SetColor(SetColor(t, sibling, "black"), p, "red"), p, d)
             w == a[o][p]
             b == IF IsBlack(a, a[o][w]) THEN Rotate(SetColor(SetColor(a, a[d][w], "black"), w, "red"), w, o) ELSE a
             v == b[o][p]
             c == SetColor(SetColor(SetColor(b, v, b.color[p]), p, "black"), b[o][v], "black")
             r == Rotate(c, p, d)
         IN  IF IsBlack(a, a.left[w]) /\ IsBlack(a, a.right[w])
             THEN EraseRebalance(SetColor(a, w, "red"), p, a.parent[p])
             ELSE SetColor(r, r.root, "black")

\* Erase of a node: with two children, the next node in order takes its place.
EraseIndex(t, old) ==
    LET two == t.left[old] # Nil /\ t.right[old] # Nil
        n == IF two THEN MinNode(t, t.right[old]) ELSE old
        child == IF t.left[n] = Nil THEN t.right[n] ELSE t.left[n]
        p == t.parent[n]
        cut == Replace(SetParent(t, child, p), p, n, child)
        moved == Replace([cut EXCEPT !.parent[n] = cut.parent[old], !.color[n] = cut.color[old],
                                     !.left[n] = cut.left[old], !.right[n] = cut.right[old]],
                         cut.parent[old], old, n)
        put == SetParent(SetParent(moved, cut.left[old], n), cut.right[old], n)
        m == DestroyIndex(IF two THEN put ELSE cut, old)
    IN  IF t.color[n] = "black" THEN EraseRebalance(m, child, IF two /\ p = old THEN n ELSE p) ELSE m

\* Erase of a key: of every node that has it.
RECURSIVE Erase(_, _)
Erase(t, key) == IF FindNode(t, key) = Nil THEN t ELSE Erase(EraseIndex(t, FindNode(t, key)), key)

\* Next: the least node to the right, or the first ancestor n is to the left of.
RECURSIVE Above(_, _)
Above(t, n) == LET p == Parent(t, n) IN IF p = Nil \/ Right(t, p) # n THEN p ELSE Above(t, p)
NextInOrder(t, n) == IF Right(t, n) # Nil THEN MinNode(t, Right(t, n)) ELSE Above(t, n)
\* Prev: the mirror image.
RECURSIVE AboveLeft(_, _)
AboveLeft(t, n) == LET p == Parent(t, n) IN IF p = Nil \/ Left(t, p) # n THEN p ELSE AboveLeft(t, p)
PrevInOrder(t, n) == IF Left(t, n) # Nil THEN MaxNode(t, Left(t, n)) ELSE AboveLeft(t, n)
Root(t) == t.root
First(t) == IF Root(t) = Nil THEN Nil ELSE MinNode(t, Root(t))
LastInOrder(t) == IF Root(t) = Nil THEN Nil ELSE MaxNode(t, Root(t))
-----------------------------------------------------------------------------
RECURSIVE From(_, _, _)
From(t, n, k) == IF n = Nil \/ k = 0 THEN << >> ELSE <<<<t.key[n], t.object[n]>>>> \o From(t, NextInOrder(t, n), k - 1)

\* Keys and objects in the order of First and Next; Last and Prev lead back.
Contents(t) == From(t, First(t), TreeCapacity + 1)
LeadsBack(t) ==
    /\ \A n \in DOMAIN t.parent : IsUsedIndex(t, n) =>
          /\ NextInOrder(t, n) # Nil => PrevInOrder(t, NextInOrder(t, n)) = n
          /\ NextInOrder(t, n) = Nil <=> n = LastInOrder(t)
          /\ PrevInOrder(t, n) = Nil <=> n = First(t)

\* The number of black nodes on the paths down from n, or 0 if they differ.
RECURSIVE BlackHeight(_, _)
BlackHeight(t, n) ==
    IF n = Nil THEN 1
    ELSE LET l == BlackHeight(t, t.left[n])
             r == BlackHeight(t, t.right[n])
         IN  IF l = 0 \/ l # r THEN 0 ELSE l + (IF t.color[n] = "black" THEN 1 ELSE 0)

Balanced(t) ==
    /\ IsBlack(t, t.root) /\ BlackHeight(t, t.root) > 0
    /\ \A i \in DOMAIN t.parent : CheckIndex(t.ix, i) /\ t.color[i] = "red" =>
            IsBlack(t, t.left[i]) /\ IsBlack(t, t.right[i])
=============================================================================
