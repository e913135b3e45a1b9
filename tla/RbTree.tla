------------------------------- MODULE RbTree -------------------------------
(***************************************************************************)
(* The red-black trees of common/rbtree.c, in which sorted lists are kept.  *)
(* A node is the number that it is sorted by; Null is no node. Left and     *)
(* right are sides, and what the code writes twice, once for each side, is  *)
(* written once for a side d and the other one.                            *)
(***************************************************************************)
EXTENDS Integers, Sequences, SequencesExt, FiniteSets, FiniteSetsExt, TLC

CONSTANT MaxNode

VARIABLE tree   \* [root, child: of a side and a node, parent, red: the red nodes]

Null == 0
Node == 1..MaxNode
Side == {"left", "right"}
Other(d) == IF d = "left" THEN "right" ELSE "left"

Init == tree = [root |-> Null, child |-> [d \in Side |-> [n \in Node |-> Null]],
                parent |-> [n \in Node |-> Null], red |-> {}]

IsRed(t, n) == n \in t.red
Black(t, n) == [t EXCEPT !.red = @ \ {n}]
Red(t, n) == [t EXCEPT !.red = @ \cup {n}]
SideOf(t, n) == IF t.child["left"][t.parent[n]] = n THEN "left" ELSE "right"
WithParent(t, n, p) == IF n = Null THEN t ELSE [t EXCEPT !.parent[n] = p]
\* what hangs where n hangs is m now
Hung(t, n, m) == IF t.parent[n] = Null THEN [t EXCEPT !.root = m]
                 ELSE [t EXCEPT !.child[SideOf(t, n)][t.parent[n]] = m]

-----------------------------------------------------------------------------
(* Insertion. *)

\* _rb_rotate_left is Rotate(t, n, "left")
Rotate(t, n, d) ==
    LET e == Other(d)
        up == t.child[e][n]
        inner == t.child[d][up]
        moved == [Hung(t, n, up) EXCEPT !.child[e][n] = inner, !.child[d][up] = n]
    IN  WithParent(WithParent(WithParent(moved, inner, n), up, t.parent[n]), n, up)

\* faulty: a node between its parent and its grandparent is not brought outside first
RECURSIVE InsertColorInside(_, _)
InsertColorInside(t, n) ==
    LET p == t.parent[n]
        g == t.parent[p]
        uncle == t.child[Other(SideOf(t, p))][g]
    IN  IF p = Null \/ ~IsRed(t, p) THEN Black(t, t.root)
        ELSE IF IsRed(t, uncle) THEN InsertColorInside(Red(Black(Black(t, uncle), p), g), g)
        ELSE InsertColorInside(Rotate(Red(Black(t, p), g), g, Other(SideOf(t, p))), p)

RECURSIVE InsertColor(_, _)
InsertColor(t, n) ==
    LET p == t.parent[n]
        g == t.parent[p]
        d == SideOf(t, p)
        e == Other(d)
        uncle == t.child[e][g]
        isInside == t.child[e][p] = n
        outside == IF isInside THEN Rotate(t, p, d) ELSE t
        top == IF isInside THEN n ELSE p
    IN  IF p = Null \/ ~IsRed(t, p) THEN Black(t, t.root)
        ELSE IF IsRed(t, uncle) THEN InsertColor(Red(Black(Black(t, uncle), p), g), g)
        ELSE Black(Rotate(Red(Black(outside, top), g), g, e),
                   Rotate(Red(Black(outside, top), g), g, e).root)

\* the place below which a caller's search ends
RECURSIVE Place(_, _, _)
Place(t, n, at) ==
    LET d == IF n < at THEN "left" ELSE "right"
    IN  IF t.child[d][at] = Null THEN <<at, d>> ELSE Place(t, n, t.child[d][at])

\* rb_link_node and rb_insert_color
Insert(t, n) ==
    IF t.root = Null THEN InsertColor(Red([t EXCEPT !.root = n], n), n)
    ELSE LET place == Place(t, n, t.root)
         IN  InsertColor(Red([t EXCEPT !.child[place[2]][place[1]] = n,
                                       !.parent[n] = place[1]], n), n)

-----------------------------------------------------------------------------
(* Removal. *)

\* _rb_erase_color: the black nodes are one too few below p where n is
RECURSIVE EraseColor(_, _, _)
EraseColor(t, n, p) ==
    LET d == IF t.child["left"][p] = n THEN "left" ELSE "right"
        e == Other(d)
        other == t.child[e][p]
        lifted == Rotate(Red(Black(t, other), p), p, d)
        near == t.child[d][other]
        far == t.child[e][other]
        turned == IF IsRed(t, far) THEN t ELSE Rotate(Red(Black(t, near), other), other, e)
        sibling == turned.child[e][p]
        coloured == IF IsRed(turned, p) THEN Red(turned, sibling) ELSE Black(turned, sibling)
        settled == Rotate(Black(Black(coloured, p), coloured.child[e][sibling]), p, d)
    IN  IF IsRed(t, n) \/ n = t.root THEN Black(t, n)
        ELSE IF IsRed(t, other) THEN EraseColor(lifted, n, p)
        ELSE IF ~IsRed(t, near) /\ ~IsRed(t, far)
        THEN EraseColor(Red(t, other), p, t.parent[p])
        ELSE Black(settled, settled.root)

RECURSIVE Outermost(_, _, _)
Outermost(t, n, d) == IF t.child[d][n] = Null THEN n ELSE Outermost(t, t.child[d][n], d)

\* n is not in the tree and its fields do not matter
Forgotten(t, n) == [Black(t, n) EXCEPT !.child["left"][n] = Null, !.child["right"][n] = Null,
                                       !.parent[n] = Null]
\* faulty: the children are not told
CopiedUntold(t, n, m) ==
    [(IF IsRed(t, n) THEN Red(Hung(t, n, m), m) ELSE Black(Hung(t, n, m), m))
        EXCEPT !.child["left"][m] = t.child["left"][n], !.child["right"][m] = t.child["right"][n],
               !.parent[m] = t.parent[n]]

\* m has all that n has
Copied(t, n, m) ==
    LET l == t.child["left"][n]
        r == t.child["right"][n]
        here == WithParent(WithParent(Hung(t, n, m), l, m), r, m)
    IN  [(IF IsRed(t, n) THEN Red(here, m) ELSE Black(here, m))
            EXCEPT !.child["left"][m] = l, !.child["right"][m] = r, !.parent[m] = t.parent[n]]

\* rb_replace_node: the caller takes a node that sorts alike
Replaced(t, n, m) == Forgotten(Copied(t, n, m), n)

\* rb_erase: a node with two children gives its place to the next one, which is
\* taken out where it was
Erase(t, n) ==
    LET isInner == Null \notin {t.child["left"][n], t.child["right"][n]}
        next == IF isInner THEN Outermost(t, t.child["right"][n], "left") ELSE n
        child == t.child[IF t.child["left"][next] = Null THEN "right" ELSE "left"][next]
        p == t.parent[next]
        out == WithParent(Hung(t, next, child), child, p)
        moved == IF isInner THEN Copied(out, n, next) ELSE out
    IN  Forgotten(IF IsRed(t, next) THEN moved
                  ELSE EraseColor(moved, child, IF p = n THEN next ELSE p), n)

-----------------------------------------------------------------------------
(* Walking. *)

\* rb_first and rb_last
End(t, d) == IF t.root = Null THEN Null ELSE Outermost(t, t.root, d)

RECURSIVE Above(_, _, _)
Above(t, n, d) == IF t.parent[n] # Null /\ SideOf(t, n) = d THEN Above(t, t.parent[n], d)
                  ELSE t.parent[n]

\* rb_next is Beside(t, n, "right"), rb_prev is Beside(t, n, "left")
Beside(t, n, d) == IF t.child[d][n] # Null THEN Outermost(t, t.child[d][n], Other(d))
                   ELSE Above(t, n, d)

RECURSIVE Walk(_, _, _)
Walk(t, n, d) == IF n = Null THEN <<>> ELSE <<n>> \o Walk(t, Beside(t, n, d), d)

-----------------------------------------------------------------------------
Members(t) == {n \in Node : n = t.root \/ t.parent[n] # Null}

Add == \E n \in Node \ Members(tree) : tree' = Insert(tree, n)
TakeOut == \E n \in Members(tree) : tree' = Erase(tree, n)
\* nothing that is sorted between the two
Replace ==
    \E n \in Members(tree), m \in Node \ Members(tree) :
        /\ \A k \in Members(tree) \ {n} : (k < n) <=> (k < m)
        /\ tree' = Replaced(tree, n, m)

Next == Add \/ TakeOut \/ Replace

-----------------------------------------------------------------------------
RECURSIVE BlackHeights(_, _)
\* how many black nodes are on the ways from n to the ends of the tree
BlackHeights(t, n) ==
    IF n = Null THEN {0}
    ELSE {h + IF IsRed(t, n) THEN 0 ELSE 1 :
             h \in BlackHeights(t, t.child["left"][n]) \cup BlackHeights(t, t.child["right"][n])}

\* rb_insert_color and rb_erase: after every sequence of insertions, removals and
\* replacements no red node is below a red one and every way down has the same number
\* of black ones, so that no search takes more than twice the time of another.
IsBalanced ==
    /\ ~IsRed(tree, tree.root)
    /\ \A n \in tree.red : tree.parent[n] \notin tree.red
    /\ Cardinality(BlackHeights(tree, tree.root)) = 1

Sorted(S) == SelectSeq([i \in Node |-> i], LAMBDA i : i \in S)

\* rb_first, rb_next, rb_last, rb_prev: the walk meets every node once, in order, in
\* both directions, and parents know their children.
WalksInOrder ==
    /\ Walk(tree, End(tree, "left"), "right") = Sorted(Members(tree))
    /\ Walk(tree, End(tree, "right"), "left") = Reverse(Sorted(Members(tree)))
    /\ \A n \in Members(tree), d \in Side :
          tree.child[d][n] # Null => tree.parent[tree.child[d][n]] = n
=============================================================================
