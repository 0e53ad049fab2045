------------------------------ MODULE RbTimers ------------------------------
(***************************************************************************)
(* The red-black tree of timers (core/rb_timers.c) behind the request      *)
(* timeouts of the async loop and the timers of the signal framework.      *)
(*                                                                         *)
(* A tree is a root and a heap of nodes, the sentinel included: its parent *)
(* field is written by a deletion, as in the code.  The two rotations and  *)
(* the two halves of each fixup are mirror images and are written once,    *)
(* with the side as a parameter.                                           *)
(***************************************************************************)
EXTENDS Bench, Integers, FiniteSets

CONSTANT TimerValues   \* the value of each node that can be allocated, a sequence

Sentinel == 0
Null == -1
TimerIds == DOMAIN TimerValues
FreeNode == [v |-> 0, l |-> Sentinel, r |-> Sentinel, p |-> Null, red |-> FALSE]
Opp(d) == IF d = "l" THEN "r" ELSE "l"
Parent(t, x) == t.n[x].p
Red(t, x) == t.n[x].red
Paint(t, x, red) == [t EXCEPT !.n[x].red = red]
SideOf(t, x) == IF x = t.n[Parent(t, x)].l THEN "l" ELSE "r"

EmptyTree == [root |-> Sentinel, n |-> [x \in {Sentinel} \cup TimerIds |-> FreeNode]]

RbInit == kind = "rbtimers" /\ st = [tree |-> EmptyTree, live |-> {}]

RECURSIVE Leftmost(_, _)
Leftmost(t, x) == IF t.n[x].l = Sentinel THEN x ELSE Leftmost(t, t.n[x].l)

\* upsgi_min_rb_timer of the whole tree
MinTimer(t) == IF t.root = Sentinel THEN Null ELSE Leftmost(t, t.root)

\* What pointed to x points to y.
Relink(t, x, y) ==
    IF x = t.root THEN [t EXCEPT !.root = y]
    ELSE [t EXCEPT !.n[Parent(t, x)][SideOf(t, x)] = y]

\* upsgi_rbtree_lr (d = "l") and upsgi_rbtree_rr (d = "r")
Rotate(t, x, d) ==
    LET y == t.n[x][Opp(d)]
        m == t.n[y][d]
        a == [Relink(t, x, y) EXCEPT !.n[y].p = Parent(t, x)]
        b == [a EXCEPT !.n[x][Opp(d)] = m, !.n[y][d] = x, !.n[x].p = y]
    IN  IF m = Sentinel THEN b ELSE [b EXCEPT !.n[m].p = x]

\* upsgi_rbt_add: the new leaf, below y
RECURSIVE AddLeaf(_, _, _)
AddLeaf(t, y, x) ==
    LET d == IF t.n[x].v < t.n[y].v THEN "l" ELSE "r"
    IN  IF t.n[y][d] # Sentinel THEN AddLeaf(t, t.n[y][d], x)
        ELSE [t EXCEPT !.n[y][d] = x, !.n[x].p = y, !.n[x].red = TRUE]

\* Mutant: a red uncle is not looked at.
RECURSIVE AddFixNoUncle(_, _)
AddFixNoUncle(t, x) ==
    IF x = t.root \/ ~Red(t, Parent(t, x)) THEN t
    ELSE LET d == SideOf(t, Parent(t, x))
             z == IF SideOf(t, x) = d THEN x ELSE Parent(t, x)
             a == IF z = x THEN t ELSE Rotate(t, z, d)
             q == Parent(a, z)
             b == Paint(Paint(a, q, FALSE), Parent(a, q), TRUE)
         IN  AddFixNoUncle(Rotate(b, Parent(b, q), Opp(d)), z)

\* The rebalancing loop of upsgi_add_rb_timer.
RECURSIVE AddFix(_, _)
AddFix(t, x) ==
    IF x = t.root \/ ~Red(t, Parent(t, x)) THEN t
    ELSE LET p == Parent(t, x)
             g == Parent(t, p)
             d == SideOf(t, p)
             uncle == t.n[g][Opp(d)]
             z == IF SideOf(t, x) = d THEN x ELSE p
             a == IF z = x THEN t ELSE Rotate(t, z, d)
             q == Parent(a, z)
             b == Paint(Paint(a, q, FALSE), Parent(a, q), TRUE)
         IN  IF Red(t, uncle)
             THEN AddFix(Paint(Paint(Paint(t, p, FALSE), uncle, FALSE), g, TRUE), g)
             ELSE AddFix(Rotate(b, Parent(b, q), Opp(d)), z)

\* upsgi_add_rb_timer of node x
AddTimer(t, x) ==
    LET a == [t EXCEPT !.n[x] = [FreeNode EXCEPT !.v = TimerValues[x]]]
        b == AddFix(AddLeaf(a, a.root, x), x)
    IN  IF t.root = Sentinel THEN [a EXCEPT !.root = x] ELSE Paint(b, b.root, FALSE)

\* The fixup loop of upsgi_del_rb_timer: x carries one black too many.
RECURSIVE DelFix(_, _)
DelFix(t, x) ==
    IF x = t.root \/ Red(t, x) THEN Paint(t, x, FALSE)
    ELSE LET p == Parent(t, x)
             d == SideOf(t, x)
             w0 == t.n[p][Opp(d)]
             a == IF Red(t, w0) THEN Rotate(Paint(Paint(t, w0, FALSE), p, TRUE), p, d) ELSE t
             w == a.n[p][Opp(d)]
             near == a.n[w][d]
             b == IF Red(a, a.n[w][Opp(d)]) THEN a
                  ELSE Rotate(Paint(Paint(a, near, FALSE), w, TRUE), w, Opp(d))
             v == b.n[p][Opp(d)]
             c == Paint(Paint(Paint(b, v, Red(b, p)), p, FALSE), b.n[v][Opp(d)], FALSE)
             e == Rotate(c, p, d)
         IN  IF ~Red(a, near) /\ ~Red(a, a.n[w][Opp(d)]) THEN DelFix(Paint(a, w, TRUE), p)
             ELSE Paint(e, e.root, FALSE)

Adopt(t, x, y) == IF x = Sentinel THEN t ELSE [t EXCEPT !.n[x].p = y]

\* upsgi_del_rb_timer.  A node with two children is replaced by its
\* successor, which takes its place, its links and its colour.
DelTimer(t, x) ==
    LET two == t.n[x].l # Sentinel /\ t.n[x].r # Sentinel
        s == IF two THEN Leftmost(t, t.n[x].r) ELSE x
        c == IF two \/ t.n[x].l = Sentinel THEN t.n[s].r ELSE t.n[x].l
        a == Relink(t, s, c)
        b == [a EXCEPT !.n[c].p = IF two /\ Parent(t, s) = x THEN s ELSE Parent(t, s)]
        moved == [Relink(b, x, s) EXCEPT !.n[s].l = b.n[x].l, !.n[s].r = b.n[x].r,
                                         !.n[s].p = b.n[x].p, !.n[s].red = b.n[x].red]
        m == IF two THEN Adopt(Adopt(moved, moved.n[s].l, s), moved.n[s].r, s) ELSE b
        r == IF s = t.root THEN Paint([t EXCEPT !.root = c], c, FALSE)
             ELSE IF Red(t, s) THEN m ELSE DelFix(m, c)
    IN  [r EXCEPT !.n[x] = FreeNode]

RbAdd == /\ At("rbtimers")
         /\ \E x \in TimerIds \ st.live :
                st' = [tree |-> AddTimer(st.tree, x), live |-> st.live \cup {x}]

RbDel == /\ At("rbtimers")
         /\ \E x \in st.live :
                st' = [tree |-> DelTimer(st.tree, x), live |-> st.live \ {x}]

RbNext == RbAdd \/ RbDel

-----------------------------------------------------------------------------
RECURSIVE Inorder(_, _)
Inorder(t, x) ==
    IF x = Sentinel THEN {} ELSE {x} \cup Inorder(t, t.n[x].l) \cup Inorder(t, t.n[x].r)

RECURSIVE BlackHeights(_, _)
BlackHeights(t, x) ==
    IF x = Sentinel THEN {0}
    ELSE {h + (IF Red(t, x) THEN 0 ELSE 1) : h \in BlackHeights(t, t.n[x].l) \cup BlackHeights(t, t.n[x].r)}

RbTypeOK ==
    kind = "rbtimers" =>
        /\ st.tree.root \in {Sentinel} \cup TimerIds
        /\ \A x \in DOMAIN st.tree.n : st.tree.n[x].p \in {Null, Sentinel} \cup TimerIds

\* rb_timers.c: in whatever order timers are added and removed, the tree holds
\* exactly the live timers in the order of their values, so that its leftmost
\* node is a timer that expires first.
RbOrdered ==
    kind = "rbtimers" =>
        LET t == st.tree IN
        /\ Inorder(t, t.root) = st.live
        /\ \A x \in st.live :
            /\ \A y \in Inorder(t, t.n[x].l) : t.n[y].v <= t.n[x].v
            /\ \A y \in Inorder(t, t.n[x].r) : t.n[x].v <= t.n[y].v
            /\ x # t.root => t.n[Parent(t, x)][SideOf(t, x)] = x
        /\ IF st.live = {} THEN MinTimer(t) = Null
           ELSE \A x \in st.live : t.n[MinTimer(t)].v <= t.n[x].v

\* The tree stays balanced: the root and the sentinel are black, no red node
\* has a red child, and every path down meets as many black nodes.
RbBalanced ==
    kind = "rbtimers" =>
        LET t == st.tree IN
        /\ ~Red(t, t.root) /\ ~Red(t, Sentinel)
        /\ \A x \in st.live : Red(t, x) => ~Red(t, t.n[x].l) /\ ~Red(t, t.n[x].r)
        /\ Cardinality(BlackHeights(t, t.root)) = 1
=============================================================================
