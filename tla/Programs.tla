------------------------------ MODULE Programs ------------------------------
(***************************************************************************)
(* How the loops of the code, and the expressions of the scripts that it   *)
(* interprets, are written as functions.                                   *)
(***************************************************************************)
EXTENDS Naturals, Sequences

\* A loop of n turns: what it keeps from turn to turn, behind the last.
Loop(n, start, Turn(_, _)) ==
  LET after[k \in 0..n] == IF k = 0 THEN start ELSE Turn(after[k - 1], k)
  IN  after[n]

-----------------------------------------------------------------------------
(* An expression is the sequence of its nodes in the order in which the    *)
(* parsers make them: the arguments of a node are earlier ones, and the    *)
(* last is the whole expression.                                           *)

Node(fn, name, args) == [fn |-> fn, name |-> name, args |-> args]

Leaf(fn, name) == <<Node(fn, name, <<>>)>>

Nodes == [fn : STRING, name : STRING, args : Seq(Nat)]
Expressions ==
  {e \in Seq(Nodes) :
     /\ e # <<>>
     /\ \A i \in DOMAIN e : \A j \in DOMAIN e[i].args : e[i].args[j] \in 1..(i - 1)}

\* A node over the expressions in `args', their nodes one behind the other.
Tree(fn, args) ==
  LET Shifted(e, by) ==
        [i \in DOMAIN e |->
           Node(e[i].fn, e[i].name, [j \in DOMAIN e[i].args |-> e[i].args[j] + by])]
      joined == Loop(Len(args), [nodes |-> <<>>, ends |-> <<>>], LAMBDA made, k :
                  LET nodes == made.nodes \o Shifted(args[k], Len(made.nodes))
                  IN  [nodes |-> nodes, ends |-> Append(made.ends, Len(nodes))])
  IN  Append(joined.nodes, Node(fn, fn, joined.ends))

\* The value of an expression in a state.  Value(inner, x) is that of the node
\* x[2] in the state x[1], inner[<<s, n>>] those of the nodes under it; no node has
\* more levels under it than there are nodes.
ValueOf(expr, states, s, Value(_, _)) ==
  LET domain == states \X DOMAIN expr
      value == Loop(Len(expr), [x \in domain |-> {}], LAMBDA inner, level :
                 [x \in domain |-> Value(inner, x)])
  IN  value[<<s, Len(expr)>>]

\* Texts put behind one another.  What several texts that are not empty make
\* is not told apart.
Joined(texts) ==
  LET some == {i \in DOMAIN texts : texts[i] # ""}
  IN  IF some = {} THEN ""
      ELSE IF \E i \in some : some = {i} THEN texts[CHOOSE i \in some : TRUE]
      ELSE "several texts"
=============================================================================
