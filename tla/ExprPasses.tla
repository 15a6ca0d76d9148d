----------------------------- MODULE ExprPasses -----------------------------
(***************************************************************************)
(* The passes that rewrite expressions: the rules of ExprRules, applied to *)
(* every node bottom up.                                                   *)
(***************************************************************************)
EXTENDS ExprRules

\* The value of an expression where variable n has value env[n].
RECURSIVE Value(_, _)
Value(e, env) ==
  NodeValue(e, Value(e.args[1], env), Value(e.args[2], env), Value(e.args[3], env), env)

RECURSIVE SliceUncast(_, _, _)
SliceUncast(e0, hi, lo) == UncastSlice(e0, hi, lo, SliceUncast(e0.args[1], hi, lo))

RECURSIVE SliceInside(_, _, _)
SliceInside(e0, hi, lo) ==
  LET width == e0.args[2].type
  IN InsideSlice(e0, hi, lo, SliceUncast(e0, hi, lo),
                 SliceInside(e0.args[1], hi - width, lo - width), SliceInside(e0.args[2], hi, lo))

\* A pass is applied to the operands before the node (postorder).
RECURSIVE Rewrite(_, _)
Rewrite(pass, e) ==
  LET node == WithArgs(e, [i \in DOMAIN e.args |-> Rewrite(pass, e.args[i])])
      s == Unshifted(node)
  IN RewriteNode(pass, node, SliceInside(s.of, s.hi, s.lo))

-----------------------------------------------------------------------------
(* Assignments, to a variable or to a slice of one.                        *)

\* The value of the variable after the assignment.
Assigned(s, env) ==
  LET left == s.left
      right == Value(s.right, env)
  IN IF left.op = "Path" THEN right
     ELSE Replaced(Value(left.args[1], env), right, left.args[2].v, left.args[3].v)

\* A pass over an assignment: the left side of one has nothing to rewrite.
RewriteAssign(pass, s) == [s EXCEPT !.right = Rewrite(pass, @)]
=============================================================================
