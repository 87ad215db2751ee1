-------------------------- MODULE MCAssertionEdge --------------------------
(* Story s1 is emitted twice, grown and stronger the second time, with     *)
(* more articles than the edge may list; s2 shares its first article.      *)
EXTENDS AssertionEdge, TLC

CONSTANTS s1, s2, a1, a2, a3, f1, f2

MCMessages ==
    {[story |-> s1, articles |-> {a1}, strength |-> 1],
     [story |-> s1, articles |-> {a1, a2, a3}, strength |-> 2],
     [story |-> s2, articles |-> {a1}, strength |-> 1]}

MCCredibility == [f \in Feeds |-> IF f = f1 THEN 1 ELSE 2]

(* Concurrent invocations of the one function are interchangeable, and so  *)
(* are the articles only the larger emission brings.                       *)
MCSymmetry == Permutations(Workers) \cup Permutations({a2, a3})

(* A day halves what is left.                                              *)
MCDecayed == [xd \in Confidences \X Days |-> xd[1] \div (2 ^ xd[2])]
=============================================================================
