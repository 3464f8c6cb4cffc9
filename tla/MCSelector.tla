------------------------------ MODULE MCSelector -------------------------------
EXTENDS Selector, TLC
CONSTANTS g1, g2, g3
MCOrders == {<<g1, g2, g3>>, <<g3, g2, g1>>}
MCFileOrder == <<g1, g2, g3>>
MCSourceOf == (g1 :> 1 @@ g2 :> 1 @@ g3 :> 2)
MCNews == {[g \in Groups |-> 1], (g1 :> 1 @@ g2 :> 0 @@ g3 :> 1)}
================================================================================
