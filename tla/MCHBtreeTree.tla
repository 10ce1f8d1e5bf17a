---------------------------- MODULE MCHBtreeTree ----------------------------
EXTENDS HBtreeTree

\* The longest keys, and values just under and over the overflow threshold.
KeyBytes(k) == 512
ValueBytes(v) == IF v = "inPage" THEN 1000 ELSE 1001
InOrder(n) == [i \in 1 .. n |-> i]
Files == {InOrder(9), InOrder(10)}

\* Bound: the keys that may get the off-page value.
FewOffPage == \A k \in DOMAIN contents : contents[k] = "offPage" => k \in {2, 9}
=============================================================================
