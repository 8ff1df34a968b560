------------------------------ MODULE MCRefine ------------------------------
EXTENDS BTreeRefine
CONSTANTS MaxKey, MaxNode

MCKeys       == 1 .. MaxKey
MCStackKeys  == {k \in MCKeys : k % 2 = 0} \cup {9}      \* 9 is looked up, never stored
MCNodeIds    == 1 .. MaxNode
MCPayloadsOf == [k \in Keys |-> IF k % 2 = 0 THEN {1 + (k % 4)} ELSE {}]
MCLookups    == {k \in Keys : k % 5 = 0}
=============================================================================
