------------------------------ MODULE MCBTree ------------------------------
EXTENDS BTreeProps
CONSTANTS MaxKey, MaxNode

MCKeys       == 1 .. MaxKey
MCNodeIds    == 1 .. MaxNode
MCPayloadsOf == [k \in Keys |-> IF k % 2 = 0 THEN {1 + (k % 4)} ELSE {}]
MCLookups    == {k \in Keys : k % 5 = 0}
=============================================================================
