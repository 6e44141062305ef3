----------------------------- MODULE MCNodePage -----------------------------
EXTENDS NodePage

U32(v) == [type |-> UInt32, value |-> v]
U64(v) == [type |-> UInt64, value |-> v]
Bin(v) == [type |-> Binary, value |-> v]

MCKeys == {U32(1), U32(2), U64(1), Bin(<<7>>), Bin(<<7, 0>>)}

\* 32-bit keys without and with duplicates, and 64-bit keys.
MCConfigs == {[keyType |-> UInt32, binaryKeySize |-> 0, dup |-> FALSE],
              [keyType |-> UInt32, binaryKeySize |-> 0, dup |-> TRUE],
              [keyType |-> UInt64, binaryKeySize |-> 0, dup |-> FALSE]}

\* For leaves and for internal nodes; one with equal keys, one that is too long,
\* one that has an entry that does not fit.
MCAssignments ==
    {[keys |-> <<>>, refs |-> <<5>>],
     [keys |-> <<U32(1), U32(2)>>, refs |-> <<5, 5>>],
     [keys |-> <<U32(1), U32(2)>>, refs |-> <<5, 6, 5>>],
     [keys |-> <<U32(2), U32(2)>>, refs |-> <<6, 5>>],
     [keys |-> <<U64(1), Bin(<<7>>), Bin(<<7, 0>>)>>, refs |-> <<5, 5, 5>>],
     [keys |-> <<U32(1), U32(2), U64(1), Bin(<<7>>)>>, refs |-> <<5, 5, 5, 5>>]}
=============================================================================
