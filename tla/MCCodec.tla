------------------------------ MODULE MCCodec ------------------------------
EXTENDS Codec

\* Every byte, and values of one and of more bytes of the other kinds.
MCInputs ==
    {<<"byte", b>> : b \in Byte}
        \cup {<<"u32", 30>>, <<"s32", -1>>, <<"s64", 9>>, <<"u64", 10>>, <<"le", 10>>, <<"be", 10>>,
              <<"be1", 1>>, <<"string", <<6>>>>}
=============================================================================
