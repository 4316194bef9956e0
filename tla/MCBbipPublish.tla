--------------------------- MODULE MCBbipPublish ----------------------------
EXTENDS BbipPublish

MCPayloads == {"cn", "us", "jp", "hk"}

File(start, end, data) ==
    [n |-> 2, start |-> start, end |-> end, ptr |-> <<7, 8>>, data |-> data]

MCNew == File(<<3, 5>>, <<4, 5>>, <<"cn", "us">>)
MCOlds == {File(<<1, 4>>, <<2, 5>>, <<"jp", "hk">>)}
=============================================================================
