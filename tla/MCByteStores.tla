---------------------------- MODULE MCByteStores ----------------------------
(***************************************************************************)
(* Two stores: the prefix of one ends in the largest byte, the prefix of   *)
(* the other is that byte.  A raw key is the bound of the first prefix,    *)
(* another one its beginning.  Byte 1 is the slash.                        *)
(***************************************************************************)
EXTENDS ByteStores

MCNamespaces == {<<0, 2>>, <<2>>}

MCKeys == {<<0>>, <<0, 1, 2>>, <<0, 2>>}

MCRawKeys == {<<0>>, <<1>>}

MCBounds == {Nil, <<>>, <<0>>, <<0, 2>>}

MCAccounts == {<<0>>}
=============================================================================
