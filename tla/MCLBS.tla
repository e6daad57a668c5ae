------------------------------- MODULE MCLBS --------------------------------
(* Instance of LBS for TLC. *)
EXTENDS LBS

CONSTANT Garbage

TwoBytes    == {0, 1}
SomeTexts   == {<<>>, <<1, 1, 1>>}
SomeBlocks  == {<<>>, <<1, 0>>, <<1, 1>>, <<0, 1>>}
SomeConverted == {<<1, <<1, 0>>>>, <<2, <<1, 1, 0>>>>, <<2, <<0>>>>}
FullConverted == {<<1, <<1, 1, 0>>>>}
SomeInts    == {<<1, 0, 0, 1>>, <<0, 1, 0, 0>>}
SomeSizes   == {0, 1, 3}
=============================================================================
