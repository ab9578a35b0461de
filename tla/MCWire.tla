------------------------------- MODULE MCWire -------------------------------
(* Instances of Wire for TLC. *)
EXTENDS Wire

Tran(type, id, lens) ==
    [reply |-> 0, type |-> type, id |-> id,
     fields |-> [i \in DOMAIN lens |-> [type |-> i, data |-> [j \in 1 .. lens[i] |-> j % 3]]]]

TheRequests == {Tran(1, 1, <<1>>), Tran(2, 2, <<>>)}
ThePushes   == {Tran(3, 3, <<2>>), Tran(4, 4, <<17>>)}
ThePieces   == {HelloLen - 1, HelloLen}
=============================================================================
