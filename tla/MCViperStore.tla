---------------------------- MODULE MCViperStore ----------------------------
(* Programs for the clients of ViperStore: for each client, the set of     *)
(* calls it may make as its first, second, ... call.                       *)
EXTENDS ViperStore, TLC

CONSTANTS a, b, k1, k2, k3, k4

Can(names, keys) == [name : names, key : keys]
Repeat(calls, n) == [i \in 1 .. n |-> calls]
Each(calls, n) == [c \in Clients |-> Repeat(calls, n)]

\* Every client puts and gets any key.
PutsAndGets == Each(Can({"put", "get"}, Keys), 3)

\* Both clients put k1 and k2; b also updates and reads them, removes k3,
\* which a may have put first, and k4, which it may have put itself.
PutsAndRemoves ==
    (a :> <<Can({"put"}, {k1, k3}), Can({"put"}, {k1, k2}), Can({"put"}, {k1, k2})>>) @@
    (b :> <<Can({"put"}, {k1, k2, k4}),
            Can({"put", "update"}, {k1, k2}) \cup Can({"get"}, {k1}) \cup Can({"remove"}, {k3, k4})>>)

\* Each key has one client that writes it, in every way; all read it.
OwnKeys ==
    LET Writes == {"put", "update", "remove"}
    IN  (a :> Repeat(Can(Writes, {k1}) \cup Can({"get"}, {k2}), 3)) @@
        (b :> Repeat(Can(Writes, {k2}) \cup Can({"get"}, {k1}), 3))

\* Both clients put one key twice.
TwoPutsEach == Each(Can({"put"}, {k1}), 2)

\* a puts a key, and both clients remove it.
BothRemove == (a :> <<Can({"put"}, {k1}), Can({"remove"}, {k1})>>) @@
              (b :> <<Can({"remove"}, {k1})>>)
=============================================================================
