------------------------------- MODULE MCCCEH -------------------------------
(* A table that starts with two segments.  The keys k1, k2 and k3 begin in *)
(* the first one, which splits twice to tell them apart and leaves a       *)
(* segment with two entries of the directory to k8, k9 and k10; k4 to k7   *)
(* begin in the second one, where the probing for k5 goes round the end.   *)
EXTENDS CCEH, TLC

CONSTANTS t1, t2, k1, k2, k3, k4, k5, k6, k7, k8, k9, k10

OfKeys(f) == [k \in SlotKeys |-> f[k]]

MCHash == OfKeys(k1 :> 0 @@ k2 :> 0 @@ k3 :> 1 @@ k4 :> 6 @@ k5 :> 6 @@ k6 :> 7 @@ k7 :> 4
                 @@ k8 :> 2 @@ k9 :> 3 @@ k10 :> 2
                 @@ INVALID :> 7 @@ SENTINEL :> 6)
MCLoc == OfKeys(k1 :> 1 @@ k2 :> 0 @@ k3 :> 0 @@ k4 :> 1 @@ k5 :> 2 @@ k6 :> 1 @@ k7 :> 1
                @@ k8 :> 1 @@ k9 :> 2 @@ k10 :> 1
                @@ INVALID :> 1 @@ SENTINEL :> 0)

\* The hashes of four bits with which k1, k2 and k3 double the directory twice.
FourBits == OfKeys(k1 :> 0 @@ k2 :> 4 @@ k3 :> 6 @@ k4 :> 8 @@ INVALID :> 15 @@ SENTINEL :> 14)
OneSlot == [k \in SlotKeys |-> 0]

Can(names, keys) == [name : names, key : keys]
Put(k) == Can({"put"}, {k})
Puts(keys) == Can({"put"}, keys)

\* Each half of the keys has one thread that inserts.  The second thread looks
\* up first, through the first one's splits and doublings, and starts to insert
\* whenever its lookup is over.
Halves == t1 :> <<Put(k3), Put(k1), Put(k2), Put(k8), Put(k9),
                  Put(k10) \cup Can({"remove"}, {k1, k3})>>
       @@ t2 :> <<Can({"get"}, {k1, k3}), Put(k4), Put(k6), Puts({k5, k7}), Put(k7)>>

\* Two threads insert different keys that begin at the same slot.
SameSlot == t1 :> <<Put(k2)>> @@ t2 :> <<Put(k3)>>

\* A thread doubles the directory while another one inserts into the other half.
Doublings == t1 :> <<Put(k1), Put(k2), Put(k3)>> @@ t2 :> <<Put(k4)>>

\* Two threads insert into one half, and both find its segment full.
OneHalf == t1 :> <<Put(k4), Put(k6), Put(k5)>> @@ t2 :> <<Put(k7)>>

\* One thread fills a segment round its end and makes it split.
RoundTheEnd == t1 :> <<Put(k4), Put(k6), Put(k5), Put(k7)>>
=============================================================================
