------------------------------ MODULE SkipList ------------------------------
(***************************************************************************)
(* The skip list of index/skiplist/skiplist.h as SkipListCare uses it: a   *)
(* put inserts a node (equal keys are allowed to pile up: the assertion    *)
(* against them is off in the build the store is measured with), a get     *)
(* seeks an iterator, and readers take no lock.  "Writes require external  *)
(* synchronization" (skiplist.h:11): one client puts.                      *)
(*                                                                         *)
(* Nodes are numbered in the order the arena gives them out, and a node's  *)
(* number stands for the offset stored in it.  Loads and stores of links   *)
(* are in one order (release and acquire make it so for what a reader      *)
(* reaches); a reader may load an old max_height_, which is relaxed.       *)
(***************************************************************************)
EXTENDS Integers

CONSTANTS
    Clients, Writers,
    Keys,
    kMaxHeight,
    MaxNodes,       \* bound: nodes ever inserted
    NULL,           \* nullptr
    Garbage         \* memory not yet written

head == 0
Nodes == 1 .. MaxNodes
Points == Nodes \cup {head}
Levels == 0 .. kMaxHeight - 1
Calls == {"none", "Insert", "Seek", "Prev", "SeekToLast"}

ASSUME SkipListAssumption ==
    /\ Writers \subseteq Clients /\ Keys \subseteq Int
    /\ kMaxHeight \in Nat \ {0} /\ MaxNodes \in Nat
    /\ NULL \notin Int /\ Garbage \notin Int /\ NULL # Garbage

ASSUME OneWriter == \A v, w \in Writers : v = w

VARIABLES
    key,            \* the key of every node
    next,           \* its next_ links, by level
    max_height,
    used,           \* nodes allocated
    pc,
    op, arg,        \* the call each client makes, and its key
    x, level,       \* where its search is; level is i in the loop that links
    prev,           \* the nodes its insert links behind
    height, node,   \* of the node it inserts
    iter            \* node_ of its iterator

list == <<key, next, max_height, used>>
search == <<op, arg, x, level>>
insert == <<prev, height, node>>
vars == <<list, pc, search, insert, iter>>

NoPrev == [l \in Levels |-> Garbage]

Init ==
    /\ key = [n \in Nodes |-> NULL]
    /\ next = [n \in Points |-> [l \in Levels |-> IF n = head THEN NULL ELSE Garbage]]
    /\ max_height = 1
    /\ used = 0
    /\ pc = [c \in Clients |-> "idle"]
    /\ op = [c \in Clients |-> "none"]
    /\ arg = [c \in Clients |-> NULL]
    /\ x = [c \in Clients |-> head]
    /\ level = [c \in Clients |-> 0]
    /\ prev = [c \in Clients |-> NoPrev]
    /\ height = [c \in Clients |-> 1]
    /\ node = [c \in Clients |-> NULL]
    /\ iter = [c \in Clients |-> NULL]

GoTo(c, from, to) == pc[c] = from /\ pc' = [pc EXCEPT ![c] = to]

(* The locals of a call end with it. *)
Return(c) ==
    /\ pc' = [pc EXCEPT ![c] = "idle"]
    /\ op' = [op EXCEPT ![c] = "none"]
    /\ arg' = [arg EXCEPT ![c] = NULL]
    /\ x' = [x EXCEPT ![c] = head]
    /\ level' = [level EXCEPT ![c] = 0]
    /\ prev' = [prev EXCEPT ![c] = NoPrev]
    /\ height' = [height EXCEPT ![c] = 1]
    /\ node' = [node EXCEPT ![c] = NULL]

-----------------------------------------------------------------------------
(* The searches: FindGreaterOrEqual, FindLessThan and FindLast.            *)

Begin(c, name, k, h) ==
    /\ GoTo(c, "idle", "search")
    /\ op' = [op EXCEPT ![c] = name]
    /\ arg' = [arg EXCEPT ![c] = k]
    /\ x' = [x EXCEPT ![c] = head]
    /\ level' = [level EXCEPT ![c] = h - 1]
    /\ UNCHANGED <<list, insert, iter>>

Insert(c) ==
    /\ c \in Writers /\ used < MaxNodes
    /\ \E k \in Keys : Begin(c, "Insert", k, max_height)

(* Any value max_height_ has had: "stale values are ok". *)
Seek(c) == \E k \in Keys, h \in 1 .. max_height : Begin(c, "Seek", k, h)
Prev(c) ==
    /\ iter[c] # NULL
    /\ \E h \in 1 .. max_height : Begin(c, "Prev", key[iter[c]], h)
SeekToLast(c) == \E h \in 1 .. max_height : Begin(c, "SeekToLast", NULL, h)

KeyIsAtOrAfterNode(k, n) == n # NULL /\ key[n] <= k
KeyIsAfterNode(k, n) == n # NULL /\ key[n] < k

Ahead(c) == next[x[c]][level[c]]
GoesOn(c) == IF op[c] = "SeekToLast" THEN Ahead(c) # NULL
                                     ELSE KeyIsAfterNode(arg[c], Ahead(c))

Forward(c) ==
    /\ pc[c] = "search" /\ GoesOn(c)
    /\ x' = [x EXCEPT ![c] = Ahead(c)]
    /\ UNCHANGED <<list, pc, op, arg, level, insert, iter>>

RememberPrev(c) ==
    prev' = IF op[c] = "Insert" THEN [prev EXCEPT ![c][level[c]] = x[c]] ELSE prev

Down(c) ==
    /\ pc[c] = "search" /\ ~GoesOn(c) /\ level[c] > 0
    /\ RememberPrev(c)
    /\ level' = [level EXCEPT ![c] = @ - 1]
    /\ UNCHANGED <<list, pc, op, arg, x, height, node, iter>>

(* The iterator stands on the node ahead for Seek, else on the one reached. *)
PositionAhead(c) == Ahead(c)
Position(c) ==
    IF op[c] = "Seek" THEN Ahead(c) ELSE IF x[c] = head THEN NULL ELSE x[c]

Arrive(c) ==
    /\ pc[c] = "search" /\ ~GoesOn(c) /\ level[c] = 0
    /\ \/ /\ op[c] = "Insert"
          /\ RememberPrev(c)
          /\ pc' = [pc EXCEPT ![c] = "height"]
          /\ UNCHANGED <<search, height, node, iter>>
       \/ /\ op[c] # "Insert"
          /\ iter' = [iter EXCEPT ![c] = Position(c)]
          /\ Return(c)
    /\ UNCHANGED list

(* SeekToFirst and Next load one link of the lowest level. *)
Step(c, n) ==
    /\ pc[c] = "idle"
    /\ iter' = [iter EXCEPT ![c] = next[n][0]]
    /\ UNCHANGED <<list, pc, search, insert>>

SeekToFirst(c) == Step(c, head)
NextNode(c) == iter[c] # NULL /\ Step(c, iter[c])

-----------------------------------------------------------------------------
(* The rest of Insert, after its search has filled prev.                   *)

AnyHeight == 1 .. kMaxHeight + 1
RandomHeight == 1 .. kMaxHeight

(* A node higher than the list starts new levels, behind head_. *)
Raise(c) ==
    /\ pc[c] = "height" /\ used < MaxNodes
    /\ \E h \in RandomHeight :
          /\ height' = [height EXCEPT ![c] = h]
          /\ prev' = [prev EXCEPT ![c] =
                         [l \in Levels |-> IF max_height <= l /\ l < h THEN head ELSE @[l]]]
          /\ max_height' = IF h > max_height THEN h ELSE max_height
    /\ pc' = [pc EXCEPT ![c] = "point"]
    /\ used' = used + 1
    /\ node' = [node EXCEPT ![c] = used + 1]
    /\ key' = [key EXCEPT ![used + 1] = arg[c]]
    /\ level' = [level EXCEPT ![c] = 0]
    /\ UNCHANGED <<next, op, arg, x, iter>>

Behind(c) == prev[c][level[c]]

Point(c) ==
    /\ GoTo(c, "point", "publish")
    /\ next' = [next EXCEPT ![node[c]][level[c]] = next[Behind(c)][level[c]]]
    /\ UNCHANGED <<key, max_height, used, search, insert, iter>>

(* Linked from the lowest level up. *)
Publish(c) ==
    /\ pc[c] = "publish"
    /\ next' = [next EXCEPT ![Behind(c)][level[c]] = node[c]]
    /\ \/ level[c] + 1 = height[c] /\ Return(c)
       \/ /\ level[c] + 1 < height[c]
          /\ pc' = [pc EXCEPT ![c] = "point"]
          /\ level' = [level EXCEPT ![c] = @ + 1]
          /\ UNCHANGED <<op, arg, x, insert>>
    /\ UNCHANGED <<key, max_height, used, iter>>

-----------------------------------------------------------------------------
Search(c) == Forward(c) \/ Down(c) \/ Arrive(c)
Link(c) == Raise(c) \/ Point(c) \/ Publish(c)
Iterate(c) == Seek(c) \/ Prev(c) \/ SeekToLast(c) \/ SeekToFirst(c) \/ NextNode(c)

Next == \E c \in Clients : Insert(c) \/ Iterate(c) \/ Search(c) \/ Link(c)

Spec == Init /\ [][Next]_vars

-----------------------------------------------------------------------------
(* Properties.                                                             *)

(* The type invariant. *)
TypeOK ==
    /\ key \in [Nodes -> Keys \cup {NULL}]
    /\ next \in [Points -> [Levels -> Nodes \cup {NULL, Garbage}]]
    /\ max_height \in 1 .. kMaxHeight
    /\ used \in 0 .. MaxNodes
    /\ pc \in [Clients -> {"idle", "search", "height", "point", "publish"}]
    /\ op \in [Clients -> Calls]
    /\ arg \in [Clients -> Keys \cup {NULL}]
    /\ x \in [Clients -> Points]
    /\ level \in [Clients -> Levels]
    /\ prev \in [Clients -> [Levels -> Points \cup {Garbage}]]
    /\ height \in [Clients -> 1 .. kMaxHeight]
    /\ node \in [Clients -> Nodes \cup {NULL}]
    /\ iter \in [Clients -> Nodes \cup {NULL}]

(* The list of a level: the nodes some link of that level leads to.  Its   *)
(* order is by key, and among equal keys the newest first.                 *)
Linked(l) == {n \in Nodes : \E m \in Points : next[m][l] = n}
Before(m, n) ==
    n # head /\ (m = head \/ key[m] < key[n] \/ (key[m] = key[n] /\ m > n))

IsFirst(n, S) == IF S = {} THEN n = NULL
                           ELSE n \in S /\ \A m \in S \ {n} : Before(n, m)
IsLast(n, S) == IF S = {} THEN n = NULL
                          ELSE n \in S /\ \A m \in S \ {n} : Before(m, n)

Inserting(n) == \E c \in Writers : pc[c] \in {"point", "publish"} /\ node[c] = n

(* Between any two steps of an insert, with a node in some levels and not  *)
(* yet in others, a node's link on a level it is in leads to its successor *)
(* in that level's order, whatever is in a level is in the one below, and  *)
(* every node an insert has returned for is in the lowest: no node is      *)
(* skipped, repeated, lost or read before it is written.                   *)
LinksLeadToSuccessors ==
    /\ \A l \in Levels :
          LET S == Linked(l)
          IN  \A n \in S \cup {head} : IsFirst(next[n][l], {m \in S : Before(n, m)})
    /\ \A l \in Levels \ {0} : Linked(l) \subseteq Linked(l - 1)
    /\ \A n \in 1 .. used : n \in Linked(0) \/ Inserting(n)

(* A search that takes no lock, over links that change under it and from   *)
(* any height the list has had, still ends where it should at the moment   *)
(* it ends: Seek at the first node with its key or a greater one (so that  *)
(* a get finds the newest node of its key), Prev at the last one with a    *)
(* smaller key, SeekToLast at the last of all.                             *)
SearchesAreCurrent ==
    [][\A c \in Clients :
          pc[c] = "search" /\ pc'[c] = "idle" =>
             /\ op[c] = "Seek" =>
                   IsFirst(iter'[c], {m \in Linked(0) : key[m] >= arg[c]})
             /\ op[c] = "Prev" =>
                   IsLast(iter'[c], {m \in Linked(0) : key[m] < arg[c]})
             /\ op[c] = "SeekToLast" => IsLast(iter'[c], Linked(0))]_vars
=============================================================================
