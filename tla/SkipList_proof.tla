--------------------------- MODULE SkipList_proof ---------------------------
(***************************************************************************)
(* The lists of a skip list with one writer are its nodes in order, and    *)
(* searches without a lock end where they should, for any clients, keys,   *)
(* height and number of nodes.  The argument needs no induction along the  *)
(* links: each level is a set, ordered by key and age, in which a link     *)
(* leads to the successor of its node; a search stays in that set and      *)
(* before what it looks for, so that one link more, on the lowest level,   *)
(* is the answer.                                                          *)
(***************************************************************************)
EXTENDS SkipList, TLAPS

\* The nodes of a level after node n, in the level's order.
After(n, l) == {m \in Linked(l) : Before(n, m)}

\* Node n may be linked behind node p on level l for a new node of key k.
Fits(p, l, k) ==
  /\ p \in Linked(l) \cup {head}
  /\ p = head \/ key[p] < k
  /\ next[p][l] = NULL \/ (next[p][l] \in Nodes /\ key[next[p][l]] >= k)

Shared ==
  /\ \A n \in Nodes : n <= used => key[n] \in Keys
  /\ \A l \in Levels : \A n \in Linked(l) : n <= used
  /\ \A l \in Levels : l >= max_height => Linked(l) = {}
  /\ \A l \in Levels : \A n \in Linked(l) \cup {head} : IsFirst(next[n][l], After(n, l))
  /\ \A l \in Levels \ {0} : Linked(l) \subseteq Linked(l - 1)

\* A node's link is unwritten until the node is about to be in the level.
Unwritten ==
  \A n \in Nodes, l \in Levels :
    n \notin Linked(l) =>
      \/ next[n][l] = Garbage
      \/ \E c \in Writers : pc[c] = "publish" /\ node[c] = n /\ level[c] = l

\* What a search has behind it.
Searching(c) ==
  pc[c] = "search" =>
    /\ op[c] \in {"Insert", "Seek", "Prev", "SeekToLast"}
    /\ level[c] < max_height
    /\ x[c] \in Linked(level[c]) \cup {head}
    /\ op[c] # "SeekToLast" =>
          arg[c] \in Keys /\ (x[c] = head \/ key[x[c]] < arg[c])

\* What an insert has remembered, and how far it has linked its node.
Remembers(c) ==
  /\ pc[c] = "search" /\ op[c] = "Insert" =>
       \A j \in Levels : level[c] < j /\ j < max_height => Fits(prev[c][j], j, arg[c])
  /\ pc[c] = "height" =>
       \A j \in Levels : j < max_height => Fits(prev[c][j], j, arg[c])
  /\ pc[c] \in {"point", "publish"} =>
       \A j \in Levels : level[c] <= j /\ j < height[c] => Fits(prev[c][j], j, arg[c])

Linking(c) ==
  pc[c] \in {"point", "publish"} =>
    /\ node[c] = used /\ used > 0
    /\ key[node[c]] = arg[c]
    /\ level[c] < height[c] /\ height[c] <= max_height
    /\ \A j \in Levels : node[c] \in Linked(j) <=> j < level[c]
    /\ pc[c] = "publish" =>
         next[node[c]][level[c]] = next[prev[c][level[c]]][level[c]]

Writing(c) ==
  /\ pc[c] \in {"height", "point", "publish"} \/ op[c] = "Insert" =>
        c \in Writers /\ arg[c] \in Keys
  /\ Remembers(c)
  /\ Linking(c)

Standing(c) == iter[c] # NULL => iter[c] \in Linked(0)

\* Every node is in the lowest list, or on its way into it.
Complete ==
  \A n \in 1 .. used : n \in Linked(0) \/ Inserting(n)

IInv ==
  /\ TypeOK /\ Shared /\ Unwritten /\ Complete
  /\ \A c \in Clients : Searching(c) /\ Writing(c) /\ Standing(c)

-----------------------------------------------------------------------------
(* The constants, the order of nodes, and what a link leads to.            *)

LEMMA Constants ==
  /\ Keys \subseteq Int /\ Writers \subseteq Clients
  /\ kMaxHeight \in Nat \ {0} /\ MaxNodes \in Nat
  /\ NULL \notin Int /\ Garbage \notin Int /\ NULL # Garbage
  /\ \A v, w \in Writers : v = w
  /\ Nodes \subseteq Int /\ Points \subseteq Int /\ head \in Points /\ head \notin Nodes
  /\ Nodes \subseteq Points /\ Levels \subseteq Int /\ 0 \in Levels
BY SkipListAssumption, OneWriter
DEF SkipListAssumption, OneWriter, Nodes, Points, head, Levels

LEMMA BeforeIsOrder ==
  ASSUME NEW S \in SUBSET Points, \A n \in S : n = head \/ key[n] \in Int
  PROVE  /\ \A m, n \in S : m = n \/ Before(m, n) \/ Before(n, m)
         /\ \A m, n \in S : ~(Before(m, n) /\ Before(n, m))
         /\ \A m \in S : ~Before(m, m)
         /\ \A m, n, o \in S : Before(m, n) /\ Before(n, o) => Before(m, o)
BY Constants DEF Before, head

LEMMA LinkedNodes ==
  ASSUME TypeOK, Shared, NEW l \in Levels
  PROVE  /\ Linked(l) \subseteq Nodes /\ Linked(l) \subseteq Points
         /\ head \notin Linked(l)
         /\ \A n \in Linked(l) : n \in Int /\ n <= used /\ key[n] \in Keys /\ key[n] \in Int
BY Constants DEF TypeOK, Shared, Linked

LEMMA LinkLeads ==
  ASSUME TypeOK, Shared, NEW l \in Levels, NEW n \in Linked(l) \cup {head}
  PROVE  /\ next[n][l] = NULL \/ next[n][l] \in Linked(l)
         /\ next[n][l] = NULL => After(n, l) = {}
         /\ next[n][l] # NULL => /\ next[n][l] \in After(n, l)
                                 /\ \A m \in After(n, l) :
                                      m = next[n][l] \/ Before(next[n][l], m)
<1>1. IsFirst(next[n][l], After(n, l))
  BY DEF Shared
<1>2. NULL \notin After(n, l)
  BY Constants DEF After, Linked
<1> QED
  BY <1>1, <1>2 DEF IsFirst, After

LEMMA NodeBeforeNextGap ==
  ASSUME TypeOK, Shared, NEW l \in Levels, NEW n \in Linked(l) \cup {head}, NEW m \in Linked(l),
         Before(n, m)
  PROVE  next[n][l] \in Linked(l) /\ (m = next[n][l] \/ Before(next[n][l], m))
<1>1. m \in After(n, l)
  BY DEF After
<1> QED
  BY <1>1, LinkLeads

LEMMA InitHolds == Init => IInv
<1> SUFFICES ASSUME Init PROVE IInv
  OBVIOUS
<1>1. \A l \in Levels : Linked(l) = {}
  BY Constants DEF Init, Linked, Nodes, Points
<1>2. TypeOK
  BY Constants DEF Init, TypeOK, NoPrev, Calls, Points, Nodes, Levels
<1>3. Shared
  BY <1>1, Constants DEF Init, Shared, IsFirst, After, Nodes, Levels
<1>4. Unwritten
  BY Constants DEF Init, Unwritten
<1>5. Complete
  BY DEF Init, Complete
<1>6. \A c \in Clients : Searching(c) /\ Writing(c) /\ Standing(c)
  BY DEF Init, Searching, Writing, Remembers, Linking, Standing
<1> QED
  BY <1>2, <1>3, <1>4, <1>5, <1>6 DEF IInv

-----------------------------------------------------------------------------
(* Steps that change no node: searches and moves of an iterator.           *)

LEMMA SameLists ==
  ASSUME UNCHANGED list
  PROVE  /\ \A l \in Levels : Linked(l)' = Linked(l)
         /\ Shared => Shared'
         /\ \A p, k, l : Fits(p, l, k) => Fits(p, l, k)'
<1>1. \A l : Linked(l)' = Linked(l)
  BY DEF list, Linked
<1>2. \A n, l : After(n, l)' = After(n, l)
  BY <1>1 DEF list, After, Before
<1>3. Shared => Shared'
  BY <1>1, <1>2 DEF Shared, list, IsFirst, Before
<1>4. \A p, k, l : Fits(p, l, k) => Fits(p, l, k)'
  BY <1>1 DEF Fits, list
<1> QED
  BY <1>1, <1>3, <1>4

\* A client that takes no step keeps what holds of it.
LEMMA OthersKeep ==
  ASSUME IInv, UNCHANGED list, NEW d \in Clients,
         pc'[d] = pc[d], op'[d] = op[d], arg'[d] = arg[d], x'[d] = x[d],
         level'[d] = level[d], prev'[d] = prev[d], height'[d] = height[d],
         node'[d] = node[d], iter'[d] = iter[d]
  PROVE  Searching(d)' /\ Writing(d)' /\ Standing(d)'
<1>1. Searching(d) /\ Writing(d) /\ Standing(d) /\ TypeOK
  BY DEF IInv
<1>2. \A l \in Levels : Linked(l)' = Linked(l)
  BY SameLists
<1>3. key' = key /\ next' = next /\ max_height' = max_height /\ used' = used
  BY DEF list
<1>4. Searching(d)'
  BY <1>1, <1>2, <1>3 DEF Searching, TypeOK
<1>5. Standing(d)'
  BY <1>1, <1>2, <1>3, Constants DEF Standing
<1>6. Remembers(d)'
  BY <1>1, <1>3, SameLists DEF Remembers, Writing
<1>7. Linking(d)'
  BY <1>1, <1>2, <1>3 DEF Linking, Writing
<1> QED
  BY <1>1, <1>4, <1>5, <1>6, <1>7 DEF Writing

\* What such a step does to Unwritten and Complete: no insert is linking.
LEMMA NoLinkingStep ==
  ASSUME IInv, UNCHANGED list, NEW c \in Clients,
         pc[c] \in {"idle", "search"}, pc'[c] \in {"idle", "search", "height"},
         \A d \in Clients \ {c} :
            pc'[d] = pc[d] /\ level'[d] = level[d] /\ node'[d] = node[d]
  PROVE  Unwritten' /\ Complete'
<1>1. \A l \in Levels : Linked(l)' = Linked(l)
  BY SameLists
<1>2. \A d \in Writers : pc[d] \in {"point", "publish"} =>
         pc'[d] = pc[d] /\ level'[d] = level[d] /\ node'[d] = node[d]
  BY Constants
<1>3. Unwritten'
  BY <1>1, <1>2 DEF Unwritten, IInv, list
<1>4. Complete'
  BY <1>1, <1>2, Constants DEF Complete, Inserting, IInv, list
<1> QED
  BY <1>3, <1>4

LEMMA BeginKeeps ==
  ASSUME IInv, NEW c \in Clients, NEW name \in {"Insert", "Seek", "Prev", "SeekToLast"},
         NEW k \in Keys \cup {NULL}, NEW h \in 1 .. max_height, Begin(c, name, k, h),
         name = "Insert" => c \in Writers /\ h = max_height,
         name # "SeekToLast" => k \in Keys
  PROVE  IInv'
<1>1. TypeOK /\ Searching(c) /\ Writing(c) /\ Standing(c) /\ Shared
  BY DEF IInv
<1>2. /\ pc[c] = "idle" /\ pc'[c] = "search" /\ op'[c] = name /\ arg'[c] = k
      /\ x'[c] = head /\ level'[c] = h - 1 /\ prev'[c] = prev[c] /\ iter'[c] = iter[c]
      /\ UNCHANGED list
  BY <1>1 DEF TypeOK, Begin, GoTo, insert
<1>3. \A d \in Clients \ {c} :
         /\ pc'[d] = pc[d] /\ op'[d] = op[d] /\ arg'[d] = arg[d] /\ x'[d] = x[d]
         /\ level'[d] = level[d] /\ prev'[d] = prev[d] /\ height'[d] = height[d]
         /\ node'[d] = node[d] /\ iter'[d] = iter[d]
  BY <1>1 DEF TypeOK, Begin, GoTo, insert
<1>4. TypeOK'
  BY <1>1, Constants DEF TypeOK, Begin, GoTo, insert, list, Calls, Levels
<1>5. Shared' /\ Unwritten' /\ Complete'
  BY <1>1, <1>2, <1>3, SameLists, NoLinkingStep
<1>6. Searching(c)'
  BY <1>1, <1>2, Constants DEF Searching, list, TypeOK, Levels
<1>7. Writing(c)'
  <2>1. Remembers(c)'
    BY <1>1, <1>2, Constants DEF Remembers, TypeOK, Levels, list
  <2>2. Linking(c)'
    BY <1>2 DEF Linking
  <2> QED
    BY <1>2, <2>1, <2>2 DEF Writing
<1>8. Standing(c)'
  BY <1>1, <1>2, SameLists, Constants DEF Standing
<1>9. \A d \in Clients \ {c} : Searching(d)' /\ Writing(d)' /\ Standing(d)'
  BY <1>2, <1>3, OthersKeep
<1> QED
  BY <1>4, <1>5, <1>6, <1>7, <1>8, <1>9 DEF IInv

LEMMA StepKeeps ==
  ASSUME IInv, NEW c \in Clients, NEW n \in Linked(0) \cup {head}, Step(c, n)
  PROVE  IInv'
<1>1. TypeOK /\ Searching(c) /\ Writing(c) /\ Standing(c) /\ Shared
  BY DEF IInv
<1>2. /\ pc[c] = "idle" /\ pc' = pc /\ op' = op /\ arg' = arg /\ x' = x /\ level' = level
      /\ prev' = prev /\ height' = height /\ node' = node /\ iter'[c] = next[n][0]
      /\ UNCHANGED list /\ \A d \in Clients \ {c} : iter'[d] = iter[d]
  BY <1>1 DEF TypeOK, Step, search, insert
<1>3. next[n][0] = NULL \/ next[n][0] \in Linked(0)
  BY <1>1, LinkLeads, Constants
<1>4. TypeOK'
  BY <1>1, <1>2, <1>3 DEF TypeOK, Step, list, Linked
<1>5. Shared' /\ Unwritten' /\ Complete'
  BY <1>1, <1>2, SameLists, NoLinkingStep
<1>6. Searching(c)' /\ Writing(c)'
  BY <1>1, <1>2 DEF Searching, Writing, Remembers, Linking
<1>7. Standing(c)'
  BY <1>2, <1>3, SameLists, Constants DEF Standing
<1>8. \A d \in Clients \ {c} : Searching(d)' /\ Writing(d)' /\ Standing(d)'
  BY <1>2, OthersKeep
<1> QED
  BY <1>4, <1>5, <1>6, <1>7, <1>8 DEF IInv

\* What a search that goes on finds ahead, and what one that stops does not.
LEMMA GoingOn ==
  ASSUME IInv, NEW c \in Clients, pc[c] = "search"
  PROVE  /\ level[c] \in Levels /\ level[c] < max_height
         /\ Ahead(c) = NULL \/ Ahead(c) \in Linked(level[c])
         /\ GoesOn(c) => /\ Ahead(c) \in Linked(level[c])
                         /\ op[c] # "SeekToLast" => key[Ahead(c)] < arg[c]
         /\ ~GoesOn(c) => /\ op[c] = "SeekToLast" => Ahead(c) = NULL
                          /\ op[c] # "SeekToLast" =>
                               Ahead(c) = NULL \/ key[Ahead(c)] >= arg[c]
         /\ ~GoesOn(c) /\ op[c] = "Insert" => Fits(x[c], level[c], arg[c])
<1>1. TypeOK /\ Searching(c) /\ Shared
  BY DEF IInv
<1>2. level[c] \in Levels /\ level[c] < max_height /\ x[c] \in Linked(level[c]) \cup {head}
  BY <1>1 DEF TypeOK, Searching
<1>3. Ahead(c) = NULL \/ Ahead(c) \in Linked(level[c])
  BY <1>1, <1>2, LinkLeads DEF Ahead
<1>4. Ahead(c) # NULL => key[Ahead(c)] \in Int /\ Ahead(c) \in Nodes
  BY <1>1, <1>2, <1>3, LinkedNodes
<1>5. op[c] # "SeekToLast" => arg[c] \in Int
  BY <1>1, Constants DEF Searching
<1>6. ~GoesOn(c) /\ op[c] # "SeekToLast" => Ahead(c) = NULL \/ key[Ahead(c)] >= arg[c]
  BY <1>4, <1>5 DEF GoesOn, KeyIsAfterNode
<1>7. ~GoesOn(c) /\ op[c] = "Insert" => Fits(x[c], level[c], arg[c])
  BY <1>1, <1>2, <1>4, <1>6 DEF Fits, Searching, Ahead
<1> QED
  BY <1>2, <1>3, <1>6, <1>7 DEF GoesOn, KeyIsAfterNode

LEMMA ForwardKeeps == ASSUME IInv, NEW c \in Clients, Forward(c) PROVE IInv'
<1>1. TypeOK /\ Searching(c) /\ Writing(c) /\ Standing(c) /\ Shared
  BY DEF IInv
<1>2. /\ pc[c] = "search" /\ pc' = pc /\ op' = op /\ arg' = arg /\ level' = level
      /\ prev' = prev /\ height' = height /\ node' = node /\ iter' = iter
      /\ x'[c] = Ahead(c) /\ UNCHANGED list /\ \A d \in Clients \ {c} : x'[d] = x[d]
      /\ GoesOn(c)
  BY <1>1 DEF TypeOK, Forward, insert
<1>3. /\ Ahead(c) \in Linked(level[c]) /\ level[c] \in Levels
      /\ op[c] # "SeekToLast" => key[Ahead(c)] < arg[c]
  BY <1>2, GoingOn
<1>4. TypeOK'
  BY <1>1, <1>2, <1>3, Constants DEF TypeOK, Forward, list, Linked
<1>5. Shared' /\ Unwritten' /\ Complete'
  BY <1>1, <1>2, SameLists, NoLinkingStep
<1>6. Searching(c)'
  BY <1>1, <1>2, <1>3, SameLists DEF Searching, list
<1>7. Writing(c)'
  <2>1. Remembers(c)'
    BY <1>1, <1>2, SameLists DEF Writing, Remembers, list
  <2> QED
    BY <1>1, <1>2, <2>1 DEF Writing, Linking
<1>8. Standing(c)'
  BY <1>1, <1>2, SameLists, Constants DEF Standing
<1>9. \A d \in Clients \ {c} : Searching(d)' /\ Writing(d)' /\ Standing(d)'
  BY <1>2, OthersKeep
<1> QED
  BY <1>4, <1>5, <1>6, <1>7, <1>8, <1>9 DEF IInv

LEMMA DownKeeps == ASSUME IInv, NEW c \in Clients, Down(c) PROVE IInv'
<1>1. TypeOK /\ Searching(c) /\ Writing(c) /\ Standing(c) /\ Shared
  BY DEF IInv
<1>2. /\ pc[c] = "search" /\ pc' = pc /\ op' = op /\ arg' = arg /\ x' = x
      /\ height' = height /\ node' = node /\ iter' = iter
      /\ level'[c] = level[c] - 1 /\ level[c] > 0 /\ UNCHANGED list
      /\ \A d \in Clients \ {c} : level'[d] = level[d] /\ prev'[d] = prev[d]
      /\ prev'[c] = IF op[c] = "Insert" THEN [prev[c] EXCEPT ![level[c]] = x[c]] ELSE prev[c]
      /\ ~GoesOn(c)
  BY <1>1 DEF TypeOK, Down, RememberPrev
<1>3. /\ level[c] \in Levels /\ level[c] < max_height
      /\ level[c] - 1 \in Levels /\ Linked(level[c]) \subseteq Linked(level[c] - 1)
      /\ op[c] = "Insert" => Fits(x[c], level[c], arg[c])
  <2>1. /\ level[c] \in Levels /\ level[c] < max_height
        /\ op[c] = "Insert" => Fits(x[c], level[c], arg[c])
    BY <1>2, GoingOn
  <2>2. level[c] \in Levels \ {0} /\ level[c] - 1 \in Levels
    BY <1>2, <2>1, Constants DEF Levels
  <2> QED
    BY <1>1, <2>1, <2>2 DEF Shared
<1>4. TypeOK'
  <2>1. prev' \in [Clients -> [Levels -> Points \cup {Garbage}]]
    BY <1>1, <1>3 DEF TypeOK, Down, RememberPrev
  <2>2. level' \in [Clients -> Levels]
    BY <1>1, <1>3 DEF TypeOK, Down
  <2> QED
    BY <1>1, <1>2, <2>1, <2>2 DEF TypeOK, list
<1>5. Shared' /\ Unwritten' /\ Complete'
  BY <1>1, <1>2, SameLists, NoLinkingStep
<1>6. Searching(c)'
  BY <1>1, <1>2, <1>3, SameLists DEF Searching, list, TypeOK, Levels
<1>7. Writing(c)'
  <2>1. Remembers(c)'
    <3> SUFFICES ASSUME op[c] = "Insert", NEW j \in Levels, level[c] - 1 < j, j < max_height
                 PROVE  Fits(prev'[c][j], j, arg[c])
      BY <1>2, SameLists DEF Remembers, list
    <3>1. CASE j = level[c]
      BY <1>1, <1>2, <1>3, <3>1 DEF TypeOK
    <3>2. CASE j # level[c]
      <4>1. level[c] < j /\ prev'[c][j] = prev[c][j]
        BY <1>1, <1>2, <1>3, <3>2 DEF TypeOK, Levels
      <4> QED
        BY <1>1, <1>2, <4>1 DEF Writing, Remembers
    <3> QED
      BY <3>1, <3>2
  <2> QED
    BY <1>1, <1>2, <2>1 DEF Writing, Linking
<1>8. Standing(c)'
  BY <1>1, <1>2, SameLists, Constants DEF Standing
<1>9. \A d \in Clients \ {c} : Searching(d)' /\ Writing(d)' /\ Standing(d)'
  BY <1>2, OthersKeep
<1> QED
  BY <1>4, <1>5, <1>6, <1>7, <1>8, <1>9 DEF IInv

LEMMA ArriveKeeps == ASSUME IInv, NEW c \in Clients, Arrive(c) PROVE IInv'
<1>1. TypeOK /\ Searching(c) /\ Writing(c) /\ Standing(c) /\ Shared
  BY DEF IInv
<1>2. /\ pc[c] = "search" /\ level[c] = 0 /\ ~GoesOn(c) /\ UNCHANGED list
      /\ \A d \in Clients \ {c} :
            /\ pc'[d] = pc[d] /\ op'[d] = op[d] /\ arg'[d] = arg[d] /\ x'[d] = x[d]
            /\ level'[d] = level[d] /\ prev'[d] = prev[d] /\ height'[d] = height[d]
            /\ node'[d] = node[d] /\ iter'[d] = iter[d]
  BY <1>1 DEF TypeOK, Arrive, Return, RememberPrev, search
<1>3. /\ level[c] \in Levels /\ level[c] < max_height
      /\ op[c] = "Insert" => Fits(x[c], 0, arg[c])
      /\ Ahead(c) = NULL \/ Ahead(c) \in Linked(0)
  BY <1>2, GoingOn
<1>4. \A d \in Clients \ {c} : Searching(d)' /\ Writing(d)' /\ Standing(d)'
  BY <1>2, OthersKeep
<1>5. CASE op[c] = "Insert"
  <2>1. /\ pc'[c] = "height" /\ op' = op /\ arg' = arg /\ x' = x /\ level' = level
        /\ height' = height /\ node' = node /\ iter' = iter
        /\ prev'[c] = [prev[c] EXCEPT ![0] = x[c]]
    BY <1>1, <1>2, <1>5 DEF TypeOK, Arrive, RememberPrev, search
  <2>2. TypeOK'
    <3>1. prev' \in [Clients -> [Levels -> Points \cup {Garbage}]]
      <4>1. prev' = [prev EXCEPT ![c] = [prev[c] EXCEPT ![0] = x[c]]]
        BY <1>1, <1>2, <1>5 DEF TypeOK, Arrive, RememberPrev
      <4> QED
        BY <1>1, <4>1, Constants DEF TypeOK
    <3>2. pc' \in [Clients -> {"idle", "search", "height", "point", "publish"}]
      BY <1>1, <1>5 DEF TypeOK, Arrive
    <3> QED
      BY <1>1, <1>2, <2>1, <3>1, <3>2 DEF TypeOK, list
  <2>3. Shared' /\ Unwritten' /\ Complete'
    BY <1>1, <1>2, <2>1, SameLists, NoLinkingStep
  <2>4. Searching(c)' /\ Linking(c)'
    BY <2>1 DEF Searching, Linking
  <2>5. Remembers(c)'
    <3> SUFFICES ASSUME NEW j \in Levels, j < max_height
                 PROVE  Fits(prev'[c][j], j, arg[c])
      BY <1>2, <2>1, SameLists DEF Remembers, list
    <3>1. CASE j = 0
      <4>1. prev'[c][j] = x[c]
        BY <1>1, <2>1, <3>1 DEF TypeOK
      <4> QED
        BY <1>3, <1>5, <3>1, <4>1
    <3>2. CASE j # 0
      <4>1. level[c] < j /\ prev'[c][j] = prev[c][j]
        BY <1>1, <1>2, <2>1, <3>2, Constants DEF TypeOK, Levels
      <4> QED
        BY <1>1, <1>2, <1>5, <4>1 DEF Writing, Remembers
    <3> QED
      BY <3>1, <3>2
  <2>6. Writing(c)' /\ Standing(c)'
    BY <1>1, <1>2, <1>5, <2>1, <2>4, <2>5, SameLists, Constants DEF Writing, Standing
  <2> QED
    BY <1>4, <2>2, <2>3, <2>4, <2>6 DEF IInv
<1>6. CASE op[c] # "Insert"
  <2>1. /\ pc'[c] = "idle" /\ op'[c] = "none" /\ iter'[c] = Position(c) /\ Return(c)
    BY <1>1, <1>6 DEF TypeOK, Arrive, Return
  <2>2. Position(c) = NULL \/ Position(c) \in Linked(0)
    BY <1>1, <1>2, <1>3 DEF Position, Searching
  <2>3. TypeOK'
    <3>1. iter' \in [Clients -> Nodes \cup {NULL}]
      BY <1>1, <1>6, <2>2, Constants DEF TypeOK, Arrive, Linked
    <3>2. /\ prev' \in [Clients -> [Levels -> Points \cup {Garbage}]]
          /\ level' \in [Clients -> Levels] /\ x' \in [Clients -> Points]
          /\ height' \in [Clients -> 1 .. kMaxHeight]
      BY <1>1, <2>1, Constants DEF TypeOK, Return, NoPrev
    <3>3. /\ pc' \in [Clients -> {"idle", "search", "height", "point", "publish"}]
          /\ op' \in [Clients -> Calls] /\ arg' \in [Clients -> Keys \cup {NULL}]
          /\ node' \in [Clients -> Nodes \cup {NULL}]
      BY <1>1, <2>1 DEF TypeOK, Return, Calls
    <3> QED
      BY <1>1, <1>2, <3>1, <3>2, <3>3 DEF TypeOK, list
  <2>4. Shared' /\ Unwritten' /\ Complete'
    BY <1>1, <1>2, <2>1, SameLists, NoLinkingStep
  <2>5. Searching(c)' /\ Writing(c)'
    BY <2>1 DEF Searching, Writing, Remembers, Linking
  <2>6. Standing(c)'
    BY <1>2, <2>1, <2>2, SameLists, Constants DEF Standing
  <2> QED
    BY <1>4, <2>3, <2>4, <2>5, <2>6 DEF IInv
<1> QED
  BY <1>5, <1>6

-----------------------------------------------------------------------------
(* Steps of an insert that change nodes.                                   *)

\* Only the writer is inserting.
LEMMA TheWriter ==
  ASSUME IInv, NEW c \in Clients, pc[c] \in {"height", "point", "publish"}
  PROVE  /\ c \in Writers /\ arg[c] \in Keys /\ arg[c] \in Int
         /\ \A d \in Clients \ {c} :
               pc[d] \notin {"height", "point", "publish"} /\ op[d] # "Insert"
BY Constants DEF IInv, Writing

\* A client that takes no step keeps what holds of it when levels only gain
\* nodes and linked nodes keep their keys.
LEMMA OthersKeepUp ==
  ASSUME IInv, NEW c \in Clients, pc[c] \in {"height", "point", "publish"},
         \A l \in Levels : Linked(l) \subseteq Linked(l)',
         \A l \in Levels : \A n \in Linked(l) : key'[n] = key[n],
         max_height' \in Int, max_height <= max_height',
         NEW d \in Clients, d # c,
         pc'[d] = pc[d], op'[d] = op[d], arg'[d] = arg[d], x'[d] = x[d],
         level'[d] = level[d], iter'[d] = iter[d]
  PROVE  Searching(d)' /\ Writing(d)' /\ Standing(d)'
<1>1. Searching(d) /\ Standing(d) /\ TypeOK /\ Shared
  BY DEF IInv
<1>2. pc'[d] \in {"idle", "search"} /\ op'[d] # "Insert"
  BY <1>1, TheWriter DEF TypeOK
<1>3. Searching(d)'
  BY <1>1 DEF Searching, TypeOK, Levels
<1>4. Standing(d)'
  BY <1>1, Constants DEF Standing
<1>5. Writing(d)'
  BY <1>2 DEF Writing, Remembers, Linking
<1> QED
  BY <1>3, <1>4, <1>5

LEMMA RaiseKeeps == ASSUME IInv, NEW c \in Clients, Raise(c) PROVE IInv'
<1>1. TypeOK /\ Searching(c) /\ Writing(c) /\ Standing(c) /\ Shared /\ Unwritten /\ Complete
  BY DEF IInv
<1>2. PICK h \in 1 .. kMaxHeight :
        /\ height' = [height EXCEPT ![c] = h]
        /\ prev' = [prev EXCEPT ![c] =
                       [l \in Levels |-> IF max_height <= l /\ l < h THEN head ELSE prev[c][l]]]
        /\ max_height' = IF h > max_height THEN h ELSE max_height
  BY DEF Raise, RandomHeight
<1>3. /\ pc[c] = "height" /\ used < MaxNodes /\ pc'[c] = "point"
      /\ used' = used + 1 /\ node'[c] = used + 1
      /\ key' = [key EXCEPT ![used + 1] = arg[c]]
      /\ level'[c] = 0 /\ next' = next /\ op' = op /\ arg' = arg /\ x' = x /\ iter' = iter
      /\ \A d \in Clients \ {c} : /\ pc'[d] = pc[d] /\ level'[d] = level[d]
                                  /\ node'[d] = node[d]
  BY <1>1 DEF TypeOK, Raise
<1>4. /\ used + 1 \in Nodes /\ used + 1 > used
      /\ max_height' \in 1 .. kMaxHeight /\ max_height <= max_height' /\ h <= max_height'
      /\ max_height' = max_height \/ max_height' = h
  BY <1>1, <1>2, <1>3, Constants DEF TypeOK, Nodes
<1>5. c \in Writers /\ arg[c] \in Keys
  BY <1>3, TheWriter
<1>6. \A l : Linked(l)' = Linked(l)
  BY <1>3 DEF Linked
<1>7. \A n \in Nodes : n # used + 1 => key'[n] = key[n]
  BY <1>1, <1>3 DEF TypeOK
<1>8. \A l \in Levels : \A n \in Linked(l) : n \in Nodes /\ n # used + 1 /\ key'[n] = key[n]
  BY <1>1, <1>7, LinkedNodes DEF TypeOK
<1>9. \A l \in Levels : used + 1 \notin Linked(l)
  BY <1>8
<1>10. key'[used + 1] = arg[c]
  BY <1>1, <1>3, <1>4 DEF TypeOK
<1>11. TypeOK'
  <2>1. prev' \in [Clients -> [Levels -> Points \cup {Garbage}]]
    BY <1>1, <1>2, Constants DEF TypeOK
  <2>2. /\ key' \in [Nodes -> Keys \cup {NULL}] /\ used' \in 0 .. MaxNodes
        /\ max_height' \in 1 .. kMaxHeight /\ height' \in [Clients -> 1 .. kMaxHeight]
    BY <1>1, <1>2, <1>3, <1>4, <1>5, Constants DEF TypeOK
  <2>3. /\ pc' \in [Clients -> {"idle", "search", "height", "point", "publish"}]
        /\ level' \in [Clients -> Levels] /\ node' \in [Clients -> Nodes \cup {NULL}]
    BY <1>1, <1>4, Constants DEF TypeOK, Raise
  <2> QED
    BY <1>1, <1>3, <2>1, <2>2, <2>3 DEF TypeOK
<1>12. Shared'
  <2>1. \A n \in Nodes : n <= used' => key'[n] \in Keys
    BY <1>1, <1>3, <1>4, <1>5, <1>7, <1>10, Constants DEF Shared, TypeOK
  <2>2. \A l \in Levels : \A n \in Linked(l)' : n <= used'
    BY <1>1, <1>3, <1>6, LinkedNodes DEF TypeOK
  <2>3. \A l \in Levels : l >= max_height' => Linked(l)' = {}
    BY <1>1, <1>4, <1>6, Constants DEF Shared, TypeOK
  <2>4. \A l \in Levels : \A n \in Linked(l)' \cup {head} :
           IsFirst(next[n][l], After(n, l))'
    <3> SUFFICES ASSUME NEW l \in Levels, NEW n \in Linked(l) \cup {head}
                 PROVE  IsFirst(next[n][l], After(n, l))'
      BY <1>6
    <3>1. \A m \in Linked(l) \cup {head}, o \in Linked(l) : Before(m, o)' <=> Before(m, o)
      BY <1>8 DEF Before
    <3>2. After(n, l)' = After(n, l)
      BY <1>6, <3>1 DEF After
    <3>3. IsFirst(next[n][l], After(n, l))
      BY <1>1 DEF Shared
    <3>4. After(n, l) \subseteq Linked(l)
      BY DEF After
    <3> QED
      BY <1>3, <3>1, <3>2, <3>3, <3>4 DEF IsFirst
  <2> QED
    BY <1>1, <1>6, <2>1, <2>2, <2>3, <2>4 DEF Shared
<1>13. Unwritten'
  <2>1. \A d \in Writers : pc[d] = "publish" => d # c
    BY <1>3
  <2> QED
    BY <1>1, <1>3, <1>6, <2>1, Constants DEF Unwritten
<1>14. Complete'
  <2> SUFFICES ASSUME NEW n \in 1 .. used' PROVE n \in Linked(0)' \/ Inserting(n)'
    BY DEF Complete
  <2>1. CASE n = used + 1
    BY <1>3, <1>5, <2>1 DEF Inserting
  <2>2. CASE n # used + 1
    <3>1. n \in 1 .. used
      BY <1>1, <1>3, <2>2 DEF TypeOK
    <3>2. ~Inserting(n)
      BY <1>3, <1>5, Constants DEF Inserting
    <3> QED
      BY <1>1, <1>6, <3>1, <3>2 DEF Complete
  <2> QED
    BY <2>1, <2>2
<1>15. Searching(c)' /\ Standing(c)'
  BY <1>1, <1>3, <1>6, Constants DEF Searching, Standing
<1>16. Writing(c)'
  <2>1. Remembers(c)'
    <3> SUFFICES ASSUME NEW j \in Levels, j < h PROVE Fits(prev[c][j], j, arg[c])'
      BY <1>1, <1>2, <1>3 DEF Remembers, TypeOK
    <3>1. CASE j < max_height
      <4>1. prev'[c][j] = prev[c][j] /\ Fits(prev[c][j], j, arg[c])
        BY <1>1, <1>2, <1>3, <3>1, Constants DEF TypeOK, Writing, Remembers
      <4>2. prev[c][j] \in Linked(j) \cup {head}
        BY <4>1 DEF Fits
      <4>3. next[prev[c][j]][j] = NULL \/ next[prev[c][j]][j] \in Linked(j)
        BY <1>1, <4>2, LinkLeads
      <4> QED
        BY <1>3, <1>6, <1>8, <4>1, <4>2, <4>3, Constants DEF Fits
    <3>2. CASE j >= max_height
      <4>1. prev'[c][j] = head
        BY <1>1, <1>2, <3>2 DEF TypeOK
      <4>2. Linked(j) = {}
        BY <1>1, <3>2 DEF Shared
      <4>3. next[head][j] = NULL
        BY <1>1, <4>2, LinkLeads
      <4> QED
        BY <1>3, <4>1, <4>3 DEF Fits
    <3> QED
      BY <1>1, <3>1, <3>2, Constants DEF TypeOK
  <2>2. Linking(c)'
    <3>1. node'[c] = used' /\ used' > 0 /\ key'[node'[c]] = arg'[c]
      BY <1>1, <1>3, <1>10 DEF TypeOK
    <3>2. level'[c] < height'[c] /\ height'[c] <= max_height'
      BY <1>1, <1>2, <1>3, <1>4 DEF TypeOK
    <3>3. \A j \in Levels : node'[c] \in Linked(j)' <=> j < level'[c]
      BY <1>3, <1>6, <1>9 DEF Levels
    <3> QED
      BY <1>3, <3>1, <3>2, <3>3 DEF Linking
  <2> QED
    BY <1>3, <1>5, <2>1, <2>2 DEF Writing
<1>17. \A d \in Clients \ {c} : Searching(d)' /\ Writing(d)' /\ Standing(d)'
  <2>1. max_height' \in Int
    BY <1>4
  <2> QED
    BY <1>3, <1>4, <1>6, <1>8, <2>1, OthersKeepUp
<1> QED
  BY <1>11, <1>12, <1>13, <1>14, <1>15, <1>16, <1>17 DEF IInv

\* The node an insert is about to link, and the one before it.
LEMMA AboutToLink ==
  ASSUME IInv, NEW c \in Clients, pc[c] \in {"point", "publish"}
  PROVE  /\ level[c] \in Levels /\ level[c] < height[c] /\ height[c] <= max_height
         /\ node[c] \in Nodes /\ node[c] = used /\ key[node[c]] = arg[c]
         /\ node[c] \notin Linked(level[c]) /\ node[c] # Behind(c) /\ node[c] # head
         /\ Behind(c) \in Points /\ Behind(c) \in Linked(level[c]) \cup {head}
         /\ Behind(c) = head \/ key[Behind(c)] < arg[c]
         /\ \/ next[Behind(c)][level[c]] = NULL
            \/ /\ next[Behind(c)][level[c]] \in Linked(level[c])
               /\ key[next[Behind(c)][level[c]]] >= arg[c]
<1>1. TypeOK /\ Writing(c) /\ Shared
  BY DEF IInv
<1>2. /\ level[c] \in Levels /\ level[c] < height[c] /\ height[c] <= max_height
      /\ node[c] = used /\ used > 0 /\ key[node[c]] = arg[c]
      /\ node[c] \notin Linked(level[c])
  BY <1>1 DEF TypeOK, Writing, Linking, Levels
<1>3. node[c] \in Nodes /\ node[c] # head
  BY <1>1, <1>2, Constants DEF TypeOK, Nodes, head
<1>4. Fits(Behind(c), level[c], arg[c])
  BY <1>1, <1>2 DEF Writing, Remembers, Behind, Levels
<1>5. /\ Behind(c) \in Linked(level[c]) \cup {head}
      /\ Behind(c) = head \/ key[Behind(c)] < arg[c]
      /\ \/ next[Behind(c)][level[c]] = NULL
         \/ key[next[Behind(c)][level[c]]] >= arg[c]
  BY <1>4 DEF Fits
<1>6. \/ next[Behind(c)][level[c]] = NULL
      \/ next[Behind(c)][level[c]] \in Linked(level[c])
  BY <1>1, <1>2, <1>5, LinkLeads
<1>7. Behind(c) \in Points
  BY <1>1, <1>2, <1>5, LinkedNodes, Constants
<1> QED
  BY <1>2, <1>3, <1>5, <1>6, <1>7

LEMMA PointKeeps == ASSUME IInv, NEW c \in Clients, Point(c) PROVE IInv'
<1>1. TypeOK /\ Searching(c) /\ Writing(c) /\ Standing(c) /\ Shared /\ Unwritten /\ Complete
  BY DEF IInv
<1> DEFINE l == level[c]
           p == Behind(c)
           n == node[c]
<1>2. /\ pc[c] = "point" /\ pc'[c] = "publish" /\ next' = [next EXCEPT ![n][l] = next[p][l]]
      /\ key' = key /\ max_height' = max_height /\ used' = used /\ op' = op /\ arg' = arg
      /\ x' = x /\ level' = level /\ prev' = prev /\ height' = height /\ node' = node
      /\ iter' = iter /\ \A d \in Clients \ {c} : pc'[d] = pc[d]
  BY <1>1 DEF TypeOK, Point, GoTo, search, insert
<1>3. /\ l \in Levels /\ n \in Nodes /\ n \notin Linked(l) /\ n # p /\ n # head /\ p \in Points
      /\ n \in Points /\ p \in Linked(l) \cup {head}
      /\ next[p][l] = NULL \/ next[p][l] \in Linked(l)
  BY <1>2, AboutToLink, Constants
<1>4. c \in Writers /\ arg[c] \in Keys
  BY <1>2, TheWriter
<1>5. next[n][l] = Garbage
  BY <1>1, <1>2, <1>3, <1>4, Constants DEF Unwritten
<1>6. /\ next'[n][l] = next[p][l]
      /\ \A m \in Points, j \in Levels : m # n \/ j # l => next'[m][j] = next[m][j]
  BY <1>1, <1>2, <1>3 DEF TypeOK
<1>7. \A j \in Levels : Linked(j)' = Linked(j)
  <2> SUFFICES ASSUME NEW j \in Levels, NEW m \in Nodes
               PROVE  (\E o \in Points : next'[o][j] = m) <=> (\E o \in Points : next[o][j] = m)
    BY DEF Linked
  <2>1. CASE j # l
    BY <1>6, <2>1
  <2>2. CASE j = l
    <3>1. ASSUME NEW o \in Points, next[o][j] = m PROVE \E q \in Points : next'[q][j] = m
      <4>1. o # n
        BY <1>5, <2>2, <3>1, Constants
      <4> QED
        BY <1>6, <3>1, <4>1
    <3>2. ASSUME NEW o \in Points, next'[o][j] = m PROVE \E q \in Points : next[q][j] = m
      BY <1>3, <1>6, <2>2, <3>2
    <3> QED
      BY <3>1, <3>2
  <2> QED
    BY <2>1, <2>2
<1>8. TypeOK'
  <2>1. next' \in [Points -> [Levels -> Nodes \cup {NULL, Garbage}]]
    BY <1>1, <1>2, <1>3 DEF TypeOK, Linked
  <2>2. pc' \in [Clients -> {"idle", "search", "height", "point", "publish"}]
    BY <1>1 DEF TypeOK, Point, GoTo
  <2> QED
    BY <1>1, <1>2, <2>1, <2>2 DEF TypeOK
<1>9. \A j \in Levels : \A m \in Linked(j) \cup {head} : m \in Points /\ next'[m][j] = next[m][j]
  BY <1>1, <1>3, <1>6, LinkedNodes, Constants
<1>10. Shared'
  <2>1. \A j \in Levels : \A m \in Linked(j) \cup {head} :
           IsFirst(next[m][j], After(m, j))'
    <3> SUFFICES ASSUME NEW j \in Levels, NEW m \in Linked(j) \cup {head}
                 PROVE  IsFirst(next[m][j], After(m, j))'
      OBVIOUS
    <3>1. After(m, j)' = After(m, j)
      BY <1>2, <1>7 DEF After, Before
    <3>2. IsFirst(next[m][j], After(m, j))
      BY <1>1 DEF Shared
    <3> QED
      BY <1>2, <1>9, <3>1, <3>2 DEF IsFirst, Before
  <2>2. \A j \in Levels \ {0} : j - 1 \in Levels
    BY Constants DEF Levels
  <2> QED
    BY <1>1, <1>2, <1>7, <2>1, <2>2 DEF Shared
<1>11. Unwritten'
  <2> SUFFICES ASSUME NEW m \in Nodes, NEW j \in Levels, m \notin Linked(j)
               PROVE  \/ next'[m][j] = Garbage
                      \/ \E d \in Writers : pc'[d] = "publish" /\ node'[d] = m /\ level'[d] = j
    BY <1>7 DEF Unwritten
  <2>1. CASE m = n /\ j = l
    BY <1>2, <1>4, <2>1
  <2>2. CASE m # n \/ j # l
    BY <1>1, <1>2, <1>4, <1>6, <2>2, Constants DEF Unwritten
  <2> QED
    BY <2>1, <2>2
<1>12. Complete'
  <2>1. \A m : Inserting(m) => Inserting(m)'
    BY <1>2, Constants DEF Inserting
  <2> QED
    BY <1>1, <1>2, <1>7, <2>1, Constants DEF Complete
<1>13. Searching(c)' /\ Standing(c)'
  BY <1>1, <1>2, <1>7, Constants DEF Searching, Standing
<1>14. Writing(c)'
  <2>1. Remembers(c)'
    <3> SUFFICES ASSUME NEW j \in Levels, l <= j, j < height[c] PROVE Fits(prev[c][j], j, arg[c])'
      BY <1>2 DEF Remembers
    <3>1. Fits(prev[c][j], j, arg[c])
      BY <1>1, <1>2 DEF Writing, Remembers
    <3> QED
      BY <1>2, <1>7, <1>9, <3>1 DEF Fits
  <2>2. Linking(c)'
    <3>1. next'[n][l] = next'[p][l]
      BY <1>3, <1>6
    <3> QED
      BY <1>1, <1>2, <1>7, <3>1 DEF Writing, Linking, Behind
  <2> QED
    BY <1>2, <1>4, <2>1, <2>2 DEF Writing
<1>15. \A d \in Clients \ {c} : Searching(d)' /\ Writing(d)' /\ Standing(d)'
  <2>1. max_height' \in Int /\ max_height <= max_height'
    BY <1>1, <1>2, Constants DEF TypeOK
  <2> QED
    BY <1>2, <1>7, <2>1, OthersKeepUp
<1> QED
  BY <1>8, <1>10, <1>11, <1>12, <1>13, <1>14, <1>15 DEF IInv

\* Linking a node between a node of a level and its successor keeps every
\* link of the level leading to the successor.
LEMMA LinkBetween ==
  ASSUME IInv, NEW c \in Clients, pc[c] = "publish", NEW m \in Linked(level[c]) \cup {head, node[c]}
  PROVE  LET l == level[c]
             new == Linked(l) \cup {node[c]}
             link == IF m = Behind(c) THEN node[c] ELSE next[m][l]
         IN  IsFirst(link, {o \in new : Before(m, o)})
<1>1. TypeOK /\ Writing(c) /\ Shared
  BY DEF IInv
<1> DEFINE l == level[c]
           p == Behind(c)
           n == node[c]
           s == next[p][l]
           new == Linked(l) \cup {n}
           all == new \cup {head}
<1>2. /\ l \in Levels /\ n \in Nodes /\ n = used /\ key[n] = arg[c] /\ n \notin Linked(l)
      /\ n # p /\ n # head /\ p \in Points /\ p \in Linked(l) \cup {head}
      /\ p = head \/ key[p] < arg[c]
      /\ s = NULL \/ (s \in Linked(l) /\ key[s] >= arg[c])
  BY AboutToLink
<1>3. next[n][l] = s
  BY <1>1 DEF Writing, Linking, Behind
<1>4. arg[c] \in Int
  BY TheWriter
<1>5. /\ all \subseteq Points /\ \A o \in all : o = head \/ key[o] \in Int
      /\ \A o \in Linked(l) : o \in Int /\ o <= n /\ o # head /\ o # NULL
      /\ n \in Int /\ n # NULL
  BY <1>1, <1>2, <1>4, LinkedNodes, Constants
<1>6. /\ \A i, j \in all : i = j \/ Before(i, j) \/ Before(j, i)
      /\ \A i, j \in all : ~(Before(i, j) /\ Before(j, i))
      /\ \A i \in all : ~Before(i, i)
      /\ \A i, j, o \in all : Before(i, j) /\ Before(j, o) => Before(i, o)
  BY <1>5, BeforeIsOrder
<1>7. Before(p, n)
  BY <1>2 DEF Before
<1>8. s # NULL => Before(n, s)
  BY <1>2, <1>4, <1>5 DEF Before
<1>9. \A o \in Linked(l) : Before(p, o) => s # NULL /\ (o = s \/ Before(s, o))
  <2>1. /\ s = NULL => After(p, l) = {}
        /\ s # NULL => \A o \in After(p, l) : o = s \/ Before(s, o)
    BY <1>1, <1>2, LinkLeads
  <2> QED
    BY <2>1 DEF After
<1>10. m \in all /\ p \in all /\ n \in all
  BY <1>2
<1>11. \A f \in new : Before(m, f) /\ (\A o \in new : Before(m, o) => o = f \/ Before(f, o))
          => IsFirst(f, {o \in new : Before(m, o)})
  BY DEF IsFirst
<1>12. (\A o \in new : ~Before(m, o)) => IsFirst(NULL, {o \in new : Before(m, o)})
  BY DEF IsFirst
<1>13. CASE m = p
  <2>1. \A o \in new : Before(m, o) => o = n \/ Before(n, o)
    BY <1>2, <1>6, <1>8, <1>9, <1>10, <1>13
  <2> QED
    BY <1>7, <1>11, <1>13, <2>1
<1>14. CASE m = n
  <2>1. \A o \in new : Before(n, o) => s # NULL /\ (o = s \/ Before(s, o))
    BY <1>6, <1>7, <1>9, <1>10
  <2>2. CASE s = NULL
    BY <1>2, <1>3, <1>12, <1>14, <2>1, <2>2
  <2>3. CASE s # NULL
    BY <1>2, <1>3, <1>8, <1>11, <1>14, <2>1, <2>3
  <2> QED
    BY <2>2, <2>3
<1>15. CASE m # p /\ m # n
  <2> DEFINE t == next[m][l]
  <2>1. m \in Linked(l) \cup {head}
    BY <1>15
  <2>2. /\ t = NULL \/ t \in Linked(l)
        /\ t = NULL => After(m, l) = {}
        /\ t # NULL => t \in After(m, l) /\ \A o \in After(m, l) : o = t \/ Before(t, o)
    BY <1>1, <1>2, <2>1, LinkLeads
  <2>3. CASE Before(m, n)
    <3>1. p # head => Before(m, p)
      <4>1. CASE Before(p, m)
        <5>1. m \in Linked(l)
          BY <1>6, <1>10, <2>1, <4>1 DEF Before
        <5>2. s # NULL /\ (m = s \/ Before(s, m))
          BY <1>9, <4>1, <5>1
        <5>3. Before(n, m)
          BY <1>2, <1>6, <1>8, <1>10, <5>2
        <5> QED
          BY <1>6, <1>10, <2>3, <5>3
      <4> QED
        BY <1>6, <1>10, <1>15, <4>1
    <3>2. p # head
      <4>1. CASE p = head
        <5>1. m \in Linked(l) /\ Before(p, m)
          BY <1>5, <1>15, <2>1, <4>1 DEF Before
        <5>2. s # NULL /\ (m = s \/ Before(s, m))
          BY <1>9, <5>1
        <5>3. Before(n, m)
          BY <1>2, <1>6, <1>8, <1>10, <5>2
        <5> QED
          BY <1>6, <1>10, <2>3, <5>3
      <4> QED
        BY <4>1
    <3>3. p \in After(m, l)
      BY <1>2, <3>1, <3>2 DEF After
    <3>4. t \in Linked(l) /\ Before(m, t) /\ (t = p \/ Before(t, p))
      BY <2>2, <3>3, <1>6, <1>10 DEF After
    <3>5. Before(t, n)
      BY <1>6, <1>7, <1>10, <3>4
    <3>6. \A o \in new : Before(m, o) => o = t \/ Before(t, o)
      BY <2>2, <3>4, <3>5 DEF After
    <3> QED
      BY <1>11, <1>15, <3>4, <3>6
  <2>4. CASE ~Before(m, n)
    <3>1. {o \in new : Before(m, o)} = After(m, l)
      BY <2>4 DEF After
    <3>2. IsFirst(t, After(m, l))
      BY <1>1, <1>2, <2>1 DEF Shared
    <3> QED
      BY <1>15, <3>1, <3>2
  <2> QED
    BY <2>3, <2>4
<1> QED
  BY <1>13, <1>14, <1>15

LEMMA PublishKeeps == ASSUME IInv, NEW c \in Clients, Publish(c) PROVE IInv'
<1>1. TypeOK /\ Searching(c) /\ Writing(c) /\ Standing(c) /\ Shared /\ Unwritten /\ Complete
  BY DEF IInv
<1> DEFINE l == level[c]
           p == Behind(c)
           n == node[c]
<1>2. /\ pc[c] = "publish" /\ next' = [next EXCEPT ![p][l] = n]
      /\ key' = key /\ max_height' = max_height /\ used' = used /\ iter' = iter
      /\ \A d \in Clients \ {c} :
            /\ pc'[d] = pc[d] /\ op'[d] = op[d] /\ arg'[d] = arg[d] /\ x'[d] = x[d]
            /\ level'[d] = level[d] /\ node'[d] = node[d]
  BY <1>1 DEF TypeOK, Publish, Return, insert
<1>3. \/ /\ l + 1 = height[c] /\ pc'[c] = "idle" /\ op'[c] = "none" /\ Return(c)
      \/ /\ l + 1 < height[c] /\ pc'[c] = "point" /\ level'[c] = l + 1
         /\ op' = op /\ arg' = arg /\ x' = x /\ prev' = prev /\ height' = height /\ node' = node
         /\ pc' = [pc EXCEPT ![c] = "point"] /\ level' = [level EXCEPT ![c] = l + 1]
  BY <1>1 DEF TypeOK, Publish, Return, insert
<1>4. /\ l \in Levels /\ n \in Nodes /\ n = used /\ n \notin Linked(l) /\ n # p /\ n # head
      /\ p \in Points /\ n \in Points /\ p \in Linked(l) \cup {head}
      /\ l < height[c] /\ height[c] <= max_height /\ key[n] = arg[c]
  BY <1>2, AboutToLink, Constants
<1>5. c \in Writers /\ arg[c] \in Keys
  BY <1>2, TheWriter
<1>6. /\ next'[p][l] = n
      /\ \A m \in Points, j \in Levels : m # p \/ j # l => next'[m][j] = next[m][j]
  BY <1>1, <1>2, <1>4 DEF TypeOK
<1>7. next[n][l] = next[p][l]
  BY <1>1, <1>2 DEF Writing, Linking, Behind
<1>8. \A j \in Levels : Linked(j)' = IF j = l THEN Linked(j) \cup {n} ELSE Linked(j)
  <2> SUFFICES ASSUME NEW j \in Levels, NEW m \in Nodes
               PROVE  (\E o \in Points : next'[o][j] = m)
                        <=> (\E o \in Points : next[o][j] = m) \/ (j = l /\ m = n)
    BY <1>4 DEF Linked
  <2>1. CASE j # l
    BY <1>6, <2>1
  <2>2. CASE j = l
    <3>1. ASSUME NEW o \in Points, next[o][j] = m PROVE \E q \in Points : next'[q][j] = m
      <4>1. CASE o = p
        BY <1>4, <1>6, <1>7, <2>2, <3>1, <4>1
      <4>2. CASE o # p
        BY <1>6, <3>1, <4>2
      <4> QED
        BY <4>1, <4>2
    <3>2. ASSUME NEW o \in Points, next'[o][j] = m
          PROVE  (\E q \in Points : next[q][j] = m) \/ m = n
      BY <1>6, <2>2, <3>2
    <3> QED
      BY <1>4, <1>6, <2>2, <3>1, <3>2
  <2> QED
    BY <2>1, <2>2
<1>9. TypeOK'
  <2>1. next' \in [Points -> [Levels -> Nodes \cup {NULL, Garbage}]]
    BY <1>1, <1>2, <1>4 DEF TypeOK
  <2>2. CASE Return(c)
    <3>1. /\ prev' \in [Clients -> [Levels -> Points \cup {Garbage}]]
          /\ level' \in [Clients -> Levels] /\ x' \in [Clients -> Points]
          /\ height' \in [Clients -> 1 .. kMaxHeight]
      BY <1>1, <2>2, Constants DEF TypeOK, Return, NoPrev
    <3>2. /\ pc' \in [Clients -> {"idle", "search", "height", "point", "publish"}]
          /\ op' \in [Clients -> Calls] /\ arg' \in [Clients -> Keys \cup {NULL}]
          /\ node' \in [Clients -> Nodes \cup {NULL}]
      BY <1>1, <2>2 DEF TypeOK, Return, Calls
    <3> QED
      BY <1>1, <1>2, <2>1, <3>1, <3>2 DEF TypeOK
  <2>3. CASE ~Return(c)
    <3>1. l + 1 \in Levels
      BY <1>1, <1>3, <1>4, <2>3, Constants DEF TypeOK, Levels
    <3>2. /\ level' \in [Clients -> Levels]
          /\ pc' \in [Clients -> {"idle", "search", "height", "point", "publish"}]
      BY <1>1, <1>3, <2>3, <3>1, ZenonT(30) DEF TypeOK
    <3> QED
      BY <1>1, <1>2, <1>3, <2>1, <2>3, <3>2 DEF TypeOK
  <2> QED
    BY <2>2, <2>3
<1>10. Shared'
  <2>1. \A j \in Levels : \A m \in Linked(j)' : m <= used'
    BY <1>1, <1>2, <1>4, <1>8, Constants, SMTT(30) DEF Shared, TypeOK
  <2>2. \A j \in Levels : j >= max_height' => Linked(j)' = {}
    BY <1>1, <1>2, <1>4, <1>8, Constants DEF Shared, TypeOK
  <2>3. ASSUME NEW j \in Levels, NEW m \in Linked(j)' \cup {head}
        PROVE  IsFirst(next[m][j], After(m, j))'
    <3>1. m \in Points
      BY <1>1, <1>4, <1>8, <2>3, LinkedNodes, Constants
    <3>2. \A i, o : Before(i, o)' <=> Before(i, o)
      BY <1>2 DEF Before
    <3>3. After(m, j)' = {o \in Linked(j)' : Before(m, o)}
      BY <3>2 DEF After
    <3>4. CASE j # l
      <4>1. After(m, j)' = After(m, j) /\ next'[m][j] = next[m][j] /\ m \in Linked(j) \cup {head}
        BY <1>6, <1>8, <2>3, <3>1, <3>3, <3>4 DEF After
      <4>2. IsFirst(next[m][j], After(m, j))
        BY <1>1, <4>1 DEF Shared
      <4> QED
        BY <3>2, <4>1, <4>2 DEF IsFirst
    <3>5. CASE j = l
      <4> DEFINE link == IF m = p THEN n ELSE next[m][l]
                 after == {o \in Linked(l) \cup {n} : Before(m, o)}
      <4>1. m \in Linked(l) \cup {head, n}
        BY <1>8, <2>3, <3>5
      <4>2. IsFirst(link, after)
        BY <1>2, <4>1, LinkBetween
      <4>3. next'[m][j] = link
        BY <1>6, <3>1, <3>5
      <4>4. After(m, j)' = after
        BY <1>8, <3>3, <3>5
      <4> HIDE DEF link, after
      <4> QED
        BY <3>2, <4>2, <4>3, <4>4 DEF IsFirst
    <3> QED
      BY <3>4, <3>5
  <2>4. \A j \in Levels \ {0} : Linked(j)' \subseteq Linked(j - 1)'
    <3> SUFFICES ASSUME NEW j \in Levels \ {0} PROVE Linked(j)' \subseteq Linked(j - 1)'
      OBVIOUS
    <3>1. j - 1 \in Levels /\ j - 1 < j
      BY Constants DEF Levels
    <3>2. Linked(j) \subseteq Linked(j - 1)
      BY <1>1 DEF Shared
    <3>3. j = l => n \in Linked(j - 1)
      BY <1>1, <1>2, <3>1 DEF Writing, Linking
    <3> QED
      BY <1>8, <3>1, <3>2, <3>3
  <2>5. \A m \in Nodes : m <= used' => key'[m] \in Keys
    BY <1>1, <1>2 DEF Shared
  <2> QED
    BY <2>1, <2>2, <2>3, <2>4, <2>5 DEF Shared
<1>11. Unwritten'
  <2> SUFFICES ASSUME NEW m \in Nodes, NEW j \in Levels, m \notin Linked(j)'
               PROVE  \/ next'[m][j] = Garbage
                      \/ \E d \in Writers : pc'[d] = "publish" /\ node'[d] = m /\ level'[d] = j
    BY DEF Unwritten
  <2>1. m \notin Linked(j) /\ ~(m = n /\ j = l)
    BY <1>8
  <2>2. next'[m][j] = next[m][j]
    BY <1>4, <1>6, <2>1, Constants
  <2>3. next[m][j] = Garbage
    BY <1>1, <1>2, <1>5, <2>1, Constants DEF Unwritten
  <2> QED
    BY <2>2, <2>3
<1>12. Complete'
  <2> SUFFICES ASSUME NEW m \in 1 .. used PROVE m \in Linked(0)'
    BY <1>2 DEF Complete
  <2>1. CASE m = n
    <3>2. CASE l = 0
      BY <1>8, <2>1, <3>2, Constants
    <3>3. CASE l # 0
      <4>1. 0 < l
        BY <1>4, <3>3 DEF Levels
      <4>2. n \in Linked(0)
        BY <1>1, <1>2, <4>1, Constants DEF Writing, Linking
      <4> QED
        BY <1>8, <2>1, <4>2, Constants
    <3> QED
      BY <3>2, <3>3
  <2>2. CASE m # n
    <3>1. ~Inserting(m)
      BY <1>5, <2>2, Constants DEF Inserting
    <3> QED
      BY <1>1, <1>8, <3>1, Constants DEF Complete
  <2> QED
    BY <2>1, <2>2
<1>13. Searching(c)' /\ Standing(c)'
  BY <1>1, <1>2, <1>3, <1>8, Constants DEF Searching, Standing
<1>14. Writing(c)'
  <2>1. CASE Return(c)
    <3>1. pc'[c] = "idle" /\ op'[c] = "none"
      BY <1>1, <2>1 DEF TypeOK, Return
    <3> QED
      BY <3>1 DEF Writing, Remembers, Linking
  <2>2. CASE ~Return(c)
    <3>1. /\ l + 1 < height[c] /\ pc'[c] = "point" /\ level'[c] = l + 1
          /\ op' = op /\ arg' = arg /\ prev' = prev /\ height' = height /\ node' = node
      BY <1>3, <2>2
    <3>2. Remembers(c)'
      <4> SUFFICES ASSUME NEW j \in Levels, l + 1 <= j, j < height[c]
                   PROVE  Fits(prev[c][j], j, arg[c])'
        BY <3>1 DEF Remembers
      <4>1. l <= j /\ j # l
        BY <1>4 DEF Levels
      <4>2. Fits(prev[c][j], j, arg[c])
        BY <1>1, <1>2, <4>1 DEF Writing, Remembers
      <4>3. Linked(j)' = Linked(j)
        BY <1>8, <4>1
      <4>4. prev[c][j] \in Linked(j) \cup {head} /\ prev[c][j] \in Points
        BY <1>1, <4>2, LinkedNodes, Constants DEF Fits
      <4>5. next'[prev[c][j]][j] = next[prev[c][j]][j]
        BY <1>6, <4>1, <4>4
      <4> QED
        BY <1>2, <3>1, <4>2, <4>3, <4>5 DEF Fits
    <3>3. Linking(c)'
      <4>1. \A j \in Levels : n \in Linked(j)' <=> j < l + 1
        BY <1>1, <1>2, <1>4, <1>8 DEF Writing, Linking, Levels
      <4> QED
        BY <1>1, <1>2, <1>4, <3>1, <4>1 DEF Writing, Linking
    <3> QED
      BY <1>5, <3>1, <3>2, <3>3 DEF Writing
  <2> QED
    BY <2>1, <2>2
<1>15. \A d \in Clients \ {c} : Searching(d)' /\ Writing(d)' /\ Standing(d)'
  <2>1. max_height' \in Int /\ max_height <= max_height'
    BY <1>1, <1>2, Constants DEF TypeOK
  <2>2. \A j \in Levels : Linked(j) \subseteq Linked(j)'
    BY <1>8
  <2> QED
    BY <1>2, <2>1, <2>2, OthersKeepUp
<1> QED
  BY <1>9, <1>10, <1>11, <1>12, <1>13, <1>14, <1>15 DEF IInv

-----------------------------------------------------------------------------
(* Theorems.                                                               *)

LEMMA NextKeeps == IInv /\ [Next]_vars => IInv'
<1> SUFFICES ASSUME IInv, [Next]_vars PROVE IInv'
  OBVIOUS
<1>1. TypeOK /\ \A c \in Clients : Standing(c)
  BY DEF IInv
<1>2. max_height \in 1 .. max_height
  BY <1>1, Constants DEF TypeOK
<1>3. ASSUME NEW c \in Clients, Insert(c) PROVE IInv'
  <2>1. PICK k \in Keys : Begin(c, "Insert", k, max_height)
    BY <1>3 DEF Insert
  <2>2. c \in Writers
    BY <1>3 DEF Insert
  <2> QED
    BY <1>2, <2>1, <2>2, BeginKeeps
<1>4. ASSUME NEW c \in Clients, Seek(c) PROVE IInv'
  <2>1. PICK k \in Keys, h \in 1 .. max_height : Begin(c, "Seek", k, h)
    BY <1>4 DEF Seek
  <2> QED
    BY <2>1, BeginKeeps
<1>5. ASSUME NEW c \in Clients, Prev(c) PROVE IInv'
  <2>1. PICK h \in 1 .. max_height : Begin(c, "Prev", key[iter[c]], h)
    BY <1>5 DEF Prev
  <2>2. key[iter[c]] \in Keys
    BY <1>1, <1>5, LinkedNodes, Constants DEF Prev, Standing, IInv
  <2> QED
    BY <2>1, <2>2, BeginKeeps
<1>6. ASSUME NEW c \in Clients, SeekToLast(c) PROVE IInv'
  <2>1. PICK h \in 1 .. max_height : Begin(c, "SeekToLast", NULL, h)
    BY <1>6 DEF SeekToLast
  <2> QED
    BY <2>1, BeginKeeps
<1>7. ASSUME NEW c \in Clients, SeekToFirst(c) \/ NextNode(c) PROVE IInv'
  <2>1. PICK n \in Linked(0) \cup {head} : Step(c, n)
    BY <1>1, <1>7 DEF SeekToFirst, NextNode, Standing
  <2> QED
    BY <2>1, StepKeeps
<1>8. CASE UNCHANGED vars
  <2>1. /\ UNCHANGED <<list, pc, op, arg, x, level, prev, height, node, iter>>
    BY <1>8 DEF vars, search, insert
  <2>2. TypeOK' /\ Shared'
    BY <1>1, <2>1, SameLists DEF TypeOK, list, IInv
  <2>3. \A l \in Levels : Linked(l)' = Linked(l)
    BY <2>1, SameLists
  <2>4. Unwritten' /\ Complete'
    BY <2>1, <2>3, Constants DEF IInv, Unwritten, Complete, Inserting, list
  <2>5. \A c \in Clients : Searching(c)' /\ Writing(c)' /\ Standing(c)'
    BY <2>1, OthersKeep
  <2> QED
    BY <2>2, <2>4, <2>5 DEF IInv
<1> QED
  BY <1>3, <1>4, <1>5, <1>6, <1>7, <1>8, ForwardKeeps, DownKeeps, ArriveKeeps,
     RaiseKeeps, PointKeeps, PublishKeeps
  DEF Next, Iterate, Search, Link

(* Types, the lists with their order, what searches have behind them and   *)
(* what an insert has remembered, for any clients, one of them a writer,   *)
(* and any keys, height and number of nodes (skiplist.h:262-369).          *)
THEOREM SkipListInvariant == Spec => []IInv
BY InitHolds, NextKeeps, PTL DEF Spec

(* Type correctness of the skip list (skiplist.h:103-369).                 *)
THEOREM SkipListTypes == Spec => []TypeOK
<1>1. IInv => TypeOK
  BY DEF IInv
<1> QED
  BY <1>1, SkipListInvariant, PTL

(* Insert links from the lowest level up, each node behind the one its     *)
(* search remembered: at every moment each link leads to the successor,    *)
(* levels are nested, and nothing inserted is lost (skiplist.h:362-368).   *)
THEOREM LinksAreRight == Spec => []LinksLeadToSuccessors
<1>1. IInv => LinksLeadToSuccessors
  BY DEF IInv, Shared, Complete, After, LinksLeadToSuccessors
<1> QED
  BY <1>1, SkipListInvariant, PTL

LEMMA ArrivesWhereItShould ==
  ASSUME IInv, [Next]_vars, NEW c \in Clients, pc[c] = "search", pc'[c] = "idle"
  PROVE  /\ op[c] = "Seek" => IsFirst(iter'[c], {m \in Linked(0) : key[m] >= arg[c]})
         /\ op[c] = "Prev" => IsLast(iter'[c], {m \in Linked(0) : key[m] < arg[c]})
         /\ op[c] = "SeekToLast" => IsLast(iter'[c], Linked(0))
<1>1. TypeOK /\ Searching(c) /\ Shared
  BY DEF IInv
<1>2. Arrive(c)
  <2>1. \A d \in Clients : pc'[d] = pc[d] => d # c
    OBVIOUS
  <2>2. PICK d \in Clients : Insert(d) \/ Iterate(d) \/ Search(d) \/ Link(d)
    BY DEF Next, vars
  <2>3. ~Insert(d) /\ ~Iterate(d)
    BY <1>1, <2>2 DEF TypeOK, Insert, Iterate, Seek, Prev, SeekToLast, SeekToFirst, NextNode,
                      Begin, Step, GoTo
  <2>4. ~Forward(d) /\ ~Down(d) /\ ~Raise(d) /\ ~Point(d)
    BY <1>1 DEF TypeOK, Forward, Down, Raise, Point, GoTo
  <2>5. ~Publish(d)
    BY <1>1 DEF TypeOK, Publish, Return
  <2>6. d = c
    BY <1>1, <2>2, <2>3, <2>4, <2>5 DEF TypeOK, Search, Link, Arrive, Return
  <2> QED
    BY <2>2, <2>3, <2>4, <2>5, <2>6 DEF Search, Link
<1>3. /\ op[c] # "Insert" /\ iter'[c] = Position(c) /\ ~GoesOn(c) /\ level[c] = 0
  BY <1>1, <1>2 DEF TypeOK, Arrive
<1>4. /\ x[c] \in Linked(0) \cup {head} /\ Ahead(c) = next[x[c]][0] /\ 0 \in Levels
      /\ op[c] # "SeekToLast" => arg[c] \in Int /\ (x[c] = head \/ key[x[c]] < arg[c])
  BY <1>1, <1>3, Constants DEF Searching, Ahead
<1>5. /\ op[c] = "SeekToLast" => Ahead(c) = NULL
      /\ op[c] # "SeekToLast" => Ahead(c) = NULL \/ key[Ahead(c)] >= arg[c]
  BY <1>3, GoingOn
<1>6. /\ Ahead(c) = NULL \/ Ahead(c) \in Linked(0)
      /\ Ahead(c) = NULL => After(x[c], 0) = {}
      /\ Ahead(c) # NULL => \A m \in After(x[c], 0) : m = Ahead(c) \/ Before(Ahead(c), m)
  BY <1>1, <1>4, LinkLeads
<1>7. \A m \in Linked(0) : key[m] \in Int /\ m \in Points /\ m # head /\ m # NULL /\ m \in Int
  BY <1>1, <1>4, LinkedNodes, Constants
<1>8. \A m \in Linked(0) : m = x[c] \/ Before(m, x[c]) \/ m \in After(x[c], 0)
  <2>1. \A m, n \in Linked(0) \cup {head} : m = n \/ Before(m, n) \/ Before(n, m)
    BY <1>7, BeforeIsOrder, Constants, ZenonT(30)
  <2> QED
    BY <1>4, <2>1 DEF After
<1>9. ASSUME op[c] = "Seek"
      PROVE  IsFirst(iter'[c], {m \in Linked(0) : key[m] >= arg[c]})
  <2>1. \A m \in Linked(0) : key[m] >= arg[c] => m \in After(x[c], 0)
    BY <1>4, <1>7, <1>9 DEF After, Before
  <2>2. iter'[c] = Ahead(c)
    BY <1>3, <1>9 DEF Position
  <2> QED
    BY <1>5, <1>6, <1>9, <2>1, <2>2 DEF IsFirst
<1>10. ASSUME op[c] \in {"Prev", "SeekToLast"},
              NEW S \in SUBSET Linked(0), x[c] # head => x[c] \in S,
              \A m \in S : m \notin After(x[c], 0)
       PROVE  IsLast(iter'[c], S)
  <2>1. iter'[c] = IF x[c] = head THEN NULL ELSE x[c]
    BY <1>3, <1>10 DEF Position
  <2>2. \A m \in S : m = x[c] \/ Before(m, x[c])
    BY <1>8, <1>10
  <2>3. x[c] = head => S = {}
    BY <1>7, <2>2 DEF Before
  <2> QED
    BY <1>10, <2>1, <2>2, <2>3 DEF IsLast
<1>11. ASSUME op[c] = "Prev"
       PROVE  IsLast(iter'[c], {m \in Linked(0) : key[m] < arg[c]})
  <2>1. \A m \in Linked(0) : key[m] < arg[c] => m \notin After(x[c], 0)
    <3> SUFFICES ASSUME NEW m \in Linked(0), key[m] < arg[c], m \in After(x[c], 0)
                 PROVE  FALSE
      OBVIOUS
    <3>1. Ahead(c) # NULL /\ (m = Ahead(c) \/ Before(Ahead(c), m))
      BY <1>6
    <3>2. key[Ahead(c)] >= arg[c] /\ key[Ahead(c)] \in Int /\ Ahead(c) # head
      BY <1>5, <1>6, <1>7, <1>11, <3>1
    <3>3. key[Ahead(c)] <= key[m]
      BY <1>7, <3>1, <3>2 DEF Before
    <3> QED
      BY <1>4, <1>7, <1>11, <3>2, <3>3
  <2>2. x[c] # head => x[c] \in {m \in Linked(0) : key[m] < arg[c]}
    BY <1>4, <1>11
  <2> QED
    BY <1>10, <1>11, <2>1, <2>2
<1>12. ASSUME op[c] = "SeekToLast" PROVE IsLast(iter'[c], Linked(0))
  <2>1. After(x[c], 0) = {}
    BY <1>5, <1>6, <1>12
  <2> QED
    BY <1>4, <1>10, <1>12, <2>1
<1> QED
  BY <1>9, <1>11, <1>12

(* FindGreaterOrEqual, FindLessThan and FindLast, which take no lock and   *)
(* may start below the height the list has by now, end at the right node   *)
(* of the lowest level (skiplist.h:262-323).                               *)
THEOREM SearchesEndRight == Spec => SearchesAreCurrent
<1>1. IInv /\ [Next]_vars =>
        [\A c \in Clients :
          pc[c] = "search" /\ pc'[c] = "idle" =>
             /\ op[c] = "Seek" =>
                   IsFirst(iter'[c], {m \in Linked(0) : key[m] >= arg[c]})
             /\ op[c] = "Prev" =>
                   IsLast(iter'[c], {m \in Linked(0) : key[m] < arg[c]})
             /\ op[c] = "SeekToLast" => IsLast(iter'[c], Linked(0))]_vars
  BY ArrivesWhereItShould
<1> QED
  BY <1>1, SkipListInvariant, PTL DEF Spec, SearchesAreCurrent
=============================================================================
