--------------------------- MODULE SpecToJobProofs ---------------------------
(***************************************************************************)
(* Two results for every specification, of any size.  The search for a     *)
(* cycle (SpecValidation) decides correctly on every graph, from whatever  *)
(* node it starts and in whatever order it takes the edges.  And the Job   *)
(* of a node (JobTemplate) is the one the submitted node asks for, with    *)
(* the environment of any number of inputs: what the loop over them leaves *)
(* behind is found from the least round at which it would not hold.        *)
(***************************************************************************)
EXTENDS SpecToJob, SequenceTheorems, LeastElement

Ranked(u) == rank[u] > 0

\* The open calls: no node is on the stack twice, its visit has not returned,
\* and each call was made for an edge of the one before it.
PathInv ==
  /\ \A i, j \in 1 .. Len(path) : path[i] = path[j] => i = j
  /\ \A i \in 1 .. Len(path) : path[i] \in seen /\ ~Ranked(path[i])
  /\ \A i \in 1 .. Len(path) - 1 : path[i + 1] \in Adj(path[i])

\* The numbers: only seen nodes have one, a seen node without one is on the
\* stack, and a node's dependents were numbered before it.
RankInv ==
  /\ \A u \in Ids : rank[u] <= clock
  /\ \A u \in Ids : Ranked(u) => u \in seen
  /\ \A u \in seen : Ranked(u) \/ \E i \in 1 .. Len(path) : path[i] = u
  /\ \A u \in Ids : Ranked(u) => \A v \in Adj(u) : Ranked(v) /\ rank[v] < rank[u]

\* The loops, until there is a verdict: the dependents an open call has gone
\* through are numbered, except the one whose call is open.
LoopInv ==
  \A i \in 1 .. Len(path) :
    /\ left[path[i]] \subseteq Adj(path[i])
    /\ \A v \in Adj(path[i]) \ left[path[i]] :
         Ranked(v) \/ (i < Len(path) /\ path[i + 1] = v)

\* The outer loop loses no node.
OuterInv ==
  /\ verdict = "none" => path = <<>>
  /\ verdict = "search" => NodeIds(spec) \subseteq todo \cup seen
  /\ verdict = "accepted" => path = <<>> /\ NodeIds(spec) \subseteq seen

SearchInv ==
  /\ TypeOK /\ spec \in Specs /\ PathInv /\ RankInv /\ OuterInv
  /\ verdict = "search" => LoopInv
  /\ RefusedHasCycle

\* A visit that begins: the node is seen, on top of the stack, all of its loop is
\* ahead of it, and the rest is as before.
LEMMA EnterFacts ==
  ASSUME TypeOK, NEW u \in Ids, NEW newLeft \in [Ids -> SUBSET Ids], Enter(u, newLeft)
  PROVE  /\ seen' \in SUBSET Ids /\ path' \in Seq(Ids) /\ left' \in [Ids -> SUBSET Ids]
         /\ seen' = seen \cup {u}
         /\ Len(path') = Len(path) + 1 /\ path'[Len(path) + 1] = u
         /\ \A i \in 1 .. Len(path) : path'[i] = path[i]
         /\ left'[u] = Adj(u) /\ \A v \in Ids \ {u} : left'[v] = newLeft[v]
<1>1. Adj(u) \in SUBSET Ids
  BY DEF Adj
<1> QED
  BY <1>1 DEF Enter, TypeOK

\* Beginning a visit of an unseen node keeps the invariants, if the call that
\* makes it has taken that node, and no other, off its list.
LEMMA EnterKeeps ==
  ASSUME TypeOK, PathInv, RankInv, LoopInv, UNCHANGED <<spec, rank, clock>>,
         NEW u \in Ids, u \notin seen, NEW newLeft \in [Ids -> SUBSET Ids],
         Enter(u, newLeft),
         path # <<>> => /\ u \in left[Top] /\ newLeft[Top] = left[Top] \ {u}
                        /\ \A v \in Ids \ {Top} : newLeft[v] = left[v],
         path = <<>> => newLeft = left
  PROVE  PathInv' /\ RankInv' /\ LoopInv'
<1> DEFINE n == Len(path)
<1>0. /\ n \in Nat /\ path \in Seq(Ids) /\ \A i \in 1 .. n : path[i] \in Ids
      /\ path # <<>> => n \in 1 .. n /\ Top = path[n]
      /\ path = <<>> => n = 0
      /\ rank \in [Ids -> Nat] /\ clock \in Nat
  BY DEF TypeOK, Top
<1>1. /\ seen' = seen \cup {u} /\ path' \in Seq(Ids) /\ left' \in [Ids -> SUBSET Ids]
      /\ Len(path') = n + 1 /\ path'[n + 1] = u
      /\ \A i \in 1 .. n : path'[i] = path[i]
      /\ left'[u] = Adj(u) /\ \A v \in Ids \ {u} : left'[v] = newLeft[v]
  BY EnterFacts
<1>2. \A w : Adj(w)' = Adj(w)
  BY DEF Adj
<1>3. ~Ranked(u) /\ \A i \in 1 .. n : path[i] # u
  BY DEF RankInv, PathInv
<1>4. n > 0 => u \in Adj(path[n])
  BY <1>0 DEF LoopInv
<1>p. /\ \A i, j \in 1 .. n : path[i] = path[j] => i = j
      /\ \A i \in 1 .. n : path[i] \in seen /\ ~Ranked(path[i])
      /\ \A i \in 1 .. n - 1 : path[i + 1] \in Adj(path[i])
  BY DEF PathInv
<1>l. \A i \in 1 .. n :
        /\ left[path[i]] \subseteq Adj(path[i])
        /\ \A v \in Adj(path[i]) \ left[path[i]] : Ranked(v) \/ (i < n /\ path[i + 1] = v)
  BY DEF LoopInv
<1>r. \A w \in seen : Ranked(w) \/ \E i \in 1 .. n : path[i] = w
  BY DEF RankInv
<1> HIDE DEF n
<1>5. \A w : Ranked(w)' <=> Ranked(w)
  BY DEF Ranked
<1>6. PathInv'
  <2>1. ASSUME NEW i \in 1 .. n + 1, NEW j \in 1 .. n + 1, path'[i] = path'[j] PROVE i = j
    <3>1. CASE i \in 1 .. n /\ j \in 1 .. n
      BY <1>1, <1>p, <2>1, <3>1
    <3>2. CASE i = n + 1 /\ j \in 1 .. n
      BY <1>1, <1>3, <2>1, <3>2
    <3>3. CASE j = n + 1 /\ i \in 1 .. n
      BY <1>1, <1>3, <2>1, <3>3
    <3> QED
      BY <1>0, <3>1, <3>2, <3>3
  <2>2. ASSUME NEW i \in 1 .. n + 1 PROVE path'[i] \in seen' /\ ~Ranked(path'[i])
    <3>1. CASE i = n + 1
      BY <1>1, <1>3, <3>1
    <3>2. CASE i \in 1 .. n
      BY <1>1, <1>p, <3>2
    <3> QED
      BY <1>0, <3>1, <3>2
  <2>3. ASSUME NEW i \in 1 .. n PROVE path'[i + 1] \in Adj(path'[i])
    <3>1. CASE i = n
      BY <1>0, <1>1, <1>4, <2>3, <3>1
    <3>2. CASE i # n
      <4>1. i \in 1 .. n - 1 /\ i + 1 \in 1 .. n
        BY <1>0, <2>3, <3>2
      <4> QED
        BY <1>1, <1>p, <4>1
    <3> QED
      BY <3>1, <3>2
  <2>4. Len(path') - 1 = n
    BY <1>0, <1>1
  <2> QED
    BY <1>1, <2>1, <2>2, <2>3, <2>4 DEF PathInv, Adj, Ranked
<1>7. RankInv'
  <2>1. \A w \in seen' : Ranked(w)' \/ \E i \in 1 .. n + 1 : path'[i] = w
    <3> SUFFICES ASSUME NEW w \in seen' PROVE Ranked(w)' \/ \E i \in 1 .. n + 1 : path'[i] = w
      OBVIOUS
    <3>1. CASE w = u
      BY <1>0, <1>1, <3>1
    <3>2. CASE w \in seen
      <4>1. Ranked(w) \/ \E i \in 1 .. n : path[i] = w
        BY <1>r, <3>2
      <4> QED
        BY <1>0, <1>1, <4>1 DEF Ranked
    <3> QED
      BY <1>1, <3>1, <3>2
  <2> QED
    BY <1>1, <1>2, <2>1 DEF RankInv, Ranked
<1>8. LoopInv'
  <2> SUFFICES ASSUME NEW i \in 1 .. n + 1
               PROVE  /\ left'[path'[i]] \subseteq Adj(path'[i])
                      /\ \A v \in Adj(path'[i]) \ left'[path'[i]] :
                           Ranked(v)' \/ (i < n + 1 /\ path'[i + 1] = v)
    BY <1>1, <1>2 DEF LoopInv
  <2>1. CASE i = n + 1
    BY <1>1, <2>1
  <2>2. CASE i = n
    <3>1. i \in 1 .. n /\ path'[i] = Top /\ Top \in Ids /\ Top # u /\ path # <<>>
      BY <1>0, <1>1, <1>3, <2>2
    <3>2. left'[Top] = left[Top] \ {u} /\ path'[i + 1] = u
      BY <1>1, <2>2, <3>1
    <3>3. /\ left[Top] \subseteq Adj(Top)
          /\ \A v \in Adj(Top) \ left[Top] : Ranked(v)
      <4>1. Top = path[n] /\ n \in 1 .. n /\ ~(n < n)
        BY <1>0, <3>1
      <4>2. /\ left[path[n]] \subseteq Adj(path[n])
            /\ \A v \in Adj(path[n]) \ left[path[n]] : Ranked(v)
        BY <1>l, <4>1
      <4> QED
        BY <4>1, <4>2
    <3> QED
      BY <1>0, <2>2, <3>1, <3>2, <3>3 DEF Ranked
  <2>3. CASE i \in 1 .. n - 1
    <3>0. i \in 1 .. n /\ i + 1 \in 1 .. n /\ n # 0
      BY <1>0, <2>3
    <3>1. /\ i \in 1 .. n /\ i + 1 \in 1 .. n /\ path'[i] = path[i] /\ path'[i + 1] = path[i + 1]
          /\ path # <<>>
      BY <1>0, <1>1, <3>0
    <3>2. path[i] # Top /\ path[i] \in Ids /\ path[i] # u
      BY <1>0, <1>3, <1>p, <2>3, <3>1
    <3>3. left'[path[i]] = left[path[i]]
      BY <1>1, <3>1, <3>2
    <3> QED
      BY <1>0, <1>5, <1>l, <2>3, <3>1, <3>3
  <2> QED
    BY <1>0, <2>1, <2>2, <2>3
<1> QED
  BY <1>6, <1>7, <1>8

\* When the innermost call returns, its node's dependents are all numbered: so
\* may the node be.
LEMMA LeaveKeeps ==
  ASSUME TypeOK, PathInv, RankInv, LoopInv, Leave
  PROVE  TypeOK' /\ PathInv' /\ RankInv' /\ LoopInv'
<1> DEFINE n == Len(path)
           t == path[n]
<1>0. /\ n \in Nat /\ n > 0 /\ path \in Seq(Ids) /\ \A i \in 1 .. n : path[i] \in Ids
      /\ n \in 1 .. n /\ Top = t /\ t \in Ids
      /\ rank \in [Ids -> Nat] /\ clock \in Nat
  BY DEF TypeOK, Top, Leave
<1>1. /\ path' \in Seq(Ids) /\ Len(path') = n - 1 /\ \A i \in 1 .. n - 1 : path'[i] = path[i]
  <2>1. path' = SubSeq(path, 1, n - 1) /\ n - 1 \in Int /\ 1 \in Int
    BY <1>0 DEF Leave
  <2>2. \A i \in 1 .. n - 1 : path[i] \in Ids
    BY <1>0
  <2>3. /\ SubSeq(path, 1, n - 1) \in Seq(Ids)
        /\ Len(SubSeq(path, 1, n - 1)) = IF 1 <= n - 1 THEN (n - 1) - 1 + 1 ELSE 0
        /\ \A i \in 1 .. (n - 1) - 1 + 1 : SubSeq(path, 1, n - 1)[i] = path[1 + i - 1]
    BY <2>1, <2>2, SubSeqProperties
  <2> HIDE DEF n
  <2>4. \A i \in 1 .. n - 1 : SubSeq(path, 1, n - 1)[i] = path[i]
    <3> TAKE i \in 1 .. n - 1
    <3>1. i \in 1 .. (n - 1) - 1 + 1 /\ 1 + i - 1 = i
      BY <1>0
    <3> QED
      BY <2>3, <3>1
  <2> QED
    BY <1>0, <2>1, <2>3, <2>4
<1>2. /\ clock' = clock + 1 /\ rank' \in [Ids -> Nat] /\ rank'[t] = clock + 1
      /\ \A w \in Ids \ {t} : rank'[w] = rank[w]
      /\ UNCHANGED <<spec, verdict, todo, seen, left>> /\ left[t] = {}
  BY <1>0 DEF Leave
<1>3. TypeOK'
  BY <1>1, <1>2, <1>0 DEF TypeOK
<1>p. /\ \A i, j \in 1 .. n : path[i] = path[j] => i = j
      /\ \A i \in 1 .. n : path[i] \in seen /\ ~Ranked(path[i])
      /\ \A i \in 1 .. n - 1 : path[i + 1] \in Adj(path[i])
  BY DEF PathInv
<1>l. \A i \in 1 .. n :
        /\ left[path[i]] \subseteq Adj(path[i])
        /\ \A v \in Adj(path[i]) \ left[path[i]] : Ranked(v) \/ (i < n /\ path[i + 1] = v)
  BY DEF LoopInv
<1>r. \A w \in seen : Ranked(w) \/ \E i \in 1 .. n : path[i] = w
  BY DEF RankInv
<1>a. \A w : Adj(w) \subseteq Ids
  BY DEF Adj
<1>4. \A v \in Adj(t) : Ranked(v)
  <2>1. \A v \in Adj(path[n]) \ left[path[n]] : Ranked(v) \/ (n < n /\ path[n + 1] = v)
    BY <1>0, <1>l
  <2> QED
    BY <1>0, <1>2, <2>1
<1> HIDE DEF n, t
<1>5. \A i \in 1 .. n - 1 : path[i] # t
  BY <1>0, <1>p DEF t
<1>6. PathInv'
  <2>1. ASSUME NEW i \in 1 .. n - 1, NEW j \in 1 .. n - 1, path'[i] = path'[j] PROVE i = j
    BY <1>0, <1>1, <1>p, <2>1
  <2>2. ASSUME NEW i \in 1 .. n - 1 PROVE path'[i] \in seen /\ ~(rank'[path'[i]] > 0)
    <3>1. i \in 1 .. n /\ path'[i] = path[i] /\ path[i] # t /\ path[i] \in Ids
      BY <1>0, <1>1, <1>5, <2>2
    <3> QED
      BY <1>2, <1>p, <3>1 DEF Ranked
  <2>3. ASSUME NEW i \in 1 .. n - 2 PROVE path'[i + 1] \in Adj(path'[i])
    <3>1. i \in 1 .. n - 1 /\ i + 1 \in 1 .. n - 1
      BY <1>0, <2>3
    <3> QED
      BY <1>1, <1>p, <3>1
  <2>4. Len(path') - 1 = n - 2
    BY <1>0, <1>1
  <2> QED
    BY <1>1, <1>2, <2>1, <2>2, <2>3, <2>4 DEF PathInv, Adj, Ranked
<1>7. RankInv'
  <2>1. ASSUME NEW w \in Ids PROVE rank'[w] <= clock'
    <3>1. rank[w] \in Nat /\ rank[w] <= clock
      BY <1>0 DEF RankInv
    <3>2. CASE w = t
      BY <1>0, <1>2, <3>2
    <3>3. CASE w # t
      <4>1. rank'[w] = rank[w]
        BY <1>2, <3>3
      <4> QED
        BY <1>0, <1>2, <3>1, <4>1
    <3> QED
      BY <3>2, <3>3
  <2>2. \A w \in Ids : rank'[w] > 0 => w \in seen
    <3>1. t \in seen
      BY <1>0, <1>p DEF t
    <3> QED
      BY <1>2, <3>1 DEF RankInv, Ranked
  <2>3. ASSUME NEW w \in seen PROVE rank'[w] > 0 \/ \E i \in 1 .. n - 1 : path'[i] = w
    <3>0. w \in Ids
      BY DEF TypeOK
    <3>1. CASE w = t
      BY <1>0, <1>2, <3>1
    <3>2. CASE w # t /\ Ranked(w)
      BY <1>2, <3>0, <3>2 DEF Ranked
    <3>3. CASE w # t /\ \E i \in 1 .. n : path[i] = w
      <4>1. PICK i \in 1 .. n : path[i] = w
        BY <3>3
      <4>2. i \in 1 .. n - 1
        BY <1>0, <3>3, <4>1 DEF t
      <4> QED
        BY <1>1, <4>1, <4>2
    <3> QED
      BY <1>r, <3>1, <3>2, <3>3
  <2>4. ASSUME NEW w \in Ids, rank'[w] > 0, NEW v \in Adj(w)
        PROVE  rank'[v] > 0 /\ rank'[v] < rank'[w]
    <3>0. v \in Ids /\ ~Ranked(t)
      BY <1>0, <1>a, <1>p DEF t
    <3>1. CASE w = t
      <4>1. Ranked(v) /\ v # t /\ rank[v] <= clock
        BY <1>4, <2>4, <3>0, <3>1 DEF RankInv
      <4> QED
        BY <1>0, <1>2, <3>0, <3>1, <4>1 DEF Ranked
    <3>2. CASE w # t
      <4>1. Ranked(w)
        BY <1>2, <2>4, <3>2 DEF Ranked
      <4>2. Ranked(v) /\ rank[v] < rank[w]
        BY <2>4, <4>1 DEF RankInv
      <4>3. v # t
        BY <3>0, <4>2
      <4> QED
        BY <1>2, <3>0, <3>2, <4>2, <4>3 DEF Ranked
    <3> QED
      BY <3>1, <3>2
  <2> QED
    BY <1>1, <1>2, <2>1, <2>2, <2>3, <2>4 DEF RankInv, Ranked, Adj
<1>8. LoopInv'
  <2> SUFFICES ASSUME NEW i \in 1 .. n - 1
               PROVE  /\ left[path'[i]] \subseteq Adj(path'[i])
                      /\ \A v \in Adj(path'[i]) \ left[path'[i]] :
                           rank'[v] > 0 \/ (i < n - 1 /\ path'[i + 1] = v)
    BY <1>1, <1>2 DEF LoopInv, Adj, Ranked
  <2>1. i \in 1 .. n /\ path'[i] = path[i] /\ i < n
    BY <1>0, <1>1
  <2>2. left[path[i]] \subseteq Adj(path[i])
    BY <1>l, <2>1
  <2>3. ASSUME NEW v \in Adj(path[i]) \ left[path[i]]
        PROVE  rank'[v] > 0 \/ (i < n - 1 /\ path'[i + 1] = v)
    <3>0. v \in Ids
      BY <1>a
    <3>1. Ranked(v) \/ path[i + 1] = v
      BY <1>l, <2>1, <2>3
    <3>2. CASE v = t
      BY <1>0, <1>2, <3>2
    <3>3. CASE v # t /\ Ranked(v)
      BY <1>2, <3>0, <3>3 DEF Ranked
    <3>4. CASE v # t /\ path[i + 1] = v
      <4>1. i + 1 # n
        BY <3>4 DEF t
      <4>2. i + 1 \in 1 .. n - 1 /\ i < n - 1
        BY <1>0, <2>1, <4>1
      <4> QED
        BY <1>1, <3>4, <4>2
    <3> QED
      BY <3>1, <3>2, <3>3, <3>4
  <2> QED
    BY <2>1, <2>2, <2>3
<1> QED
  BY <1>3, <1>6, <1>7, <1>8

\* Nothing moves once there is a verdict.
LEMMA SameSearch ==
  ASSUME SearchInv, UNCHANGED specVars
  PROVE  SearchInv'
<1>1. UNCHANGED <<spec, verdict, todo, seen, path, left, rank, clock>>
  BY DEF specVars, searchVars
<1>3. TypeOK' /\ OuterInv'
  BY <1>1 DEF SearchInv, TypeOK, OuterInv, NodeIds
<1>4. PathInv'
  BY <1>1 DEF SearchInv, PathInv, Ranked, Adj
<1>5. RankInv'
  BY <1>1 DEF SearchInv, RankInv, Ranked, Adj
<1>6. (verdict = "search" => LoopInv)'
  BY <1>1 DEF SearchInv, LoopInv, Ranked, Adj
<1>7. RefusedHasCycle'
  BY <1>1 DEF SearchInv, RefusedHasCycle, Top, Adj
<1> QED
  BY <1>1, <1>3, <1>4, <1>5, <1>6, <1>7 DEF SearchInv

\* The call that goes on with its loop finds a cycle, a node that is done, or a
\* node to visit.
LEMMA VisitKeeps ==
  ASSUME SearchInv, NEW v \in Ids, VisitNext(v)
  PROVE  SearchInv'
<1> DEFINE n == Len(path)
           gone == [left EXCEPT ![Top] = @ \ {v}]
<1>0. /\ TypeOK /\ PathInv /\ RankInv /\ LoopInv /\ OuterInv /\ spec \in Specs
      /\ verdict = "search" /\ path # <<>> /\ v \in left[Top]
      /\ UNCHANGED <<spec, todo, rank, clock>>
  BY DEF SearchInv, VisitNext
<1>1. /\ n \in Nat /\ n > 0 /\ n \in 1 .. n /\ Top = path[n] /\ Top \in Ids
      /\ \A i \in 1 .. n : path[i] \in Ids
  BY <1>0 DEF TypeOK, Top
<1>2. v \in Adj(path[n])
  BY <1>0, <1>1 DEF LoopInv
<1>3. /\ gone \in [Ids -> SUBSET Ids] /\ gone[Top] = left[Top] \ {v}
      /\ \A w \in Ids \ {Top} : gone[w] = left[w]
  BY <1>0, <1>1 DEF TypeOK
<1>4. OnStack(v) <=> \E i \in 1 .. n : path[i] = v
  BY <1>0 DEF OnStack, Range1, TypeOK
<1>5. CASE ~OnStack(v) /\ v \notin seen
  <2>1. Enter(v, gone) /\ verdict' = verdict
    BY <1>5 DEF VisitNext
  <2>2. PathInv' /\ RankInv' /\ LoopInv'
    BY <1>0, <1>3, <1>5, <2>1, EnterKeeps
  <2>3. TypeOK' /\ seen \subseteq seen'
    <3> HIDE DEF gone
    <3>1. /\ seen' \in SUBSET Ids /\ path' \in Seq(Ids) /\ left' \in [Ids -> SUBSET Ids]
          /\ seen' = seen \cup {v}
      BY <1>0, <1>3, <2>1, EnterFacts
    <3> QED
      BY <1>0, <2>1, <3>1 DEF TypeOK
  <2>4. OuterInv' /\ RefusedHasCycle'
    BY <1>0, <2>1, <2>3 DEF OuterInv, RefusedHasCycle, NodeIds
  <2> QED
    BY <1>0, <2>2, <2>3, <2>4 DEF SearchInv
<1>6. CASE OnStack(v) \/ v \in seen
  <2>1. /\ left' = gone /\ UNCHANGED <<seen, path>>
        /\ (OnStack(v) /\ verdict' = "cyclic") \/ (~OnStack(v) /\ verdict' = verdict)
    BY <1>6 DEF VisitNext
  <2>2. TypeOK' /\ PathInv' /\ RankInv'
    BY <1>0, <1>3, <2>1 DEF TypeOK, PathInv, RankInv, Ranked, Adj
  <2>3. OuterInv'
    BY <1>0, <2>1 DEF OuterInv, NodeIds
  <2>4. CASE OnStack(v)
    <3>1. PICK i \in 1 .. n : path[i] = v
      BY <1>4, <2>4
    <3>2. \A j \in i .. n - 1 : path[j + 1] \in Adj(path[j])
      BY <1>0, <1>1, <3>1 DEF PathInv
    <3>3. path[i] \in Adj(Top)
      BY <1>1, <1>2, <3>1
    <3>4. RefusedHasCycle'
      BY <1>0, <2>1, <3>1, <3>2, <3>3 DEF RefusedHasCycle, Top, Adj
    <3> QED
      BY <1>0, <2>1, <2>2, <2>3, <2>4, <3>4 DEF SearchInv
  <2>5. CASE ~OnStack(v)
    <3>1. Ranked(v)
      BY <1>0, <1>4, <1>6, <2>5 DEF RankInv
    <3>2. LoopInv'
      <4> SUFFICES ASSUME NEW i \in 1 .. n
                   PROVE  /\ gone[path[i]] \subseteq Adj(path[i])
                          /\ \A w \in Adj(path[i]) \ gone[path[i]] :
                               Ranked(w) \/ (i < n /\ path[i + 1] = w)
        BY <1>0, <2>1 DEF LoopInv, Ranked, Adj
      <4>1. /\ left[path[i]] \subseteq Adj(path[i])
            /\ \A w \in Adj(path[i]) \ left[path[i]] : Ranked(w) \/ (i < n /\ path[i + 1] = w)
        BY <1>0 DEF LoopInv
      <4>2. gone[path[i]] = left[path[i]] \/ gone[path[i]] = left[path[i]] \ {v}
        BY <1>1, <1>3
      <4> QED
        BY <3>1, <4>1, <4>2
    <3>3. RefusedHasCycle'
      BY <1>0, <2>1, <2>5 DEF RefusedHasCycle
    <3> QED
      BY <1>0, <2>2, <2>3, <3>2, <3>3 DEF SearchInv
  <2> QED
    BY <2>4, <2>5
<1> QED
  BY <1>5, <1>6

\* The outer loop goes on with a node that is seen, or visits it.
LEMMA StartKeeps ==
  ASSUME SearchInv, NEW u \in Ids, StartVisit(u)
  PROVE  SearchInv'
<1>0. /\ TypeOK /\ PathInv /\ RankInv /\ LoopInv /\ OuterInv /\ spec \in Specs
      /\ verdict = "search" /\ path = <<>> /\ todo' = todo \ {u}
      /\ UNCHANGED <<spec, verdict, rank, clock>>
  BY DEF SearchInv, StartVisit
<1>1. CASE u \in seen
  <2>1. UNCHANGED <<seen, path, left>>
    BY <1>1 DEF StartVisit
  <2>2. TypeOK' /\ PathInv' /\ RankInv' /\ LoopInv'
    BY <1>0, <2>1 DEF TypeOK, PathInv, RankInv, LoopInv, Ranked, Adj
  <2>3. OuterInv' /\ RefusedHasCycle'
    BY <1>0, <1>1, <2>1 DEF OuterInv, RefusedHasCycle, NodeIds
  <2> QED
    BY <1>0, <2>2, <2>3 DEF SearchInv
<1>2. CASE u \notin seen
  <2>1. Enter(u, left) /\ left \in [Ids -> SUBSET Ids]
    BY <1>0, <1>2 DEF StartVisit, TypeOK
  <2>2. /\ seen' \in SUBSET Ids /\ path' \in Seq(Ids) /\ left' \in [Ids -> SUBSET Ids]
        /\ seen' = seen \cup {u}
    BY <1>0, <2>1, EnterFacts
  <2>3. PathInv' /\ RankInv' /\ LoopInv'
    BY <1>0, <1>2, <2>1, EnterKeeps
  <2>4. TypeOK' /\ OuterInv' /\ RefusedHasCycle'
    BY <1>0, <2>2 DEF TypeOK, OuterInv, RefusedHasCycle, NodeIds
  <2> QED
    BY <1>0, <2>3, <2>4 DEF SearchInv
<1> QED
  BY <1>1, <1>2

\* Every step of the validation keeps the invariant.
LEMMA SearchStep == SearchInv /\ [ValidationStep]_specVars => SearchInv'
<1> SUFFICES ASSUME SearchInv, [ValidationStep]_specVars PROVE SearchInv'
  OBVIOUS
<1>0. TypeOK /\ PathInv /\ RankInv /\ OuterInv /\ spec \in Specs
  BY DEF SearchInv
<1>1. CASE CheckFields
  <2>1. verdict = "none" /\ path = <<>> /\ UNCHANGED <<spec, seen, path, left, rank, clock>>
    BY <1>0, <1>1 DEF CheckFields, OuterInv
  <2>2. PathInv' /\ RankInv' /\ LoopInv'
    BY <1>0, <2>1 DEF PathInv, RankInv, LoopInv, Ranked, Adj
  <2>3. /\ verdict' \in {"search", "invalid"}
        /\ verdict' = "search" => todo' = NodeIds(spec) /\ NodeIds(spec) \subseteq Ids
        /\ verdict' = "invalid" => todo' = todo
    <3>1. ValidNodes(spec) => NoId \notin NodeIds(spec)
      BY DEF ValidNodes, ValidNode, NodeIds
    <3>2. NodeIds(spec) \subseteq Ids \cup {NoId}
      BY <1>0, IdsAssumption
    <3> QED
      BY <1>1, <3>1, <3>2 DEF CheckFields
  <2>4. TypeOK'
    BY <1>0, <2>1, <2>3 DEF TypeOK
  <2>5. OuterInv' /\ RefusedHasCycle'
    BY <2>1, <2>3 DEF OuterInv, RefusedHasCycle, NodeIds
  <2> QED
    BY <1>0, <2>1, <2>2, <2>4, <2>5 DEF SearchInv
<1>2. CASE Leave
  <2>0. LoopInv /\ verdict = "search"
    BY <1>2 DEF Leave, SearchInv
  <2>1. TypeOK' /\ PathInv' /\ RankInv' /\ LoopInv'
    BY <1>0, <1>2, <2>0, LeaveKeeps
  <2>2. UNCHANGED <<spec, verdict, todo, seen>>
    BY <1>2 DEF Leave
  <2>3. OuterInv' /\ RefusedHasCycle'
    BY <1>0, <2>0, <2>2 DEF OuterInv, RefusedHasCycle, NodeIds
  <2> QED
    BY <1>0, <2>1, <2>2, <2>3 DEF SearchInv
<1>3. CASE Accept
  <2>1. /\ verdict = "search" /\ path = <<>> /\ todo = {} /\ verdict' = "accepted"
        /\ UNCHANGED <<spec, todo, seen, path, left, rank, clock>>
    BY <1>3 DEF Accept, searchVars
  <2>2. TypeOK' /\ PathInv' /\ RankInv'
    BY <1>0, <2>1 DEF TypeOK, PathInv, RankInv, Ranked, Adj
  <2>3. OuterInv' /\ RefusedHasCycle'
    BY <1>0, <2>1 DEF OuterInv, RefusedHasCycle, NodeIds
  <2> QED
    BY <1>0, <2>1, <2>2, <2>3 DEF SearchInv
<1>4. CASE \E u \in Ids : StartVisit(u) \/ VisitNext(u)
  BY <1>4, StartKeeps, VisitKeeps
<1>5. CASE UNCHANGED specVars
  BY <1>5, SameSearch
<1> QED
  BY <1>1, <1>2, <1>3, <1>4, <1>5 DEF ValidationStep

\* The invariant holds throughout, also while Jobs are being created.
LEMMA SearchHolds == Spec => []SearchInv
<1>1. Init => SearchInv
  <2> SUFFICES ASSUME Init PROVE SearchInv
    OBVIOUS
  <2>1. /\ spec \in Specs /\ verdict = "none" /\ todo = {} /\ seen = {} /\ path = <<>>
        /\ left = [u \in Ids |-> {}] /\ rank = [u \in Ids |-> 0] /\ clock = 0
    BY DEF Init, ValidationInit
  <2>2. TypeOK
    BY <2>1 DEF TypeOK
  <2>3. PathInv /\ RankInv /\ OuterInv /\ RefusedHasCycle
    BY <2>1 DEF PathInv, RankInv, Ranked, OuterInv, RefusedHasCycle
  <2> QED
    BY <2>1, <2>2, <2>3 DEF SearchInv
<1>2. [Next]_vars => [ValidationStep]_specVars
  BY DEF Next, Validate, CreateJob, vars
<1> QED
  BY <1>1, <1>2, SearchStep, PTL DEF Spec

\* For every graph and every order of the search, a graph that
\* ValidateExecutableRunSpec accepts has an order in which dag-go can run it.
THEOREM AcceptedGraphsHaveOrder == Spec => []AcceptedHasOrder
<1>1. SearchInv => AcceptedHasOrder
  <2> SUFFICES ASSUME SearchInv, verdict = "accepted",
                      NEW u \in NodeIds(spec), NEW v \in Adj(u)
               PROVE  rank[v] < rank[u]
    BY DEF AcceptedHasOrder
  <2>1. path = <<>> /\ u \in seen /\ u \in Ids
    BY DEF SearchInv, OuterInv, TypeOK
  <2>2. Ranked(u)
    BY <2>1 DEF SearchInv, RankInv
  <2> QED
    BY <2>1, <2>2 DEF SearchInv, RankInv
<1> QED
  BY <1>1, SearchHolds, PTL

\* A graph is refused as cyclic only when the open calls of visit form a cycle of
\* its edges.
THEOREM RefusedGraphsHaveCycle == Spec => []RefusedHasCycle
<1>1. SearchInv => RefusedHasCycle
  BY DEF SearchInv
<1> QED
  BY <1>1, SearchHolds, PTL

-----------------------------------------------------------------------------
(* The environment of the inputs                                           *)

\* One round of the loop over the bindings.
Round(inputs, env, i) ==
  LET new == InputEnv(inputs[i])
  IN  [k \in DOMAIN env \cup DOMAIN new |-> IF k \in DOMAIN new THEN new[k] ELSE env[k]]

\* g is the environment after each round, up to the n-th.
Rounds(inputs, g, n) ==
  g = [i \in 0 .. n |-> IF i = 0 THEN <<>> ELSE Round(inputs, g[i - 1], i)]

\* The loop can be run for any number of rounds: the first number for which it could
\* not would have a predecessor for which it could.
LEMMA RoundsExist ==
  ASSUME NEW inputs
  PROVE  \A n \in Nat : \E g : Rounds(inputs, g, n)
<1> DEFINE Bad == {n \in Nat : ~ \E g : Rounds(inputs, g, n)}
<1> SUFFICES ASSUME Bad # {} PROVE FALSE
  OBVIOUS
<1>1. PICK n \in Bad : \A k \in Bad : n <= k
  <2>1. Bad \subseteq Nat
    OBVIOUS
  <2> HIDE DEF Bad
  <2> QED BY <2>1, Least
<1>2. n \in Nat /\ ~ \E g : Rounds(inputs, g, n)
  OBVIOUS
<1>3. CASE n = 0
  <2> DEFINE g == [i \in 0 .. 0 |-> <<>>]
  <2>1. 0 .. 0 = {0}
    OBVIOUS
  <2>2. [i \in 0 .. 0 |-> IF i = 0 THEN <<>> ELSE Round(inputs, g[i - 1], i)]
          = [i \in 0 .. 0 |-> <<>>]
    BY <2>1
  <2>3. Rounds(inputs, g, 0)
    BY <2>2 DEF Rounds
  <2> QED BY <1>2, <1>3, <2>3
<1>4. CASE n # 0
  <2>1. n - 1 \in Nat /\ n - 1 \notin Bad
    BY <1>1, <1>2, <1>4
  <2>2. PICK g : Rounds(inputs, g, n - 1)
    BY <2>1
  <2> DEFINE h == [i \in 0 .. n |-> IF i = n THEN Round(inputs, g[n - 1], n) ELSE g[i]]
  <2>3. ASSUME NEW i \in 0 .. n
        PROVE  h[i] = IF i = 0 THEN <<>> ELSE Round(inputs, h[i - 1], i)
    <3>1. CASE i = n
      <4>1. h[n - 1] = g[n - 1] /\ h[n] = Round(inputs, g[n - 1], n)
        BY <1>2, <1>4
      <4> QED BY <1>4, <3>1, <4>1
    <3>2. CASE i # n /\ i # 0
      <4>1. i \in 0 .. n - 1 /\ i - 1 \in 0 .. n /\ i - 1 # n
        BY <1>2, <3>2
      <4>2. h[i - 1] = g[i - 1] /\ h[i] = g[i]
        BY <3>2, <4>1
      <4>3. g[i] = Round(inputs, g[i - 1], i)
        BY <2>2, <3>2, <4>1 DEF Rounds
      <4> QED BY <3>2, <4>2, <4>3
    <3>3. CASE i = 0
      <4>1. 0 \in 0 .. n - 1 /\ 0 # n
        BY <1>2, <1>4
      <4>2. g[0] = <<>>
        BY <2>2, <4>1 DEF Rounds
      <4> QED BY <3>3, <4>1, <4>2
    <3> QED BY <3>1, <3>2, <3>3
  <2>4. h = [i \in 0 .. n |-> h[i]]
    OBVIOUS
  <2> HIDE DEF h
  <2>5. Rounds(inputs, h, n)
    BY <2>3, <2>4 DEF Rounds
  <2> QED BY <1>2, <2>5
<1> QED BY <1>3, <1>4

\* EnvOf is the environment after the last round.
LEMMA EnvOfRounds ==
  ASSUME NEW inputs, Len(inputs) \in Nat
  PROVE  \E g : Rounds(inputs, g, Len(inputs)) /\ EnvOf(inputs) = g[Len(inputs)]
<1> DEFINE env[i \in 0 .. Len(inputs)] ==
             IF i = 0 THEN <<>>
             ELSE LET new == InputEnv(inputs[i])
                  IN  [k \in DOMAIN env[i - 1] \cup DOMAIN new |->
                         IF k \in DOMAIN new THEN new[k] ELSE env[i - 1][k]]
<1>1. EnvOf(inputs) = env[Len(inputs)]
  BY DEF EnvOf
<1>2. env = CHOOSE g : Rounds(inputs, g, Len(inputs))
  BY DEF Rounds, Round
<1>3. \E g : Rounds(inputs, g, Len(inputs))
  BY RoundsExist
<1> HIDE DEF env
<1>4. Rounds(inputs, env, Len(inputs))
  BY <1>2, <1>3
<1> QED BY <1>1, <1>4

\* The variables that are set are those of the inputs, and each has the value one of
\* the inputs gave it.
LEMMA EnvOfFacts ==
  ASSUME NEW inputs, Len(inputs) \in Nat, DOMAIN inputs = 1 .. Len(inputs)
  PROVE  /\ \A k : k \in DOMAIN EnvOf(inputs)
                     <=> \E j \in DOMAIN inputs : k \in DOMAIN InputEnv(inputs[j])
         /\ \A k \in DOMAIN EnvOf(inputs) :
              \E j \in DOMAIN inputs : /\ k \in DOMAIN InputEnv(inputs[j])
                                       /\ EnvOf(inputs)[k] = InputEnv(inputs[j])[k]
<1> DEFINE L == Len(inputs)
<1>1. PICK g : Rounds(inputs, g, L) /\ EnvOf(inputs) = g[L]
  BY EnvOfRounds
<1> DEFINE From(n) ==
             /\ \A k : k \in DOMAIN g[n] <=> \E j \in 1 .. n : k \in DOMAIN InputEnv(inputs[j])
             /\ \A k \in DOMAIN g[n] : \E j \in 1 .. n : /\ k \in DOMAIN InputEnv(inputs[j])
                                                         /\ g[n][k] = InputEnv(inputs[j])[k]
           Bad == {n \in 0 .. L : ~From(n)}
<1>2. ASSUME Bad # {} PROVE FALSE
  <2>1. PICK n \in Bad : \A k \in Bad : n <= k
    <3>1. Bad \subseteq Nat
      OBVIOUS
    <3> HIDE DEF Bad
    <3> QED BY <1>2, <3>1, Least
  <2>2. n \in 0 .. L /\ ~From(n) /\ n \in Nat
    OBVIOUS
  <2>3. CASE n = 0
    <3>1. g[0] = <<>>
      BY <1>1 DEF Rounds
    <3>2. DOMAIN g[0] = {} /\ 1 .. 0 = {}
      BY <3>1
    <3>3. From(0)
      BY <3>2
    <3> QED BY <2>2, <2>3, <3>3
  <2>4. CASE n # 0
    <3>1. n - 1 \in 0 .. L /\ n - 1 \notin Bad
      BY <2>1, <2>2, <2>4
    <3>2. From(n - 1)
      BY <3>1
    <3> DEFINE new == InputEnv(inputs[n])
               old == g[n - 1]
    <3>3. g[n] = [k \in DOMAIN old \cup DOMAIN new |-> IF k \in DOMAIN new THEN new[k] ELSE old[k]]
      BY <1>1, <2>2, <2>4 DEF Rounds, Round
    <3>4. 1 .. n = (1 .. n - 1) \cup {n}
      BY <2>2, <2>4
    <3>5. \A k : k \in DOMAIN g[n] <=> \E j \in 1 .. n : k \in DOMAIN InputEnv(inputs[j])
      <4>1. DOMAIN g[n] = DOMAIN old \cup DOMAIN new
        BY <3>3
      <4>2. \A k : k \in DOMAIN old <=> \E j \in 1 .. n - 1 : k \in DOMAIN InputEnv(inputs[j])
        BY <3>2
      <4> HIDE DEF old, From
      <4> QED BY <3>4, <4>1, <4>2
    <3>6. ASSUME NEW k \in DOMAIN g[n]
          PROVE  \E j \in 1 .. n : /\ k \in DOMAIN InputEnv(inputs[j])
                                   /\ g[n][k] = InputEnv(inputs[j])[k]
      <4>1. CASE k \in DOMAIN new
        <5>1. g[n][k] = new[k]
          BY <3>3, <4>1
        <5> QED BY <3>4, <4>1, <5>1
      <4>2. CASE k \notin DOMAIN new
        <5>1. k \in DOMAIN old /\ g[n][k] = old[k]
          BY <3>3, <3>6, <4>2
        <5>2. PICK j \in 1 .. n - 1 : /\ k \in DOMAIN InputEnv(inputs[j])
                                      /\ old[k] = InputEnv(inputs[j])[k]
          BY <3>2, <5>1
        <5> HIDE DEF old, new, From
        <5> QED BY <3>4, <5>1, <5>2
      <4> QED BY <4>1, <4>2
    <3> QED BY <2>2, <3>5, <3>6
  <2> QED BY <2>3, <2>4
<1>3. From(L)
  <2>1. L \in 0 .. L
    OBVIOUS
  <2> QED BY <1>2, <2>1
<1> QED BY <1>1, <1>3

-----------------------------------------------------------------------------
(* The node the runner has, and the Job made of it                         *)

\* Two nodes that differ in timeout, attempts and placement at most.
Alike(m, n) ==
  /\ DOMAIN m = DOMAIN n
  /\ m.id = n.id
  /\ m.queue = n.queue /\ m.label = n.label /\ m.grace = n.grace
  /\ m.inputs = n.inputs /\ m.outputs = n.outputs /\ m.helper = n.helper
  /\ m.command = n.command /\ m.ownContract = n.ownContract

\* Setting the placement of a node changes nothing else of it.
LEMMA PlacingFacts ==
  ASSUME NEW n, IsNode(n), NEW m, Alike(m, n), NEW q
  PROVE  /\ [m EXCEPT !.placement = q].placement = q
         /\ Alike([m EXCEPT !.placement = q], n)
<1> DEFINE r == [m EXCEPT !.placement = q]
<1>1. /\ r.placement = q
      /\ DOMAIN r = DOMAIN n /\ r.id = n.id
      /\ r.queue = n.queue /\ r.label = n.label /\ r.grace = n.grace
      /\ r.inputs = n.inputs /\ r.outputs = n.outputs /\ r.helper = n.helper
      /\ r.command = n.command /\ r.ownContract = n.ownContract
  BY DEF IsNode, Alike
<1> QED BY <1>1, Zenon DEF Alike

\* ApplyDefaults touches the timeout, the attempts and the placement alone.
LEMMA DefaultsFacts ==
  ASSUME NEW n, IsNode(n), NEW d
  PROVE  /\ ApplyDefaults(n, d).placement =
              IF n.placement.nil THEN d.placement ELSE n.placement
         /\ Alike(ApplyDefaults(n, d), n)
<1> DEFINE t == IF n.timeout = 0 THEN d.timeout ELSE n.timeout
           a == IF n.maxAttempts = 0 THEN d.maxAttempts ELSE n.maxAttempts
           q == IF n.placement.nil THEN d.placement ELSE n.placement
           m1 == [n EXCEPT !.timeout = t]
           m2 == [m1 EXCEPT !.maxAttempts = a]
           m3 == [m2 EXCEPT !.placement = q]
<1>1. ApplyDefaults(n, d) = m3
  BY DEF ApplyDefaults, IsNode
<1> HIDE DEF t, a, q
<1>2. /\ DOMAIN m1 = DOMAIN n /\ m1.id = n.id
      /\ m1.queue = n.queue /\ m1.label = n.label /\ m1.grace = n.grace
      /\ m1.inputs = n.inputs /\ m1.outputs = n.outputs /\ m1.helper = n.helper
      /\ m1.command = n.command /\ m1.ownContract = n.ownContract
  BY DEF IsNode
<1> HIDE DEF m1
<1>3. /\ DOMAIN m2 = DOMAIN n /\ m2.id = n.id
      /\ m2.queue = n.queue /\ m2.label = n.label /\ m2.grace = n.grace
      /\ m2.inputs = n.inputs /\ m2.outputs = n.outputs /\ m2.helper = n.helper
      /\ m2.command = n.command /\ m2.ownContract = n.ownContract
  BY <1>2 DEF IsNode
<1> HIDE DEF m2
<1>4. Alike(m2, n)
  BY <1>3, Zenon DEF Alike
<1>5. m3.placement = q /\ Alike(m3, n)
  BY <1>4, PlacingFacts
<1> QED BY <1>1, <1>5 DEF q

\* What cloneNode leaves of a placement: the selector.
Cloned(p) == [nil |-> p.nil, required |-> "", selector |-> p.selector, preferred |-> {}]

\* cloneNode changes the placement alone.
LEMMA CloneFacts ==
  ASSUME NEW n, IsNode(n), NEW m, Alike(m, n)
  PROVE  CloneNode(m).placement = Cloned(m.placement) /\ Alike(CloneNode(m), n)
<1>1. CloneNode(m) = [m EXCEPT !.placement = Cloned(m.placement)]
  BY DEF CloneNode, Cloned, IsNode, Alike
<1> QED BY <1>1, PlacingFacts

\* The node an attempt works on, in the terms of the submitted one.
LEMMA ExecutionNodeFacts ==
  ASSUME NEW i, IsNode(spec.nodes[i])
  PROVE  /\ CloneNode(RunNode(i)).placement = Cloned(PlacementOf(i))
         /\ Alike(CloneNode(RunNode(i)), spec.nodes[i])
<1>1. /\ RunNode(i).placement = PlacementOf(i)
      /\ Alike(RunNode(i), spec.nodes[i])
  BY DefaultsFacts DEF RunNode, PlacementOf
<1> QED BY <1>1, CloneFacts

\* The placement of an execution node, once the answers are known.
Placed(i) == ApplyPlacementHints(Cloned(PlacementOf(i)), spec.nodes[i].inputs)

\* applyPlacementHints on a cloned placement: no clash is made, the selector and
\* all required answers agree with it, and preferred ones are taken over.
LEMMA HintFacts ==
  ASSUME NEW p, NEW inputs, ~PlacementConflicts(Cloned(p), inputs)
  PROVE  LET a == ApplyPlacementHints(Cloned(p), inputs)
         IN  /\ p.selector # "" => NodeSelector(a) = p.selector
             /\ \A h \in Hinted(inputs, "required_node") : NodeSelector(a) = h
             /\ Hinted(inputs, "required_node") = {} =>
                  Hinted(inputs, "preferred_node") \subseteq a.preferred
<1> DEFINE R == Hinted(inputs, "required_node")
           P == Hinted(inputs, "preferred_node")
           q == Cloned(p)
           a == ApplyPlacementHints(q, inputs)
<1>1. "" \notin R /\ "" \notin P
  BY DEF Hinted
<1>2. q.required = "" /\ q.preferred = {} /\ q.selector = p.selector
  BY DEF Cloned
<1>3. /\ \A g, h \in R : g = h
      /\ R # {} => p.selector \in R \cup {""}
  BY <1>2 DEF PlacementConflicts
<1>4. a = IF R # {}
          THEN [nil |-> FALSE, required |-> CHOOSE h \in R : TRUE,
                selector |-> CHOOSE h \in R : TRUE, preferred |-> q.preferred]
          ELSE IF P # {}
          THEN [nil |-> FALSE, required |-> q.required, selector |-> q.selector,
                preferred |-> P]
          ELSE q
  BY DEF ApplyPlacementHints
<1> HIDE DEF R, P, q, a
<1>5. CASE R # {}
  <2>1. PICK h \in R : h = CHOOSE g \in R : TRUE
    BY <1>5
  <2>2. a.required = h
    BY <1>4, <1>5, <2>1
  <2>3. NodeSelector(a) = h
    BY <1>1, <2>2 DEF NodeSelector
  <2>4. (\A g \in R : NodeSelector(a) = g) /\ (p.selector # "" => NodeSelector(a) = p.selector)
    BY <1>3, <1>5, <2>3
  <2> QED BY <1>5, <2>4 DEF R, P, a, q
<1>6. CASE R = {} /\ P # {}
  <2>1. a.required = "" /\ a.selector = p.selector /\ a.preferred = P
    BY <1>2, <1>4, <1>6
  <2>2. NodeSelector(a) = p.selector
    BY <2>1 DEF NodeSelector
  <2> QED BY <1>6, <2>1, <2>2 DEF R, P, a, q
<1>7. CASE R = {} /\ P = {}
  <2>1. a = q
    BY <1>4, <1>7
  <2>2. NodeSelector(a) = p.selector
    BY <1>2, <2>1 DEF NodeSelector
  <2> QED BY <1>7, <2>2 DEF R, P, a, q
<1> QED BY <1>5, <1>6, <1>7

\* applyPlacementHints leaves a cloned placement without a clash.
LEMMA PlacedAgrees ==
  ASSUME NEW p, NEW inputs
  PROVE  ~ClashingPlacement(ApplyPlacementHints(Cloned(p), inputs))
<1> DEFINE R == Hinted(inputs, "required_node")
           P == Hinted(inputs, "preferred_node")
           q == Cloned(p)
           a == ApplyPlacementHints(q, inputs)
           node == CHOOSE h \in R : TRUE
<1>1. q.required = ""
  BY DEF Cloned
<1>2. a = IF R # {}
          THEN [nil |-> FALSE, required |-> node, selector |-> node, preferred |-> q.preferred]
          ELSE IF P # {}
          THEN [nil |-> FALSE, required |-> q.required, selector |-> q.selector,
                preferred |-> P]
          ELSE q
  BY DEF ApplyPlacementHints
<1> HIDE DEF R, P, q, a, node
<1>3. a.required = a.selector \/ a.required = ""
  BY <1>1, <1>2
<1>4. ~ClashingPlacement(a)
  BY <1>3 DEF ClashingPlacement
<1> QED BY <1>4 DEF a, q

\* The request of an attempt of node i, in the terms of the submitted node.
Requested(i, req) ==
  LET n == spec.nodes[i]
  IN  /\ req.runId = spec.runId /\ req.nodeId = n.id
      /\ req.placement = Placed(i)
      /\ req.labels = RequestLabels(n)
      /\ req.grace = n.grace
      /\ req.contract = Contract(n, EnvOf(n.inputs))
      /\ req.env = ContainerEnv(n, EnvOf(n.inputs))
      /\ req.wrapped = Wrapped(n)
      /\ req.contracted = (HasContract(n) \/ n.ownContract)

\* The node of an attempt and the request that CreateJob makes of it.
ExecutionNode(i) == CloneNode(RunNode(i))
RequestOf(i) ==
  AttemptRequest(spec.runId, ExecutionNode(i),
                 ApplyPlacementHints(ExecutionNode(i).placement, ExecutionNode(i).inputs))

\* toAttemptRequest, after ApplyDefaults, cloneNode and applyPlacementHints, asks
\* for what the node says, except for what is lost of its placement.
LEMMA RequestFacts ==
  ASSUME NEW i, IsNode(spec.nodes[i])
  PROVE  Requested(i, RequestOf(i))
<1> DEFINE n == spec.nodes[i]
           m == ExecutionNode(i)
           p == ApplyPlacementHints(m.placement, m.inputs)
<1>1. Alike(m, n) /\ m.placement = Cloned(PlacementOf(i))
  BY ExecutionNodeFacts DEF ExecutionNode
<1> HIDE DEF m
<1>2. /\ m.id = n.id
      /\ m.queue = n.queue /\ m.label = n.label /\ m.grace = n.grace
      /\ m.inputs = n.inputs /\ m.outputs = n.outputs /\ m.helper = n.helper
      /\ m.command = n.command /\ m.ownContract = n.ownContract
  BY <1>1, Zenon DEF Alike
<1>3. p = Placed(i)
  BY <1>1, <1>2 DEF Placed
<1> HIDE DEF p
<1>4. RequestLabels(m) = RequestLabels(n)
  BY <1>2 DEF RequestLabels
<1>5. Contract(m, EnvOf(m.inputs)) = Contract(n, EnvOf(n.inputs))
  BY <1>2 DEF Contract, HasContract
<1>6. ContainerEnv(m, EnvOf(m.inputs)) = ContainerEnv(n, EnvOf(n.inputs))
  BY <1>2 DEF ContainerEnv, HasContract, UsesHelper
<1>7. Wrapped(m) = Wrapped(n)
  BY <1>2 DEF Wrapped, UsesHelper
<1>8. (HasContract(m) \/ m.ownContract) = (HasContract(n) \/ n.ownContract)
  BY <1>2 DEF HasContract
<1> DEFINE req == AttemptRequest(spec.runId, m, p)
<1>9. /\ req.runId = spec.runId /\ req.nodeId = m.id
      /\ req.placement = p
      /\ req.labels = RequestLabels(m)
      /\ req.grace = m.grace
      /\ req.contract = Contract(m, EnvOf(m.inputs))
      /\ req.env = ContainerEnv(m, EnvOf(m.inputs))
      /\ req.wrapped = Wrapped(m)
      /\ req.contracted = (HasContract(m) \/ m.ownContract)
  BY Zenon DEF AttemptRequest
<1>10. RequestOf(i) = req
  BY DEF RequestOf, p, m
<1> HIDE DEF req
<1>11. Requested(i, req)
  BY <1>2, <1>3, <1>4, <1>5, <1>6, <1>7, <1>8, <1>9, Zenon DEF Requested
<1> QED BY <1>10, <1>11

\* The Job of a request, field by field.
LEMMA K8sJobFacts ==
  ASSUME NEW req
  PROVE  /\ K8sJob(req).suspend = (\E l \in req.labels : l[1] = "queue")
         /\ K8sJob(req).host = NodeSelector(req.placement)
         /\ K8sJob(req).preferred = req.placement.preferred
         /\ K8sJob(req).podGrace = PodGrace(req.grace)
         /\ K8sJob(req).contract = req.contract
         /\ K8sJob(req).env = req.env
         /\ K8sJob(req).wrapped = req.wrapped
         /\ K8sJob(req).contracted = req.contracted
  BY Zenon DEF K8sJob

-----------------------------------------------------------------------------
(* The Jobs, as the state has them                                         *)

\* Whether applyPlacementHints refuses the answers of node i.
Conflicting(i) == PlacementConflicts(ExecutionNode(i).placement, ExecutionNode(i).inputs)

\* What CreateJob makes of a node.
Outcome(i) ==
  IF EnvKeysCollide(ExecutionNode(i).inputs) THEN [kind |-> "collision"]
  ELSE IF Conflicting(i) THEN [kind |-> "conflict"]
  ELSE IF RequestRefused(RequestOf(i)) THEN [kind |-> "refused"]
  ELSE [kind |-> "job", job |-> K8sJob(RequestOf(i))]

\* Only the nodes of an accepted specification become Jobs, each the one its node
\* asks for.
JobsInv ==
  /\ spec \in Specs
  /\ DOMAIN jobs = DOMAIN spec.nodes
  /\ \A i \in DOMAIN jobs :
       jobs[i] = NotYet \/ (verdict = "accepted" /\ jobs[i] = Outcome(i))

\* Validation and the creation of Jobs keep that.
LEMMA JobsHold == Spec => []JobsInv
<1>1. Init => JobsInv
  BY DEF Init, ValidationInit, JobsInv
<1>2. JobsInv /\ [Next]_vars => JobsInv'
  <2> SUFFICES ASSUME JobsInv, [Next]_vars PROVE JobsInv'
    OBVIOUS
  <2>1. CASE Validate
    <3>1. spec' = spec /\ jobs' = jobs
      BY <2>1 DEF Validate, ValidationStep, CheckFields, Leave, Accept, StartVisit, VisitNext
    <3>2. verdict # "accepted"
      BY <2>1 DEF Validate, ValidationStep, CheckFields, Leave, Accept, StartVisit, VisitNext
    <3>3. \A i \in DOMAIN jobs : jobs[i] = NotYet
      BY <3>2 DEF JobsInv
    <3> QED BY <3>1, <3>3 DEF JobsInv
  <2>2. ASSUME NEW i \in DOMAIN spec.nodes, CreateJob(i) PROVE JobsInv'
    <3>1. /\ spec' = spec /\ verdict' = verdict /\ verdict = "accepted"
          /\ jobs' = [jobs EXCEPT ![i] = Outcome(i)]
      BY <2>2 DEF CreateJob, Outcome, Conflicting, RequestOf, ExecutionNode, specVars
    <3>2. \A j \in DOMAIN spec.nodes : Outcome(j)' = Outcome(j)
      BY <3>1 DEF Outcome, Conflicting, RequestOf, ExecutionNode, RunNode
    <3>3. DOMAIN jobs' = DOMAIN spec.nodes
      BY <3>1 DEF JobsInv
    <3>4. ASSUME NEW j \in DOMAIN jobs' PROVE jobs'[j] = NotYet \/ jobs'[j] = Outcome(j)
      BY <3>1, <3>3 DEF JobsInv
    <3> QED BY <3>1, <3>2, <3>3, <3>4 DEF JobsInv
  <2>3. CASE UNCHANGED vars
    <3>1. spec' = spec /\ verdict' = verdict /\ jobs' = jobs
      BY <2>3 DEF vars, specVars
    <3> QED BY <3>1 DEF JobsInv, Outcome, Conflicting, RequestOf, ExecutionNode, RunNode
  <2> QED BY <2>1, <2>2, <2>3 DEF Next
<1> QED BY <1>1, <1>2, PTL DEF Spec

\* Where the node of an entry comes from, and which test it has passed or failed.
LEMMA OutcomeFacts ==
  ASSUME JobsInv, NEW i \in DOMAIN jobs
  PROVE  /\ Kind(jobs[i]) = "refused" => RequestRefused(RequestOf(i))
         /\ Created(i) => /\ ~EnvKeysCollide(ExecutionNode(i).inputs)
                          /\ ~Conflicting(i)
                          /\ jobs[i].job = K8sJob(RequestOf(i))
<1> DEFINE A == EnvKeysCollide(ExecutionNode(i).inputs)
           B == RequestRefused(RequestOf(i))
           C == Conflicting(i)
           J == K8sJob(RequestOf(i))
<1>1. \/ jobs[i] = NotYet
      \/ jobs[i] = IF A THEN [kind |-> "collision"] ELSE IF C THEN [kind |-> "conflict"]
                   ELSE IF B THEN [kind |-> "refused"] ELSE [kind |-> "job", job |-> J]
  BY DEF JobsInv, Outcome
<1> HIDE DEF A, B, C, J
<1>2. /\ Kind(jobs[i]) = "refused" => B
      /\ Created(i) => ~A /\ ~C /\ jobs[i].job = J
  BY <1>1 DEF Created, Kind, NotYet
<1> QED BY <1>2 DEF A, B, C, J

\* The submitted node i behind a Job, and what was found of it before it was made.
LEMMA CreatedFacts ==
  ASSUME JobsInv, NEW i \in DOMAIN jobs, Created(i)
  PROVE  LET n == spec.nodes[i]
         IN  /\ IsNode(n)
             /\ ~EnvKeysCollide(n.inputs)
             /\ ~PlacementConflicts(Cloned(PlacementOf(i)), n.inputs)
             /\ JobOf(i).suspend = (\E l \in RequestLabels(n) : l[1] = "queue")
             /\ JobOf(i).host = NodeSelector(Placed(i))
             /\ JobOf(i).preferred = Placed(i).preferred
             /\ JobOf(i).podGrace = PodGrace(n.grace)
             /\ JobOf(i).contract = Contract(n, EnvOf(n.inputs))
             /\ JobOf(i).env = ContainerEnv(n, EnvOf(n.inputs))
             /\ JobOf(i).wrapped = Wrapped(n)
             /\ JobOf(i).contracted = (HasContract(n) \/ n.ownContract)
<1> DEFINE n   == spec.nodes[i]
           req == RequestOf(i)
<1>1. IsNode(n)
  BY NodeAssumption DEF JobsInv
<1>2. /\ ~EnvKeysCollide(ExecutionNode(i).inputs) /\ ~Conflicting(i)
      /\ jobs[i].job = K8sJob(req)
  BY OutcomeFacts
<1>3. /\ ExecutionNode(i).placement = Cloned(PlacementOf(i))
      /\ ExecutionNode(i).inputs = n.inputs
  BY <1>1, ExecutionNodeFacts, Zenon DEF ExecutionNode, Alike
<1>4. /\ ~EnvKeysCollide(n.inputs)
      /\ ~PlacementConflicts(Cloned(PlacementOf(i)), n.inputs)
  BY <1>2, <1>3, Zenon DEF Conflicting
<1>5. Requested(i, req)
  BY <1>1, RequestFacts
<1> HIDE DEF req
<1>6. /\ K8sJob(req).suspend = (\E l \in req.labels : l[1] = "queue")
      /\ K8sJob(req).host = NodeSelector(req.placement)
      /\ K8sJob(req).preferred = req.placement.preferred
      /\ K8sJob(req).podGrace = PodGrace(req.grace)
      /\ K8sJob(req).contract = req.contract
      /\ K8sJob(req).env = req.env
      /\ K8sJob(req).wrapped = req.wrapped
      /\ K8sJob(req).contracted = req.contracted
  BY K8sJobFacts
<1> QED BY <1>1, <1>2, <1>4, <1>5, <1>6, Zenon DEF JobOf, Requested

\* validateK8sJobCreateRequest, after the fence, refuses a node that passed
\* validation only for white space in an identifier's place or the value of a
\* label, and never for the placement that cloneNode and the answers left it.
THEOREM RefusalsUnforeseen == Spec => []RefusalIsUnforeseen
<1>1. JobsInv => RefusalIsUnforeseen
  <2> SUFFICES ASSUME JobsInv, NEW i \in DOMAIN jobs, Kind(jobs[i]) = "refused"
               PROVE  \/ spec.runId = BlankId \/ spec.nodes[i].id = BlankId
                      \/ spec.nodes[i].queue = "bad" \/ spec.nodes[i].label = "bad"
    BY DEF RefusalIsUnforeseen
  <2> DEFINE n   == spec.nodes[i]
             req == RequestOf(i)
  <2>1. RequestRefused(req)
    BY OutcomeFacts
  <2>2. IsNode(n)
    BY NodeAssumption DEF JobsInv
  <2>3. Requested(i, req)
    BY <2>2, RequestFacts
  <2> HIDE DEF req
  <2>4. /\ req.runId = spec.runId /\ req.nodeId = n.id
        /\ req.placement = Placed(i) /\ req.labels = RequestLabels(n)
    BY <2>3, Zenon DEF Requested
  <2>5. ~ClashingPlacement(req.placement)
    BY <2>4, PlacedAgrees DEF Placed
  <2>6. CASE \E l \in RequestLabels(n) : l[2] = "bad"
    <3>1. PICK l \in RequestLabels(n) : l[2] = "bad"
      BY <2>6
    <3>2. l = <<"queue", n.queue>> \/ l = <<"user", n.label>>
      BY DEF RequestLabels
    <3> QED BY <3>1, <3>2
  <2> QED BY <2>1, <2>4, <2>5, <2>6, Zenon DEF RequestRefused
<1> QED BY <1>1, JobsHold, PTL

\* The Pod's grace period covers the helper's, for every number of milliseconds.
LEMMA PodGraceCovers ==
  ASSUME NEW ms \in Int
  PROVE  PodGrace(ms) * 1000 >= ms + Margin * 1000
<1>1. CASE ms <= 0
  BY <1>1 DEF PodGrace, DefaultPodGrace, Margin
<1>2. CASE ms > 0
  <2> DEFINE q == ms \div 1000
             r == ms % 1000
  <2>1. q \in Int /\ r \in 0 .. 999 /\ ms = 1000 * q + r
    OBVIOUS
  <2>2. PodGrace(ms) = q + (IF r # 0 THEN 1 ELSE 0) + 5
    BY <1>2 DEF PodGrace, Margin
  <2> HIDE DEF q, r
  <2>3. CASE r = 0
    BY <2>1, <2>2, <2>3 DEF Margin
  <2>4. CASE r # 0
    BY <2>1, <2>2, <2>4 DEF Margin
  <2> QED BY <2>3, <2>4
<1> QED BY <1>1, <1>2

\* Every Job that buildK8sJob makes is where the selector and the answers want it,
\* is suspended exactly with a queue, and gives the helper its grace period.
THEOREM JobsHonourNodes == Spec => []JobHonoursNode
<1>1. JobsInv => JobHonoursNode
  <2> SUFFICES ASSUME JobsInv, NEW i \in DOMAIN jobs, Created(i)
               PROVE  /\ RunsWhereTold(i)
                      /\ JobOf(i).suspend <=> spec.nodes[i].queue # "none"
                      /\ OutlivesHelper(i)
    BY DEF JobHonoursNode
  <2> DEFINE n == spec.nodes[i]
  <2>1. /\ IsNode(n)
        /\ ~PlacementConflicts(Cloned(PlacementOf(i)), n.inputs)
        /\ JobOf(i).suspend = (\E l \in RequestLabels(n) : l[1] = "queue")
        /\ JobOf(i).host = NodeSelector(Placed(i))
        /\ JobOf(i).preferred = Placed(i).preferred
        /\ JobOf(i).podGrace = PodGrace(n.grace)
    BY CreatedFacts, Zenon
  <2>2. RunsWhereTold(i)
    BY <2>1, HintFacts, Zenon DEF RunsWhereTold, Placed
  <2>3. JobOf(i).suspend <=> n.queue # "none"
    <3>1. (\E l \in RequestLabels(n) : l[1] = "queue") <=> n.queue # "none"
      <4>1. CASE n.queue = "none"
        <5>1. \A l \in RequestLabels(n) : l = <<"user", n.label>>
          BY <4>1 DEF RequestLabels
        <5> QED BY <4>1, <5>1
      <4>2. CASE n.queue # "none"
        <5>1. <<"queue", n.queue>> \in RequestLabels(n)
          BY <4>2 DEF RequestLabels
        <5> QED BY <4>2, <5>1
      <4> QED BY <4>1, <4>2
    <3> QED BY <2>1, <3>1, Zenon
  <2>4. JobOf(i).podGrace * 1000 >= n.grace + Margin * 1000
    <3>1. n.grace \in Int
      BY <2>1 DEF IsNode
    <3>2. PodGrace(n.grace) * 1000 >= n.grace + Margin * 1000
      BY <3>1, PodGraceCovers
    <3> DEFINE g == n.grace
               pg == JobOf(i).podGrace
    <3>3. pg = PodGrace(g) /\ PodGrace(g) * 1000 >= g + Margin * 1000
      BY <2>1, <3>2
    <3> HIDE DEF g, pg
    <3>4. pg * 1000 >= g + Margin * 1000
      BY <3>3
    <3> QED BY <3>4 DEF g, pg
  <2>5. OutlivesHelper(i)
    BY <2>4 DEF OutlivesHelper
  <2> QED BY <2>2, <2>3, <2>5
<1> QED BY <1>1, JobsHold, PTL

-----------------------------------------------------------------------------
(* The variables of an input and the contract                              *)

\* The variable of suffix s of a name b, as one of the name c: only the path of a
\* name ending in _NODE has a spelling that another name has too.
Spells(b, s, c) ==
  /\ Key(b, s) = <<c, "MODE">> <=> b = c /\ s = "MODE"
  /\ Key(b, s) = <<c, "URI">> <=> b = c /\ s = "URI"
  /\ Key(b, s) = <<c, "LOCAL_PATH">> <=> b = c /\ s = "LOCAL_PATH" /\ ~b.node
  /\ Key(b, s) = <<c, "NODE_LOCAL_PATH">> <=>
       \/ b = c /\ s = "NODE_LOCAL_PATH"
       \/ s = "LOCAL_PATH" /\ b.node /\ c = [b EXCEPT !.node = FALSE]

\* Which input can have written which variable.
LEMMA KeyFacts ==
  ASSUME NEW b \in Bases, NEW c, NEW s \in Suffixes
  PROVE  Spells(b, s, c)
<1> USE DEF Spells
<1>1. s \in {"MODE", "URI", "LOCAL_PATH", "NODE_LOCAL_PATH"}
  BY DEF Suffixes
<1>2. CASE b.node /\ s = "LOCAL_PATH"
  <2>1. Key(b, s) = <<[b EXCEPT !.node = FALSE], "NODE_LOCAL_PATH">>
    BY <1>2 DEF Key
  <2> DEFINE e == [b EXCEPT !.node = FALSE]
  <2> HIDE DEF e
  <2>2. \A t : Key(b, s) = <<c, t>> <=> e = c /\ "NODE_LOCAL_PATH" = t
    BY <2>1 DEF e
  <2>3. s # "MODE" /\ s # "URI" /\ s # "NODE_LOCAL_PATH" /\ b.node /\ s = "LOCAL_PATH"
    BY <1>2
  <2> QED BY <2>2, <2>3 DEF e
<1>3. CASE ~(b.node /\ s = "LOCAL_PATH")
  <2>1. Key(b, s) = <<b, s>>
    BY <1>3 DEF Key
  <2>2. \A t : Key(b, s) = <<c, t>> <=> b = c /\ s = t
    BY <2>1
  <2> QED BY <1>1, <1>3, <2>2
<1> QED BY <1>2, <1>3

\* What one input writes: each of its variables carries its name and its mode.
LEMMA InputEnvFacts ==
  ASSUME NEW x \in Bindings
  PROVE  /\ \A k : k \in DOMAIN InputEnv(x) <=> \E s \in Written(x) : Key(x.base, s) = k
         /\ \A k \in DOMAIN InputEnv(x) : /\ InputEnv(x)[k].of = x.base
                                          /\ InputEnv(x)[k].mode = x.mode
         /\ x.base \in Bases /\ Written(x) \subseteq Suffixes
         /\ "MODE" \in Written(x) /\ "URI" \in Written(x)
         /\ "LOCAL_PATH" \in Written(x) <=> x.local
         /\ "NODE_LOCAL_PATH" \in Written(x) <=> x.nodeLocal
<1>1. \A k : k \in DOMAIN InputEnv(x) <=> \E s \in Written(x) : Key(x.base, s) = k
  BY DEF InputEnv
<1>2. ASSUME NEW k \in DOMAIN InputEnv(x)
      PROVE  InputEnv(x)[k].of = x.base /\ InputEnv(x)[k].mode = x.mode
  BY <1>2, Zenon DEF InputEnv
<1>3. x.base \in Bases
  BY DEF Bindings
<1>4. /\ Written(x) \subseteq Suffixes
      /\ "MODE" \in Written(x) /\ "URI" \in Written(x)
  BY DEF Written, Suffixes
<1>5. "LOCAL_PATH" \in Written(x) <=> x.local
  BY DEF Written
<1>6. "NODE_LOCAL_PATH" \in Written(x) <=> x.nodeLocal
  BY DEF Written
<1> QED BY <1>1, <1>2, <1>3, <1>4, <1>5, <1>6

\* When no two inputs share a name, what is read of a name in the whole environment
\* is what the input of that name wrote, and nothing has a mode that no input has.
LEMMA ReadFacts ==
  ASSUME NEW inputs \in Seq(Bindings), ~EnvKeysCollide(inputs)
  PROVE  LET env == EnvOf(inputs)
         IN  /\ \A k \in DOMAIN inputs :
                  LET b == inputs[k].base
                  IN  /\ <<b, "MODE">> \in DOMAIN env /\ <<b, "URI">> \in DOMAIN env
                      /\ Read(env, b, "MODE").mode = inputs[k].mode
                      /\ Read(env, b, "URI").of = b
                      /\ ~Ambiguous(inputs[k], inputs) =>
                           /\ Read(env, b, "LOCAL_PATH").of = b <=> inputs[k].local
                           /\ Read(env, b, "NODE_LOCAL_PATH").of = b <=> inputs[k].nodeLocal
             /\ \A b : Read(env, b, "MODE").mode # "none" =>
                  \E k \in DOMAIN inputs : inputs[k].base = b
<1> DEFINE env == EnvOf(inputs)
<1>1. Len(inputs) \in Nat /\ DOMAIN inputs = 1 .. Len(inputs)
  OBVIOUS
<1>2. /\ \A x : x \in DOMAIN env <=> \E j \in DOMAIN inputs : x \in DOMAIN InputEnv(inputs[j])
      /\ \A x \in DOMAIN env : \E j \in DOMAIN inputs : /\ x \in DOMAIN InputEnv(inputs[j])
                                                        /\ env[x] = InputEnv(inputs[j])[x]
  BY <1>1, EnvOfFacts
<1>3. \A j \in DOMAIN inputs : inputs[j] \in Bindings
  OBVIOUS
<1>4. \A j, k \in DOMAIN inputs : inputs[j].base = inputs[k].base => j = k
  BY DEF EnvKeysCollide
<1> HIDE DEF env
<1>5. \A x : x \in DOMAIN env <=> \E j \in DOMAIN inputs :
                                    \E s \in Written(inputs[j]) : Key(inputs[j].base, s) = x
  BY <1>2, <1>3, InputEnvFacts
<1>6. \A x \in DOMAIN env : \E j \in DOMAIN inputs :
        /\ \E s \in Written(inputs[j]) : Key(inputs[j].base, s) = x
        /\ env[x].of = inputs[j].base /\ env[x].mode = inputs[j].mode
  <2> TAKE x \in DOMAIN env
  <2>1. PICK j \in DOMAIN inputs : x \in DOMAIN InputEnv(inputs[j])
                                   /\ env[x] = InputEnv(inputs[j])[x]
    BY <1>2
  <2>2. inputs[j] \in Bindings
    BY <1>3
  <2> QED BY <2>1, <2>2, InputEnvFacts
<1>7. \A j \in DOMAIN inputs : /\ inputs[j].base \in Bases
                               /\ Written(inputs[j]) \subseteq Suffixes
                               /\ "MODE" \in Written(inputs[j]) /\ "URI" \in Written(inputs[j])
                               /\ "LOCAL_PATH" \in Written(inputs[j]) <=> inputs[j].local
                               /\ "NODE_LOCAL_PATH" \in Written(inputs[j]) <=> inputs[j].nodeLocal
  BY <1>3, InputEnvFacts
<1>k. ASSUME NEW j \in DOMAIN inputs, NEW s \in Written(inputs[j]), NEW c
      PROVE  LET b == inputs[j].base
             IN  /\ Key(b, s) = <<c, "MODE">> => b = c
                 /\ Key(b, s) = <<c, "URI">> => b = c
                 /\ Key(b, s) = <<c, "LOCAL_PATH">> => b = c /\ s = "LOCAL_PATH"
                 /\ Key(b, s) = <<c, "NODE_LOCAL_PATH">> =>
                      \/ b = c /\ s = "NODE_LOCAL_PATH"
                      \/ b.node /\ c = [b EXCEPT !.node = FALSE]
  <2> DEFINE b == inputs[j].base
  <2>1. b \in Bases /\ s \in Suffixes
    BY <1>7
  <2> HIDE DEF b
  <2>2. /\ Key(b, s) = <<c, "MODE">> => b = c
        /\ Key(b, s) = <<c, "URI">> => b = c
        /\ Key(b, s) = <<c, "LOCAL_PATH">> => b = c /\ s = "LOCAL_PATH"
        /\ Key(b, s) = <<c, "NODE_LOCAL_PATH">> =>
             \/ b = c /\ s = "NODE_LOCAL_PATH"
             \/ b.node /\ c = [b EXCEPT !.node = FALSE]
    <3>1. Spells(b, s, c)
      BY <2>1, KeyFacts
    <3> QED BY <3>1, Zenon DEF Spells
  <2> QED BY <2>2, Zenon DEF b
<1>8. ASSUME NEW k \in DOMAIN inputs
      PROVE  LET b == inputs[k].base
             IN  /\ <<b, "MODE">> \in DOMAIN env /\ <<b, "URI">> \in DOMAIN env
                 /\ Read(env, b, "MODE").mode = inputs[k].mode
                 /\ Read(env, b, "URI").of = b
                 /\ ~Ambiguous(inputs[k], inputs) =>
                      /\ Read(env, b, "LOCAL_PATH").of = b <=> inputs[k].local
                      /\ Read(env, b, "NODE_LOCAL_PATH").of = b <=> inputs[k].nodeLocal
  <2> DEFINE b == inputs[k].base
  <2>0. b \in Bases /\ b # NoBase
    <3>1. b \in Bases
      BY <1>7
    <3> HIDE DEF b
    <3>2. b.name # ""
      BY <3>1 DEF Bases
    <3>3. NoBase.name = ""
      BY DEF NoBase
    <3> QED BY <3>1, <3>2, <3>3
  <2>a. Absent.of = NoBase
    BY DEF Absent
  <2>1. <<b, "MODE">> \in DOMAIN env /\ env[<<b, "MODE">>].mode = inputs[k].mode
    <3>1. Key(b, "MODE") = <<b, "MODE">>
      BY <2>0, KeyFacts DEF Suffixes, Spells
    <3>2. <<b, "MODE">> \in DOMAIN env
      BY <1>5, <1>7, <3>1
    <3>3. PICK j \in DOMAIN inputs :
            /\ \E s \in Written(inputs[j]) : Key(inputs[j].base, s) = <<b, "MODE">>
            /\ env[<<b, "MODE">>].mode = inputs[j].mode
      BY <1>6, <3>2
    <3>s. PICK s \in Written(inputs[j]) : Key(inputs[j].base, s) = <<b, "MODE">>
      BY <3>3
    <3>4. inputs[j].base = b
      BY <1>k, <3>s, Zenon
    <3> QED BY <1>4, <3>2, <3>3, <3>4
  <2>2. <<b, "URI">> \in DOMAIN env /\ env[<<b, "URI">>].of = b
    <3>1. Key(b, "URI") = <<b, "URI">>
      BY <2>0, KeyFacts DEF Suffixes, Spells
    <3>2. <<b, "URI">> \in DOMAIN env
      BY <1>5, <1>7, <3>1
    <3>3. PICK j \in DOMAIN inputs :
            /\ \E s \in Written(inputs[j]) : Key(inputs[j].base, s) = <<b, "URI">>
            /\ env[<<b, "URI">>].of = inputs[j].base
      BY <1>6, <3>2
    <3>s. PICK s \in Written(inputs[j]) : Key(inputs[j].base, s) = <<b, "URI">>
      BY <3>3
    <3>4. inputs[j].base = b
      BY <1>k, <3>s, Zenon
    <3> QED BY <3>2, <3>3, <3>4
  <2>3. ASSUME ~Ambiguous(inputs[k], inputs)
        PROVE  Read(env, b, "LOCAL_PATH").of = b <=> inputs[k].local
    <3> DEFINE x == <<b, "LOCAL_PATH">>
    <3>1. ~b.node
      BY <2>3 DEF Ambiguous
    <3>2. CASE inputs[k].local
      <4>1. Key(b, "LOCAL_PATH") = x
        BY <2>0, <3>1, KeyFacts DEF Suffixes, Spells
      <4>2. x \in DOMAIN env
        BY <1>5, <1>7, <3>2, <4>1
      <4>3. PICK j \in DOMAIN inputs :
              /\ \E s \in Written(inputs[j]) : Key(inputs[j].base, s) = x
              /\ env[x].of = inputs[j].base
        BY <1>6, <4>2
      <4>4. inputs[j].base = b
        BY <1>k, <4>3, Zenon
      <4>5. Read(env, b, "LOCAL_PATH") = env[x]
        BY <4>2 DEF Read
      <4> QED BY <3>2, <4>3, <4>4, <4>5
    <3>3. CASE ~inputs[k].local
      <4>1. x \notin DOMAIN env
        <5> SUFFICES ASSUME x \in DOMAIN env PROVE FALSE
          OBVIOUS
        <5>1. PICK j \in DOMAIN inputs : \E s \in Written(inputs[j]) : Key(inputs[j].base, s) = x
          BY <1>5
        <5>2. PICK s \in Written(inputs[j]) : Key(inputs[j].base, s) = x
          BY <5>1
        <5>3. inputs[j].base = b /\ s = "LOCAL_PATH"
          BY <1>k, <5>2, Zenon
        <5>4. j = k
          BY <1>4, <5>3
        <5> QED BY <1>7, <3>3, <5>3, <5>4
      <4>2. Read(env, b, "LOCAL_PATH") = Absent
        BY <4>1 DEF Read
      <4> QED BY <2>0, <2>a, <3>3, <4>2
    <3> QED BY <3>2, <3>3
  <2>4. ASSUME ~Ambiguous(inputs[k], inputs)
        PROVE  Read(env, b, "NODE_LOCAL_PATH").of = b <=> inputs[k].nodeLocal
    <3> DEFINE x == <<b, "NODE_LOCAL_PATH">>
    <3>1. ~b.node /\ \A j \in DOMAIN inputs : inputs[j].base # [b EXCEPT !.node = TRUE]
      BY <2>4 DEF Ambiguous
    <3>2. ASSUME NEW j \in DOMAIN inputs, NEW s \in Written(inputs[j]), Key(inputs[j].base, s) = x
          PROVE  j = k /\ s = "NODE_LOCAL_PATH"
      <4> DEFINE c == inputs[j].base
      <4>1. c \in Bases /\ s \in Suffixes
        BY <1>7
      <4>2. \/ c = b /\ s = "NODE_LOCAL_PATH"
            \/ c.node /\ b = [c EXCEPT !.node = FALSE]
        BY <1>k, <3>2, Zenon
      <4>3. ~(c.node /\ b = [c EXCEPT !.node = FALSE])
        <5> SUFFICES ASSUME c.node, b = [c EXCEPT !.node = FALSE] PROVE FALSE
          OBVIOUS
        <5>1. c # [b EXCEPT !.node = TRUE]
          BY <3>1
        <5>2. c = [name |-> c.name, node |-> TRUE] /\ b = [name |-> c.name, node |-> FALSE]
          BY <4>1 DEF Bases
        <5> HIDE DEF b, c
        <5>3. [b EXCEPT !.node = TRUE] = [name |-> c.name, node |-> TRUE]
          BY <5>2
        <5> QED BY <5>1, <5>2, <5>3
      <4> QED BY <1>4, <4>2, <4>3
    <3>3. CASE inputs[k].nodeLocal
      <4>1. Key(b, "NODE_LOCAL_PATH") = x
        BY <2>0, KeyFacts DEF Suffixes, Spells
      <4>2. x \in DOMAIN env
        BY <1>5, <1>7, <3>3, <4>1
      <4>3. PICK j \in DOMAIN inputs :
              /\ \E s \in Written(inputs[j]) : Key(inputs[j].base, s) = x
              /\ env[x].of = inputs[j].base
        BY <1>6, <4>2
      <4>4. j = k
        BY <3>2, <4>3
      <4>5. Read(env, b, "NODE_LOCAL_PATH") = env[x]
        BY <4>2 DEF Read
      <4> QED BY <3>3, <4>3, <4>4, <4>5
    <3>4. CASE ~inputs[k].nodeLocal
      <4>1. x \notin DOMAIN env
        <5> SUFFICES ASSUME x \in DOMAIN env PROVE FALSE
          OBVIOUS
        <5>1. PICK j \in DOMAIN inputs : \E s \in Written(inputs[j]) : Key(inputs[j].base, s) = x
          BY <1>5
        <5>2. "NODE_LOCAL_PATH" \in Written(inputs[k])
          BY <3>2, <5>1
        <5> QED BY <1>7, <3>4, <5>2
      <4>2. Read(env, b, "NODE_LOCAL_PATH") = Absent
        BY <4>1 DEF Read
      <4> QED BY <2>0, <2>a, <3>4, <4>2
    <3> QED BY <3>3, <3>4
  <2>5. Read(env, b, "MODE") = env[<<b, "MODE">>] /\ Read(env, b, "URI") = env[<<b, "URI">>]
    BY <2>1, <2>2 DEF Read
  <2> QED BY <2>1, <2>2, <2>3, <2>4, <2>5
<1>9. ASSUME NEW b, Read(env, b, "MODE").mode # "none"
      PROVE  \E k \in DOMAIN inputs : inputs[k].base = b
  <2>1. <<b, "MODE">> \in DOMAIN env
    BY <1>9 DEF Read, Absent
  <2>2. PICK j \in DOMAIN inputs :
          \E s \in Written(inputs[j]) : Key(inputs[j].base, s) = <<b, "MODE">>
    BY <1>5, <2>1
  <2> QED BY <1>k, <2>2, Zenon
<1> QED BY <1>8, <1>9 DEF env

\* What buildNodeContractInputs reads of one name.
Entry(env, b) ==
  [name |-> b, mode |-> Read(env, b, "MODE").mode, uri |-> Read(env, b, "URI"),
   local |-> Read(env, b, "LOCAL_PATH"), nodeLocal |-> Read(env, b, "NODE_LOCAL_PATH")]

\* The entries of a contract are those of the inputs to be materialized.
LEMMA ContractFacts ==
  ASSUME NEW inputs \in Seq(Bindings), ~EnvKeysCollide(inputs)
  PROVE  LET env == EnvOf(inputs)
         IN  /\ \A c \in ContractInputs(env) :
                  c = Entry(env, c.name)
                  /\ \E k \in DOMAIN inputs : inputs[k].mode # "none" /\ c.name = inputs[k].base
             /\ \A k \in DOMAIN inputs : inputs[k].mode # "none" =>
                  \E c \in ContractInputs(env) : c.name = inputs[k].base
<1> DEFINE env == EnvOf(inputs)
<1>1. /\ \A k \in DOMAIN inputs : /\ <<inputs[k].base, "MODE">> \in DOMAIN env
                                  /\ Read(env, inputs[k].base, "MODE").mode = inputs[k].mode
      /\ \A b : Read(env, b, "MODE").mode # "none" => \E k \in DOMAIN inputs : inputs[k].base = b
  BY ReadFacts, Zenon
<1> HIDE DEF env
<1>2. ContractInputs(env) = {c \in {Entry(env, b) : b \in {x[1] : x \in DOMAIN env}} :
                               c.mode # "none"}
  BY Zenon DEF ContractInputs, Entry
<1>3. \A b : Entry(env, b).name = b /\ Entry(env, b).mode = Read(env, b, "MODE").mode
  BY Zenon DEF Entry
<1>4. ASSUME NEW c \in ContractInputs(env)
      PROVE  c = Entry(env, c.name)
             /\ \E k \in DOMAIN inputs : inputs[k].mode # "none" /\ c.name = inputs[k].base
  <2>1. PICK b : c = Entry(env, b) /\ c.mode # "none"
    BY <1>2, <1>4
  <2>2. c.name = b /\ Read(env, b, "MODE").mode # "none"
    BY <1>3, <2>1
  <2>3. PICK k \in DOMAIN inputs : inputs[k].base = b
    BY <1>1, <2>2
  <2>4. inputs[k].mode # "none"
    BY <1>1, <2>2, <2>3
  <2> QED BY <2>1, <2>2, <2>3, <2>4
<1>5. ASSUME NEW k \in DOMAIN inputs, inputs[k].mode # "none"
      PROVE  \E c \in ContractInputs(env) : c.name = inputs[k].base
  <2> DEFINE b == inputs[k].base
             x == <<b, "MODE">>
  <2>1. x \in DOMAIN env /\ x[1] = b
    BY <1>1
  <2>2. b \in {y[1] : y \in DOMAIN env}
    BY <2>1, Zenon
  <2>3. Entry(env, b).mode # "none" /\ Entry(env, b).name = b
    BY <1>1, <1>3, <1>5
  <2> HIDE DEF b
  <2>4. Entry(env, b) \in {Entry(env, d) : d \in {y[1] : y \in DOMAIN env}}
    BY <2>2
  <2>5. Entry(env, b) \in ContractInputs(env)
    BY <1>2, <2>3, <2>4
  <2> QED BY <2>3, <2>5 DEF b
<1> QED BY <1>4, <1>5 DEF env

\* The contract injectOutputContractEnv writes says of every input what that input
\* said, however many inputs there are and in whatever order they were written.
THEOREM ContractsFaithful == Spec => []ContractIsFaithful
<1>1. JobsInv => ContractIsFaithful
  <2> SUFFICES ASSUME JobsInv, NEW i \in DOMAIN jobs, Created(i),
                      HasContract(spec.nodes[i]), ~spec.nodes[i].ownContract
               PROVE
                 LET inputs == spec.nodes[i].inputs
                     needed == {k \in DOMAIN inputs : inputs[k].mode # "none"}
                 IN  /\ {c.name : c \in JobOf(i).contract} = {inputs[k].base : k \in needed}
                     /\ \A k \in needed : \A c \in JobOf(i).contract :
                          c.name = inputs[k].base =>
                            /\ c.mode = inputs[k].mode
                            /\ c.uri.of = c.name
                            /\ ~Ambiguous(inputs[k], inputs) =>
                                 /\ c.local.of = c.name <=> inputs[k].local
                                 /\ c.nodeLocal.of = c.name <=> inputs[k].nodeLocal
    BY Zenon DEF ContractIsFaithful
  <2> DEFINE inputs == spec.nodes[i].inputs
             needed == {k \in DOMAIN inputs : inputs[k].mode # "none"}
             env == EnvOf(inputs)
  <2>1. IsNode(spec.nodes[i]) /\ ~EnvKeysCollide(inputs)
        /\ JobOf(i).contract = Contract(spec.nodes[i], env)
    BY CreatedFacts, Zenon
  <2>2. inputs \in Seq(Bindings)
    BY <2>1 DEF IsNode
  <2>3. JobOf(i).contract = ContractInputs(env)
    BY <2>1 DEF Contract
  <2> HIDE DEF inputs
  <2>4. /\ \A c \in ContractInputs(env) :
             c = Entry(env, c.name)
             /\ \E k \in DOMAIN inputs : inputs[k].mode # "none" /\ c.name = inputs[k].base
        /\ \A k \in DOMAIN inputs : inputs[k].mode # "none" =>
             \E c \in ContractInputs(env) : c.name = inputs[k].base
    BY <2>1, <2>2, ContractFacts, Zenon
  <2>5. {c.name : c \in JobOf(i).contract} = {inputs[k].base : k \in needed}
    BY <2>3, <2>4
  <2>6. ASSUME NEW k \in needed, NEW c \in JobOf(i).contract, c.name = inputs[k].base
        PROVE  /\ c.mode = inputs[k].mode
               /\ c.uri.of = c.name
               /\ ~Ambiguous(inputs[k], inputs) =>
                    /\ c.local.of = c.name <=> inputs[k].local
                    /\ c.nodeLocal.of = c.name <=> inputs[k].nodeLocal
    <3> DEFINE b == inputs[k].base
    <3>1. k \in DOMAIN inputs /\ c.name = b /\ c = Entry(env, b)
      BY <2>3, <2>4, <2>6
    <3>2. /\ c.mode = Read(env, b, "MODE").mode /\ c.uri = Read(env, b, "URI")
          /\ c.local = Read(env, b, "LOCAL_PATH") /\ c.nodeLocal = Read(env, b, "NODE_LOCAL_PATH")
      <4> DEFINE e == Entry(env, b)
      <4>1. /\ e.mode = Read(env, b, "MODE").mode /\ e.uri = Read(env, b, "URI")
            /\ e.local = Read(env, b, "LOCAL_PATH")
            /\ e.nodeLocal = Read(env, b, "NODE_LOCAL_PATH")
        BY Zenon DEF Entry
      <4> HIDE DEF b, env, e
      <4>2. c = e
        BY <3>1 DEF e
      <4> QED BY <4>1, <4>2
    <3>3. /\ Read(env, b, "MODE").mode = inputs[k].mode
          /\ Read(env, b, "URI").of = b
          /\ ~Ambiguous(inputs[k], inputs) =>
               /\ Read(env, b, "LOCAL_PATH").of = b <=> inputs[k].local
               /\ Read(env, b, "NODE_LOCAL_PATH").of = b <=> inputs[k].nodeLocal
      BY <2>1, <2>2, <3>1, ReadFacts, Zenon
    <3> HIDE DEF b, env
    <3> QED BY <3>1, <3>2, <3>3, Zenon
  <2> QED BY <2>5, <2>6, Zenon DEF inputs
<1> QED BY <1>1, JobsHold, PTL

\* No input is lost between the resolution and the container, and no command runs
\* under the helper without a contract because injectOutputContractEnv and
\* manifestExportMode disagree.
THEOREM InputsReachNodes == Spec => []InputsReachNode
<1>1. JobsInv => InputsReachNode
  <2> SUFFICES ASSUME JobsInv, NEW i \in DOMAIN jobs, Created(i)
               PROVE  LET n == spec.nodes[i]
                      IN  /\ \A k \in DOMAIN n.inputs :
                               \/ n.inputs[k].mode = "none" \/ n.ownContract
                               \/ <<n.inputs[k].base, "URI">> \in DOMAIN JobOf(i).env
                               \/ \E c \in JobOf(i).contract : c.name = n.inputs[k].base
                          /\ JobOf(i).wrapped => JobOf(i).contracted \/ n.outputs = "blank"
    BY Zenon DEF InputsReachNode
  <2> DEFINE n == spec.nodes[i]
             inputs == n.inputs
             env == EnvOf(inputs)
  <2>1. /\ IsNode(n) /\ ~EnvKeysCollide(inputs)
        /\ JobOf(i).contract = Contract(n, env)
        /\ JobOf(i).env = ContainerEnv(n, env)
        /\ JobOf(i).wrapped = Wrapped(n)
        /\ JobOf(i).contracted = (HasContract(n) \/ n.ownContract)
    BY CreatedFacts, Zenon
  <2>2. inputs \in Seq(Bindings) /\ n.outputs \in {"none", "blank", "named"}
    BY <2>1 DEF IsNode
  <2>3. JobOf(i).wrapped => JobOf(i).contracted \/ n.outputs = "blank"
    <3>1. Wrapped(n) => HasContract(n) \/ n.outputs = "blank"
      BY <2>2 DEF Wrapped, UsesHelper, HasContract
    <3> QED BY <2>1, <3>1, Zenon
  <2>4. ASSUME NEW k \in DOMAIN inputs, inputs[k].mode # "none", ~n.ownContract
        PROVE  \/ <<inputs[k].base, "URI">> \in DOMAIN JobOf(i).env
               \/ \E c \in JobOf(i).contract : c.name = inputs[k].base
    <3>1. CASE HasContract(n)
      <4>1. JobOf(i).contract = ContractInputs(env)
        BY <2>1, <2>4, <3>1, Zenon DEF Contract
      <4>2. \E c \in ContractInputs(env) : c.name = inputs[k].base
        BY <2>1, <2>2, <2>4, ContractFacts, Zenon
      <4> QED BY <4>1, <4>2, Zenon
    <3>2. CASE ~HasContract(n)
      <4>1. JobOf(i).env = env
        BY <2>1, <3>2, Zenon DEF ContainerEnv
      <4>2. <<inputs[k].base, "URI">> \in DOMAIN env
        BY <2>1, <2>2, <2>4, ReadFacts, Zenon
      <4> QED BY <4>1, <4>2, Zenon
    <3> QED BY <3>1, <3>2
  <2> QED BY <2>3, <2>4, Zenon
<1> QED BY <1>1, JobsHold, PTL
=============================================================================
