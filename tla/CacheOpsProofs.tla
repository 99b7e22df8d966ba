--------------------------- MODULE CacheOpsProofs ---------------------------
(***************************************************************************)
(* What each member function of class Cache preserves and bounds, for any  *)
(* state of the containers.  The lemmas speak of one helper at a time, so  *)
(* that Cache (all helpers of a put in one step) and SharedCache (one      *)
(* helper per step) both rest on them.                                     *)
(***************************************************************************)
EXTENDS CacheOps, SequenceTheorems, FiniteSetTheorems, TLAPS

-----------------------------------------------------------------------------
(* Sequences.                                                               *)

\* list::erase at position i: the nodes behind it move up by one.
LEMMA RemoveAtProperties ==
  ASSUME NEW S, NEW s \in Seq(S), NEW i \in 1 .. Len(s)
  PROVE  /\ RemoveAt(s, i) \in Seq(S)
         /\ Len(RemoveAt(s, i)) = Len(s) - 1
         /\ \A j \in 1 .. Len(s) - 1 :
               RemoveAt(s, i)[j] = IF j < i THEN s[j] ELSE s[j + 1]
<1> DEFINE front == SubSeq(s, 1, i - 1)
           back == SubSeq(s, i + 1, Len(s))
<1>1. Len(s) \in Nat /\ \A j \in 1 .. Len(s) : s[j] \in S
  BY ElementOfSeq, LenProperties
<1>2. /\ front \in Seq(S)
      /\ Len(front) = i - 1
      /\ \A j \in 1 .. i - 1 : front[j] = s[j]
  BY <1>1, SubSeqProperties
<1>3. /\ back \in Seq(S)
      /\ Len(back) = Len(s) - i
      /\ \A j \in 1 .. Len(s) - i : back[j] = s[i + j]
  <2>1. \A j \in i + 1 .. Len(s) : s[j] \in S
    BY <1>1
  <2>2. /\ back \in Seq(S)
        /\ Len(back) = IF i + 1 <= Len(s) THEN Len(s) - (i + 1) + 1 ELSE 0
        /\ \A j \in 1 .. Len(s) - (i + 1) + 1 : back[j] = s[(i + 1) + j - 1]
    BY <1>1, <2>1, SubSeqProperties
  <2>. QED  BY <1>1, <2>2
<1> HIDE DEF front, back
<1>4. /\ front \o back \in Seq(S)
      /\ Len(front \o back) = Len(front) + Len(back)
      /\ \A j \in 1 .. Len(front) + Len(back) :
            (front \o back)[j] = IF j <= Len(front) THEN front[j]
                                 ELSE back[j - Len(front)]
  BY <1>2, <1>3, ConcatProperties
<1>5. RemoveAt(s, i) = front \o back
  BY DEF RemoveAt, front, back
<1>6. Len(front) + Len(back) = Len(s) - 1
  BY <1>1, <1>2, <1>3
<1>7. ASSUME NEW j \in 1 .. Len(s) - 1
      PROVE  (front \o back)[j] = IF j < i THEN s[j] ELSE s[j + 1]
  <2>1. (front \o back)[j] = IF j <= i - 1 THEN front[j] ELSE back[j - (i - 1)]
    BY <1>2, <1>4, <1>6
  <2>2. CASE j < i
    BY <1>1, <1>2, <2>1, <2>2
  <2>3. CASE ~(j < i)
    <3>1. j - (i - 1) \in 1 .. Len(s) - i /\ i + (j - (i - 1)) = j + 1
      BY <1>1, <2>3
    <3>. QED  BY <1>1, <1>3, <2>1, <2>3, <3>1
  <2>. QED  BY <2>2, <2>3
<1>. QED  BY <1>4, <1>5, <1>6, <1>7

\* list::pop_back.
LEMMA FrontProperties ==
  ASSUME NEW S, NEW s \in Seq(S), s # <<>>
  PROVE  /\ Front(s) \in Seq(S)
         /\ Len(s) \in Nat \ {0}
         /\ Len(Front(s)) = Len(s) - 1
         /\ \A j \in 1 .. Len(s) - 1 : Front(s)[j] = s[j]
<1>1. Len(s) \in Nat \ {0} /\ \A j \in 1 .. Len(s) - 1 : s[j] \in S
  BY EmptySeq, ElementOfSeq, LenProperties
<1> DEFINE n == Len(s) - 1
<1>2. n \in Nat /\ \A j \in 1 .. n : s[j] \in S
  BY <1>1
<1> HIDE DEF n
<1>3. /\ SubSeq(s, 1, n) \in Seq(S)
      /\ Len(SubSeq(s, 1, n)) = IF 1 <= n THEN n - 1 + 1 ELSE 0
      /\ \A j \in 1 .. n - 1 + 1 : SubSeq(s, 1, n)[j] = s[1 + j - 1]
  BY <1>2, SubSeqProperties
<1>4. Front(s) = SubSeq(s, 1, n)
  BY DEF Front, n
<1> HIDE DEF Front
<1>5. /\ Front(s) \in Seq(S)
      /\ Len(Front(s)) = n
      /\ \A j \in 1 .. n : Front(s)[j] = s[j]
  BY <1>2, <1>3, <1>4
<1>. QED  BY <1>1, <1>5 DEF n

\* list::push_front.
LEMMA PushFrontProperties ==
  ASSUME NEW S, NEW s \in Seq(S), NEW e \in S
  PROVE  /\ <<e>> \o s \in Seq(S)
         /\ Len(<<e>> \o s) = Len(s) + 1
         /\ (<<e>> \o s)[1] = e
         /\ \A j \in 1 .. Len(s) : (<<e>> \o s)[j + 1] = s[j]
<1>1. <<e>> \in Seq(S) /\ Len(<<e>>) = 1 /\ <<e>>[1] = e
  OBVIOUS
<1>2. Len(s) \in Nat
  BY LenProperties
<1>. QED  BY <1>1, <1>2, ConcatProperties

-----------------------------------------------------------------------------
(* The list and its iterators.                                              *)

\* Erasing through the iterator of a linked node takes out that node.
LEMMA ListEraseAt ==
  ASSUME NEW order \in Seq(Node), NEW i \in 1 .. Len(order),
         \A j, k \in DOMAIN order : order[j].id = order[k].id => j = k
  PROVE  ListErase(order, order[i].id) = RemoveAt(order, i)
<1> DEFINE it == order[i].id
           I == {j \in 1 .. Len(order) : order[j].id = it}
<1>1. DOMAIN order = 1 .. Len(order) /\ Len(order) \in Nat
  BY LenProperties
<1>2. I = {i}
  BY <1>1
<1>3. SelectInSeq(order, LAMBDA node : node.id = it) = i
  <2>1. Min(I) = i
    BY <1>2 DEF Min
  <2>. QED  BY <1>2, <2>1 DEF SelectInSeq
<1>. QED  BY <1>3 DEF ListErase, RemoveFirstMatch

-----------------------------------------------------------------------------
(* The maps.                                                                *)

LEMMA MapElements ==
  ASSUME NEW S, NEW f
  PROVE  f \in Maps(S) <=> /\ DOMAIN f \subseteq Keys
                           /\ f \in [DOMAIN f -> S]
BY DEF Maps

LEMMA EraseProperties ==
  ASSUME NEW S, NEW f \in Maps(S), NEW k
  PROVE  /\ Erase(f, k) \in Maps(S)
         /\ DOMAIN Erase(f, k) = DOMAIN f \ {k}
         /\ \A x \in DOMAIN f \ {k} : Erase(f, k)[x] = f[x]
<1>1. DOMAIN f \subseteq Keys /\ f \in [DOMAIN f -> S]
  BY MapElements
<1>2. /\ DOMAIN Erase(f, k) = DOMAIN f \ {k}
      /\ \A x \in DOMAIN f \ {k} : Erase(f, k)[x] = f[x]
      /\ Erase(f, k) \in [DOMAIN f \ {k} -> S]
  BY <1>1 DEF Erase, Restrict
<1>. QED  BY <1>1, <1>2, MapElements

LEMMA AssignProperties ==
  ASSUME NEW S, NEW f \in Maps(S), NEW k \in Keys, NEW v \in S
  PROVE  /\ Assign(f, k, v) \in Maps(S)
         /\ DOMAIN Assign(f, k, v) = DOMAIN f \cup {k}
         /\ Assign(f, k, v)[k] = v
         /\ \A x \in DOMAIN f \ {k} : Assign(f, k, v)[x] = f[x]
<1>1. DOMAIN f \subseteq Keys /\ f \in [DOMAIN f -> S]
  BY MapElements
<1>2. /\ DOMAIN Assign(f, k, v) = DOMAIN f \cup {k}
      /\ Assign(f, k, v)[k] = v
      /\ \A x \in DOMAIN f \ {k} : Assign(f, k, v)[x] = f[x]
      /\ Assign(f, k, v) \in [DOMAIN f \cup {k} -> S]
  BY <1>1 DEF Assign
<1>. QED  BY <1>1, <1>2, MapElements

-----------------------------------------------------------------------------
(* The member functions.                                                    *)

\* evictOldest drops the back node together with its key's entry and iterator,
\* so that what is left is indexed as before.
LEMMA EvictOldestProperties ==
  ASSUME NEW c \in Caches, ListIndexed(c), c.access_order # <<>>
  PROVE  LET oldest == c.access_order[Len(c.access_order)].key
             after == EvictOldest(c)
         IN  /\ oldest \in DOMAIN c.key_to_iterator
             /\ after \in Caches
             /\ ListIndexed(after)
             /\ Stored(after) = Stored(c) \ {oldest}
             /\ DOMAIN after.key_to_iterator = DOMAIN c.key_to_iterator \ {oldest}
             /\ \A k \in Stored(after) : after.cache_map[k] = c.cache_map[k]
             /\ after.access_order = Front(c.access_order)
<1> DEFINE order == c.access_order
           iter == c.key_to_iterator
           oldest == order[Len(order)].key
           after == EvictOldest(c)
           order2 == Front(order)
           iter2 == Erase(iter, oldest)
<1>1. /\ order \in Seq(Node)
      /\ c.cache_map \in Maps(Entries)
      /\ iter \in Maps(Nodes)
  BY DEF Caches
<1>2. after = [cache_map |-> Erase(c.cache_map, oldest),
               access_order |-> order2,
               key_to_iterator |-> iter2]
  BY DEF EvictOldest, Last
<1>3. /\ order2 \in Seq(Node)
      /\ Len(order) \in Nat \ {0}
      /\ Len(order2) = Len(order) - 1
      /\ \A j \in 1 .. Len(order) - 1 : order2[j] = order[j]
  BY <1>1, FrontProperties
<1>4. DOMAIN order = 1 .. Len(order) /\ DOMAIN order2 = 1 .. Len(order) - 1
  BY <1>1, <1>3, LenProperties
<1>5. /\ iter2 \in Maps(Nodes)
      /\ DOMAIN iter2 = DOMAIN iter \ {oldest}
      /\ \A x \in DOMAIN iter \ {oldest} : iter2[x] = iter[x]
  BY <1>1, EraseProperties
<1>6. /\ Erase(c.cache_map, oldest) \in Maps(Entries)
      /\ DOMAIN Erase(c.cache_map, oldest) = Stored(c) \ {oldest}
      /\ \A x \in Stored(c) \ {oldest} :
            Erase(c.cache_map, oldest)[x] = c.cache_map[x]
  <2> HIDE DEF oldest
  <2>1. c.cache_map \in Maps(Entries)
    BY <1>1
  <2>. QED  BY ONLY <2>1, EraseProperties DEF Stored
<1>7. after \in Caches
  BY <1>2, <1>3, <1>5, <1>6 DEF Caches
<1>8. \A i \in 1 .. Len(order) :
         /\ order[i] \in Node
         /\ order[i].key \in DOMAIN iter
         /\ iter[order[i].key] = order[i].id
  BY <1>1, <1>4, ElementOfSeq DEF ListIndexed, NodesIndexed
<1>9. \A i, j \in 1 .. Len(order) : order[i].key = order[j].key => i = j
  BY <1>4, <1>8 DEF ListIndexed, NodesDistinct
<1> HIDE DEF after, order2, iter2, oldest
<1>10. IteratorsValid(after)
  <2> SUFFICES ASSUME NEW k \in DOMAIN iter2
               PROVE  \E i \in DOMAIN order2 : order2[i] = [id |-> iter2[k], key |-> k]
    BY <1>2 DEF IteratorsValid
  <2>1. k \in DOMAIN iter /\ k # oldest /\ iter2[k] = iter[k]
    BY <1>5
  <2>2. PICK i \in 1 .. Len(order) : order[i] = [id |-> iter[k], key |-> k]
    BY <1>4, <2>1 DEF ListIndexed, IteratorsValid
  <2>3. i # Len(order)
    BY <2>1, <2>2 DEF oldest
  <2>4. i \in DOMAIN order2
    BY <1>3, <1>4, <2>3
  <2>5. order2[i] = order[i]
    BY <1>3, <1>4, <2>4
  <2>. QED  BY <2>1, <2>2, <2>4, <2>5
<1>11. NodesIndexed(after)
  <2> SUFFICES ASSUME NEW i \in 1 .. Len(order) - 1
               PROVE  /\ order2[i].key \in DOMAIN iter2
                      /\ iter2[order2[i].key] = order2[i].id
    BY <1>2, <1>4 DEF NodesIndexed
  <2>1. order[i].key # oldest
    BY <1>3, <1>9 DEF oldest
  <2>. QED  BY <1>3, <1>5, <1>8, <2>1
<1>12. NodesDistinct(after)
  BY <1>2, <1>3, <1>4 DEF ListIndexed, NodesDistinct
<1>13. oldest \in DOMAIN iter
  BY <1>3, <1>8 DEF oldest
<1>. QED
  BY <1>2, <1>5, <1>6, <1>7, <1>10, <1>11, <1>12, <1>13
  DEF ListIndexed, Stored, after, oldest, order2

\* Unlinking a key takes its node out of the list, the only one it has, and
\* moves no other node towards the back.
LEMMA UnlinkedProperties ==
  ASSUME NEW c \in Caches, ListIndexed(c), NEW k \in Keys
  PROVE  LET order == c.access_order
             rest == Unlinked(c, k)
         IN  /\ rest \in Seq(Node)
             /\ \A i \in 1 .. Len(rest) :
                   \E j \in 1 .. Len(order) :
                      /\ rest[i] = order[j]
                      /\ i <= j
                      /\ order[j].key # k
             /\ \A j \in 1 .. Len(order) :
                   order[j].key # k => \E i \in 1 .. Len(rest) : rest[i] = order[j]
             /\ \A i, j \in 1 .. Len(rest) : rest[i].id = rest[j].id => i = j
<1> DEFINE order == c.access_order
           iter == c.key_to_iterator
           rest == Unlinked(c, k)
<1>1. order \in Seq(Node) /\ iter \in Maps(Nodes)
  BY DEF Caches
<1>2. Len(order) \in Nat /\ DOMAIN order = 1 .. Len(order)
  BY <1>1, LenProperties
<1>3. \A i \in 1 .. Len(order) :
         /\ order[i].key \in DOMAIN iter
         /\ iter[order[i].key] = order[i].id
  BY <1>2 DEF ListIndexed, NodesIndexed
<1>4. \A i, j \in 1 .. Len(order) : order[i].id = order[j].id => i = j
  BY <1>2 DEF ListIndexed, NodesDistinct
<1>5. CASE k \notin DOMAIN iter
  <2>1. rest = order
    BY <1>5 DEF Unlinked
  <2> HIDE DEF rest, iter
  <2>2. \A i \in 1 .. Len(order) : order[i].key # k
    BY <1>3, <1>5
  <2>. QED  BY <1>1, <1>2, <1>4, <2>1, <2>2 DEF rest
<1>6. CASE k \in DOMAIN iter
  <2>1. PICK p \in 1 .. Len(order) : order[p] = [id |-> iter[k], key |-> k]
    BY <1>2, <1>6 DEF ListIndexed, IteratorsValid
  <2>2. rest = ListErase(order, order[p].id)
    BY <1>6, <2>1 DEF Unlinked
  <2>3. rest = RemoveAt(order, p)
    BY <1>1, <1>2, <1>4, <2>2, ListEraseAt
  <2>4. /\ RemoveAt(order, p) \in Seq(Node)
        /\ Len(RemoveAt(order, p)) = Len(order) - 1
        /\ \A j \in 1 .. Len(order) - 1 :
              RemoveAt(order, p)[j] = IF j < p THEN order[j] ELSE order[j + 1]
    BY <1>1, RemoveAtProperties
  <2> HIDE DEF rest, iter, order
  <2>5. /\ rest \in Seq(Node)
        /\ Len(rest) = Len(order) - 1
        /\ \A j \in 1 .. Len(order) - 1 :
              rest[j] = IF j < p THEN order[j] ELSE order[j + 1]
    BY <2>3, <2>4
  <2>6. \A j \in 1 .. Len(order) : order[j].key = k <=> j = p
    BY <1>3, <1>4, <2>1
  <2>7. ASSUME NEW i \in 1 .. Len(rest)
        PROVE  \E j \in 1 .. Len(order) :
                  rest[i] = order[j] /\ i <= j /\ order[j].key # k
    <3>1. CASE i < p
      BY <1>2, <2>5, <2>6, <3>1
    <3>2. CASE ~(i < p)
      <4>1. i + 1 \in 1 .. Len(order) /\ i + 1 # p /\ i <= i + 1
        BY <1>2, <2>5, <3>2
      <4>2. rest[i] = order[i + 1]
        BY <1>2, <2>5, <3>2
      <4>. QED  BY <2>6, <4>1, <4>2
    <3>. QED  BY <3>1, <3>2
  <2>8. ASSUME NEW j \in 1 .. Len(order), order[j].key # k
        PROVE  \E i \in 1 .. Len(rest) : rest[i] = order[j]
    <3>1. CASE j < p
      BY <1>2, <2>5, <3>1
    <3>2. CASE j > p
      <4>1. j - 1 \in 1 .. Len(rest) /\ ~(j - 1 < p) /\ (j - 1) + 1 = j
        BY <1>2, <2>5, <3>2
      <4>2. rest[j - 1] = order[j]
        BY <2>5, <4>1
      <4>. QED  BY <4>1, <4>2
    <3>3. j # p
      BY <2>6, <2>8
    <3>. QED  BY <3>1, <3>2, <3>3
  <2>9. ASSUME NEW i \in 1 .. Len(rest), NEW j \in 1 .. Len(rest),
               rest[i].id = rest[j].id
        PROVE  i = j
    <3> DEFINE at(x) == IF x < p THEN x ELSE x + 1
    <3>1. \A x \in 1 .. Len(rest) : at(x) \in 1 .. Len(order) /\ rest[x] = order[at(x)]
      BY <1>2, <2>5
    <3> HIDE DEF at
    <3>2. at(i) = at(j)
      BY <1>4, <2>9, <3>1
    <3>. QED  BY <1>2, <2>5, <3>2 DEF at
  <2>. QED  BY <2>5, <2>7, <2>8, <2>9 DEF rest, order
<1>. QED  BY <1>5, <1>6

\* updateAccessOrder puts the key in front, on a node of its own, and leaves
\* the list indexed.
LEMMA UpdateAccessOrderProperties ==
  ASSUME NEW c \in Caches, ListIndexed(c), NEW k \in Keys, NEW n \in FreeNodes(c, k)
  PROVE  LET after == UpdateAccessOrder(c, k, n)
             rest == Unlinked(c, k)
         IN  /\ after \in Caches
             /\ ListIndexed(after)
             /\ after.cache_map = c.cache_map
             /\ DOMAIN after.key_to_iterator = DOMAIN c.key_to_iterator \cup {k}
             /\ Len(after.access_order) = Len(rest) + 1
             /\ after.access_order[1].key = k
             /\ \A i \in 1 .. Len(rest) : after.access_order[i + 1] = rest[i]
<1> DEFINE order == c.access_order
           iter == c.key_to_iterator
           rest == Unlinked(c, k)
           node == [id |-> n, key |-> k]
           order2 == <<node>> \o rest
           iter2 == Assign(iter, k, n)
           after == UpdateAccessOrder(c, k, n)
<1>1. /\ order \in Seq(Node)
      /\ c.cache_map \in Maps(Entries)
      /\ iter \in Maps(Nodes)
  BY DEF Caches
<1>2. n \in Nodes /\ \A i \in DOMAIN rest : rest[i].id # n
  BY DEF FreeNodes
<1>3. after = [cache_map |-> c.cache_map,
               access_order |-> order2,
               key_to_iterator |-> iter2]
  BY DEF UpdateAccessOrder
<1>4. /\ rest \in Seq(Node)
      /\ \A i \in 1 .. Len(rest) :
            \E j \in 1 .. Len(order) :
               rest[i] = order[j] /\ i <= j /\ order[j].key # k
      /\ \A j \in 1 .. Len(order) :
            order[j].key # k => \E i \in 1 .. Len(rest) : rest[i] = order[j]
      /\ \A i, j \in 1 .. Len(rest) : rest[i].id = rest[j].id => i = j
  BY UnlinkedProperties
<1>5. node \in Node
  BY <1>2 DEF Node
<1> HIDE DEF rest, node, iter2, order, after
<1>6. /\ order2 \in Seq(Node)
      /\ Len(order2) = Len(rest) + 1
      /\ order2[1] = node
      /\ \A j \in 1 .. Len(rest) : order2[j + 1] = rest[j]
  BY <1>4, <1>5, PushFrontProperties
<1> HIDE DEF order2
<1>7. /\ Len(rest) \in Nat
      /\ DOMAIN rest = 1 .. Len(rest)
      /\ DOMAIN order2 = 1 .. Len(rest) + 1
      /\ DOMAIN order = 1 .. Len(order)
  BY <1>1, <1>4, <1>6, LenProperties DEF order
<1>8. /\ iter2 \in Maps(Nodes)
      /\ DOMAIN iter2 = DOMAIN iter \cup {k}
      /\ iter2[k] = n
      /\ \A x \in DOMAIN iter \ {k} : iter2[x] = iter[x]
  <2>1. iter \in Maps(Nodes) /\ n \in Nodes
    BY <1>1, <1>2
  <2> HIDE DEF iter
  <2>2. k \in Keys
    OBVIOUS
  <2>. QED  BY ONLY <2>1, <2>2, AssignProperties DEF iter2
<1>9. after \in Caches
  BY <1>1, <1>3, <1>6, <1>8 DEF Caches
<1>10. \A i \in 1 .. Len(rest) + 1 :
          \/ i = 1
          \/ i - 1 \in 1 .. Len(rest) /\ order2[i] = rest[i - 1]
  <2> TAKE i \in 1 .. Len(rest) + 1
  <2>1. i = 1 \/ (i - 1 \in 1 .. Len(rest) /\ (i - 1) + 1 = i)
    BY <1>7
  <2>. QED  BY <1>6, <2>1
<1>11. IteratorsValid(after)
  <2> SUFFICES ASSUME NEW x \in DOMAIN iter2
               PROVE  \E i \in 1 .. Len(rest) + 1 : order2[i] = [id |-> iter2[x], key |-> x]
    BY <1>3, <1>7 DEF IteratorsValid
  <2>1. CASE x = k
    BY <1>6, <1>7, <1>8, <2>1 DEF node
  <2>2. CASE x # k
    <3>1. x \in DOMAIN iter /\ iter2[x] = iter[x]
      BY <1>8, <2>2
    <3>2. PICK j \in 1 .. Len(order) : order[j] = [id |-> iter[x], key |-> x]
      BY <1>7, <3>1 DEF ListIndexed, IteratorsValid, order
    <3>3. PICK i \in 1 .. Len(rest) : rest[i] = order[j]
      <4>1. order[j].key # k
        BY <2>2, <3>2
      <4>. QED  BY <1>4, <4>1
    <3>4. i + 1 \in 1 .. Len(rest) + 1 /\ order2[i + 1] = rest[i]
      BY <1>6, <1>7
    <3>. QED  BY <3>1, <3>2, <3>3, <3>4
  <2>. QED  BY <2>1, <2>2
<1>12. NodesIndexed(after)
  <2> SUFFICES ASSUME NEW i \in 1 .. Len(rest) + 1
               PROVE  /\ order2[i].key \in DOMAIN iter2
                      /\ iter2[order2[i].key] = order2[i].id
    BY <1>3, <1>7 DEF NodesIndexed
  <2>1. CASE i = 1
    BY <1>6, <1>8, <2>1 DEF node
  <2>2. CASE i # 1
    <3>1. i - 1 \in 1 .. Len(rest) /\ order2[i] = rest[i - 1]
      BY <1>10, <2>2
    <3>2. PICK j \in 1 .. Len(order) : rest[i - 1] = order[j] /\ order[j].key # k
      BY <1>4, <3>1
    <3>3. order[j].key \in DOMAIN iter /\ iter[order[j].key] = order[j].id
      BY <1>7 DEF ListIndexed, NodesIndexed, order
    <3>. QED  BY <1>8, <3>1, <3>2, <3>3
  <2>. QED  BY <2>1, <2>2
<1>13. NodesDistinct(after)
  <2> SUFFICES ASSUME NEW i \in 1 .. Len(rest) + 1, NEW j \in 1 .. Len(rest) + 1,
                      order2[i].id = order2[j].id
               PROVE  i = j
    BY <1>3, <1>7 DEF NodesDistinct
  <2>1. order2[1].id = n
    BY <1>6 DEF node
  <2>2. CASE i = 1 \/ j = 1
    BY <1>2, <1>7, <1>10, <2>1, <2>2
  <2>3. CASE i # 1 /\ j # 1
    <3>1. /\ i - 1 \in 1 .. Len(rest) /\ j - 1 \in 1 .. Len(rest)
          /\ rest[i - 1].id = rest[j - 1].id
      BY <1>10, <2>3
    <3> DEFINE a == i - 1
               b == j - 1
    <3> HIDE DEF a, b
    <3>2. a = b
      BY <1>4, <3>1 DEF a, b
    <3>. QED  BY <1>7, <3>2 DEF a, b
  <2>. QED  BY <2>2, <2>3
<1>. QED
  BY <1>3, <1>6, <1>8, <1>9, <1>11, <1>12, <1>13
  DEF ListIndexed, node, after, rest

\* The second half of remove takes the key out of the list and of the
\* iterators, and leaves the list indexed.
LEMMA EraseOrderProperties ==
  ASSUME NEW c \in Caches, ListIndexed(c), NEW k \in Keys
  PROVE  LET after == EraseOrder(c, k)
         IN  /\ after \in Caches
             /\ ListIndexed(after)
             /\ after.cache_map = c.cache_map
             /\ DOMAIN after.key_to_iterator = DOMAIN c.key_to_iterator \ {k}
             /\ after.access_order = Unlinked(c, k)
<1> DEFINE order == c.access_order
           iter == c.key_to_iterator
           rest == Unlinked(c, k)
           iter2 == Erase(iter, k)
           after == EraseOrder(c, k)
<1>1. /\ order \in Seq(Node)
      /\ c.cache_map \in Maps(Entries)
      /\ iter \in Maps(Nodes)
  BY DEF Caches
<1>2. after = [cache_map |-> c.cache_map,
               access_order |-> rest,
               key_to_iterator |-> iter2]
  BY DEF EraseOrder
<1>3. /\ rest \in Seq(Node)
      /\ \A i \in 1 .. Len(rest) :
            \E j \in 1 .. Len(order) :
               rest[i] = order[j] /\ i <= j /\ order[j].key # k
      /\ \A j \in 1 .. Len(order) :
            order[j].key # k => \E i \in 1 .. Len(rest) : rest[i] = order[j]
      /\ \A i, j \in 1 .. Len(rest) : rest[i].id = rest[j].id => i = j
  BY UnlinkedProperties
<1> HIDE DEF rest, iter2, order, after
<1>4. DOMAIN rest = 1 .. Len(rest) /\ DOMAIN order = 1 .. Len(order)
  BY <1>1, <1>3, LenProperties DEF order
<1>5. /\ iter2 \in Maps(Nodes)
      /\ DOMAIN iter2 = DOMAIN iter \ {k}
      /\ \A x \in DOMAIN iter \ {k} : iter2[x] = iter[x]
  <2>1. iter \in Maps(Nodes)
    BY <1>1
  <2> HIDE DEF iter
  <2>. QED  BY <2>1, EraseProperties DEF iter2
<1>6. after \in Caches
  BY <1>1, <1>2, <1>3, <1>5 DEF Caches
<1>7. IteratorsValid(after)
  <2> SUFFICES ASSUME NEW x \in DOMAIN iter2
               PROVE  \E i \in 1 .. Len(rest) : rest[i] = [id |-> iter2[x], key |-> x]
    BY <1>2, <1>4 DEF IteratorsValid
  <2>1. x \in DOMAIN iter /\ x # k /\ iter2[x] = iter[x]
    BY <1>5
  <2>2. PICK j \in 1 .. Len(order) : order[j] = [id |-> iter[x], key |-> x]
    BY <1>4, <2>1 DEF ListIndexed, IteratorsValid, order
  <2>3. PICK i \in 1 .. Len(rest) : rest[i] = order[j]
    <3>1. order[j].key # k
      BY <2>1, <2>2
    <3>. QED  BY <1>3, <3>1
  <2>. QED  BY <2>1, <2>2, <2>3
<1>8. NodesIndexed(after)
  <2> SUFFICES ASSUME NEW i \in 1 .. Len(rest)
               PROVE  /\ rest[i].key \in DOMAIN iter2
                      /\ iter2[rest[i].key] = rest[i].id
    BY <1>2, <1>4 DEF NodesIndexed
  <2>1. PICK j \in 1 .. Len(order) : rest[i] = order[j] /\ order[j].key # k
    BY <1>3
  <2>2. order[j].key \in DOMAIN iter /\ iter[order[j].key] = order[j].id
    BY <1>4 DEF ListIndexed, NodesIndexed, order
  <2>. QED  BY <1>5, <2>1, <2>2
<1>9. NodesDistinct(after)
  BY <1>2, <1>3, <1>4 DEF NodesDistinct
<1>. QED
  BY <1>2, <1>5, <1>6, <1>7, <1>8, <1>9 DEF ListIndexed, after, rest

-----------------------------------------------------------------------------
(* The list and the map.                                                    *)

\* A list that is indexed by the keys of the map is as long as the map is
\* large: size() may be read off either.
LEMMA ListCoversMap ==
  ASSUME NEW c \in Caches, CoherentCache(c)
  PROVE  /\ IsFiniteSet(Stored(c))
         /\ Cardinality(Stored(c)) = Len(c.access_order)
<1> DEFINE order == c.access_order
           iter == c.key_to_iterator
           D == 1 .. Len(order)
           f == [i \in D |-> order[i].key]
<1>1. Len(order) \in Nat /\ DOMAIN order = D
  BY LenProperties DEF Caches
<1>2. DOMAIN iter = Stored(c)
  BY DEF CoherentCache, SameKeys
<1>3. \A i \in D : order[i].key \in DOMAIN iter /\ iter[order[i].key] = order[i].id
  BY <1>1 DEF CoherentCache, ListIndexed, NodesIndexed
<1>4. \A i, j \in D : order[i].id = order[j].id => i = j
  BY <1>1 DEF CoherentCache, ListIndexed, NodesDistinct
<1>5. ASSUME NEW k \in DOMAIN iter
      PROVE  \E i \in D : order[i].key = k
  <2>1. PICK i \in D : order[i] = [id |-> iter[k], key |-> k]
    BY <1>1 DEF CoherentCache, ListIndexed, IteratorsValid
  <2>2. order[i].key = k
    BY <2>1
  <2>. QED  BY <2>2
<1> HIDE DEF order, iter
<1>6. f \in [D -> Stored(c)]
  BY <1>2, <1>3
<1>7. \A i, j \in D : f[i] = f[j] => i = j
  BY <1>3, <1>4
<1>8. \A k \in Stored(c) : \E i \in D : f[i] = k
  BY <1>2, <1>5
<1> HIDE DEF f
<1>9. f \in Surjection(D, Stored(c)) /\ f \in Injection(D, Stored(c))
  <2>1. IsInjective(f)
    BY <1>6, <1>7 DEF IsInjective
  <2>. QED  BY <1>6, <1>8, <2>1 DEF Surjection, Injection
<1>10. IsFiniteSet(D) /\ Cardinality(D) = Len(order)
  <2>1. 1 \in Int /\ Len(order) \in Int
    BY <1>1
  <2>2. /\ IsFiniteSet(1 .. Len(order))
        /\ Cardinality(1 .. Len(order))
             = IF 1 > Len(order) THEN 0 ELSE Len(order) - 1 + 1
    BY <2>1, FS_Interval
  <2>. QED  BY <1>1, <2>2
<1> HIDE DEF D
<1>11. /\ IsFiniteSet(Stored(c))
       /\ Cardinality(Stored(c)) = Cardinality(D)
  BY <1>9, <1>10, FS_Surjection
<1>. QED  BY <1>10, <1>11 DEF order

-----------------------------------------------------------------------------
(* Whole member functions.                                                  *)

LEMMA EmptyCacheCoherent ==
  /\ EmptyCache \in Caches
  /\ CoherentCache(EmptyCache)
  /\ Stored(EmptyCache) = {}
<1>1. \A S : NoEntries \in Maps(S) /\ NoIterators \in Maps(S)
  <2> TAKE S
  <2>1. /\ DOMAIN NoEntries = {} /\ NoEntries \in [DOMAIN NoEntries -> S]
        /\ DOMAIN NoIterators = {} /\ NoIterators \in [DOMAIN NoIterators -> S]
    BY DEF NoEntries, NoIterators
  <2>. QED  BY <2>1, MapElements
<1>2. <<>> \in Seq(Node)
  OBVIOUS
<1>3. EmptyCache \in Caches
  BY <1>1, <1>2 DEF EmptyCache, Caches
<1>4. /\ DOMAIN EmptyCache.cache_map = {}
      /\ DOMAIN EmptyCache.key_to_iterator = {}
      /\ DOMAIN EmptyCache.access_order = {}
  BY DEF EmptyCache, NoEntries, NoIterators
<1>. QED
  BY <1>3, <1>4
  DEF CoherentCache, ListIndexed, IteratorsValid, NodesIndexed, NodesDistinct,
      SameKeys, Stored

\* A full coherent cache has a list with something to evict, or no capacity.
LEMMA MakeRoomCoherent ==
  ASSUME NEW c \in Caches, CoherentCache(c)
  PROVE  /\ MakeRoom(c) \in Caches
         /\ CoherentCache(MakeRoom(c))
         /\ Stored(MakeRoom(c)) \subseteq Stored(c)
         /\ \A i \in DOMAIN MakeRoom(c).access_order :
               /\ i \in DOMAIN c.access_order
               /\ MakeRoom(c).access_order[i] = c.access_order[i]
         /\ \A k \in Stored(c) \ Stored(MakeRoom(c)) :
               /\ Len(c.access_order) \in DOMAIN c.access_order
               /\ c.access_order[Len(c.access_order)].key = k
               /\ Len(c.access_order) >= MaxEntries
         /\ Len(c.access_order) >= MaxEntries /\ Len(c.access_order) > 0 =>
               /\ Cardinality(Stored(MakeRoom(c))) = Cardinality(Stored(c)) - 1
<1> DEFINE order == c.access_order
<1>1. /\ IsFiniteSet(Stored(c))
      /\ Cardinality(Stored(c)) = Len(order)
  BY ListCoversMap
<1>2. order \in Seq(Node)
  BY DEF Caches
<1>3. Len(order) \in Nat /\ DOMAIN order = 1 .. Len(order)
  BY <1>2, LenProperties
<1>4. CASE order = <<>> \/ ~(Len(order) >= MaxEntries)
  <2>1. MakeRoom(c) = c
    BY <1>1, <1>4 DEF MakeRoom, EvictOldest
  <2>2. ~(Len(order) >= MaxEntries /\ Len(order) > 0)
    BY <1>3, <1>4
  <2>. QED  BY <2>1, <2>2
<1>5. CASE order # <<>> /\ Len(order) >= MaxEntries
  <2> DEFINE oldest == order[Len(order)].key
             after == EvictOldest(c)
  <2>1. MakeRoom(c) = after
    BY <1>1, <1>5 DEF MakeRoom
  <2>2. /\ oldest \in DOMAIN c.key_to_iterator
        /\ after \in Caches
        /\ ListIndexed(after)
        /\ Stored(after) = Stored(c) \ {oldest}
        /\ DOMAIN after.key_to_iterator = DOMAIN c.key_to_iterator \ {oldest}
        /\ after.access_order = Front(order)
    BY <1>5, EvictOldestProperties DEF CoherentCache
  <2>3. /\ Len(order) \in Nat \ {0}
        /\ Front(order) \in Seq(Node)
        /\ Len(Front(order)) = Len(order) - 1
        /\ \A j \in 1 .. Len(order) - 1 : Front(order)[j] = order[j]
    BY <1>2, <1>5, FrontProperties
  <2> HIDE DEF after, order, oldest
  <2>4. DOMAIN after.access_order = 1 .. Len(order) - 1
    BY <2>2, <2>3, LenProperties
  <2>5. CoherentCache(after)
    BY <2>2 DEF CoherentCache, SameKeys
  <2>6. oldest \in Stored(c)
    BY <2>2 DEF CoherentCache, SameKeys
  <2>7. Cardinality(Stored(after)) = Cardinality(Stored(c)) - 1
    BY <1>1, <2>2, <2>6, FS_RemoveElement
  <2>8. \A i \in DOMAIN after.access_order :
           /\ i \in DOMAIN order
           /\ after.access_order[i] = order[i]
    BY <1>3, <2>2, <2>3, <2>4
  <2>9. \A k \in Stored(c) \ Stored(after) :
           /\ Len(order) \in DOMAIN order
           /\ order[Len(order)].key = k
           /\ Len(order) >= MaxEntries
    BY <1>3, <1>5, <2>2, <2>3 DEF oldest
  <2>. QED  BY <2>1, <2>2, <2>5, <2>7, <2>8, <2>9 DEF order
<1>. QED  BY <1>4, <1>5

LEMMA InsertIndexed ==
  ASSUME NEW c \in Caches, ListIndexed(c), NEW k \in Keys, NEW e \in Entries
  PROVE  /\ Insert(c, k, e) \in Caches
         /\ ListIndexed(Insert(c, k, e))
         /\ Stored(Insert(c, k, e)) = Stored(c) \cup {k}
         /\ Insert(c, k, e).access_order = c.access_order
         /\ Insert(c, k, e).key_to_iterator = c.key_to_iterator
<1>1. /\ c.cache_map \in Maps(Entries)
      /\ c.access_order \in Seq(Node)
      /\ c.key_to_iterator \in Maps(Nodes)
  BY DEF Caches
<1>2. /\ Assign(c.cache_map, k, e) \in Maps(Entries)
      /\ DOMAIN Assign(c.cache_map, k, e) = DOMAIN c.cache_map \cup {k}
  <2> DEFINE map == c.cache_map
  <2>1. map \in Maps(Entries)
    BY <1>1
  <2> HIDE DEF map
  <2>2. /\ Assign(map, k, e) \in Maps(Entries)
        /\ DOMAIN Assign(map, k, e) = DOMAIN map \cup {k}
    BY <2>1, AssignProperties
  <2>. QED  BY <2>2 DEF map
<1>3. Insert(c, k, e) = [cache_map |-> Assign(c.cache_map, k, e),
                         access_order |-> c.access_order,
                         key_to_iterator |-> c.key_to_iterator]
  BY DEF Insert, Caches
<1>. QED
  BY <1>1, <1>2, <1>3
  DEF Caches, ListIndexed, IteratorsValid, NodesIndexed, NodesDistinct, Stored

LEMMA EraseEntryIndexed ==
  ASSUME NEW c \in Caches, ListIndexed(c), NEW k \in Keys
  PROVE  /\ EraseEntry(c, k) \in Caches
         /\ ListIndexed(EraseEntry(c, k))
         /\ Stored(EraseEntry(c, k)) = Stored(c) \ {k}
         /\ EraseEntry(c, k).access_order = c.access_order
         /\ EraseEntry(c, k).key_to_iterator = c.key_to_iterator
<1>1. /\ c.cache_map \in Maps(Entries)
      /\ c.access_order \in Seq(Node)
      /\ c.key_to_iterator \in Maps(Nodes)
  BY DEF Caches
<1>2. /\ Erase(c.cache_map, k) \in Maps(Entries)
      /\ DOMAIN Erase(c.cache_map, k) = DOMAIN c.cache_map \ {k}
  <2> DEFINE map == c.cache_map
  <2>1. map \in Maps(Entries)
    BY <1>1
  <2> HIDE DEF map
  <2>2. /\ Erase(map, k) \in Maps(Entries)
        /\ DOMAIN Erase(map, k) = DOMAIN map \ {k}
    BY <2>1, EraseProperties
  <2>. QED  BY <2>2 DEF map
<1>3. EraseEntry(c, k) = [cache_map |-> Erase(c.cache_map, k),
                          access_order |-> c.access_order,
                          key_to_iterator |-> c.key_to_iterator]
  BY DEF EraseEntry, Caches
<1>. QED
  BY <1>1, <1>2, <1>3
  DEF Caches, ListIndexed, IteratorsValid, NodesIndexed, NodesDistinct, Stored

\* A whole put keeps the containers coherent, although the map and the list
\* disagree on the new key between the two halves of it.
LEMMA PutCoherent ==
  ASSUME NEW c \in Caches, CoherentCache(c), NEW k \in Keys, NEW e \in Entries,
         NEW n \in FreeNodes(Insert(MakeRoom(c), k, e), k)
  PROVE  LET after == UpdateAccessOrder(Insert(MakeRoom(c), k, e), k, n)
         IN  /\ after \in Caches
             /\ CoherentCache(after)
             /\ Stored(after) = Stored(MakeRoom(c)) \cup {k}
<1> DEFINE roomy == MakeRoom(c)
           filled == Insert(roomy, k, e)
           after == UpdateAccessOrder(filled, k, n)
<1>1. roomy \in Caches /\ CoherentCache(roomy)
  BY MakeRoomCoherent
<1>2. ListIndexed(roomy) /\ DOMAIN roomy.key_to_iterator = Stored(roomy)
  BY <1>1 DEF CoherentCache, SameKeys
<1> HIDE DEF roomy
<1>3. /\ filled \in Caches
      /\ ListIndexed(filled)
      /\ Stored(filled) = Stored(roomy) \cup {k}
      /\ filled.key_to_iterator = roomy.key_to_iterator
  BY <1>1, <1>2, InsertIndexed
<1>4. n \in FreeNodes(filled, k)
  BY DEF roomy
<1> HIDE DEF filled
<1>5. /\ after \in Caches
      /\ ListIndexed(after)
      /\ after.cache_map = filled.cache_map
      /\ DOMAIN after.key_to_iterator = DOMAIN filled.key_to_iterator \cup {k}
  BY <1>3, <1>4, UpdateAccessOrderProperties
<1> HIDE DEF after
<1>6. Stored(after) = Stored(roomy) \cup {k}
  BY <1>3, <1>5 DEF Stored
<1>7. SameKeys(after)
  BY <1>2, <1>3, <1>5, <1>6 DEF SameKeys
<1>. QED  BY <1>5, <1>6, <1>7 DEF CoherentCache, after, filled, roomy

\* What a put does to the list: the key in front, the others no further back
\* than one position.
LEMMA PutOrder ==
  ASSUME NEW c \in Caches, CoherentCache(c), NEW k \in Keys, NEW e \in Entries,
         NEW n \in FreeNodes(Insert(MakeRoom(c), k, e), k)
  PROVE  LET after == UpdateAccessOrder(Insert(MakeRoom(c), k, e), k, n)
         IN  \A i \in DOMAIN after.access_order :
               \/ i = 1 /\ after.access_order[i].key = k
               \/ \E j \in DOMAIN c.access_order :
                     /\ after.access_order[i] = c.access_order[j]
                     /\ i <= j + 1
                     /\ c.access_order[j].key # k
<1> DEFINE roomy == MakeRoom(c)
           filled == Insert(roomy, k, e)
           rest == Unlinked(filled, k)
           after == UpdateAccessOrder(filled, k, n)
<1>1. /\ roomy \in Caches /\ CoherentCache(roomy)
      /\ \A i \in DOMAIN roomy.access_order :
            /\ i \in DOMAIN c.access_order
            /\ roomy.access_order[i] = c.access_order[i]
  BY MakeRoomCoherent
<1>2. ListIndexed(roomy)
  BY <1>1 DEF CoherentCache
<1> HIDE DEF roomy
<1>3. /\ filled \in Caches
      /\ ListIndexed(filled)
      /\ filled.access_order = roomy.access_order
  BY <1>1, <1>2, InsertIndexed
<1>4. n \in FreeNodes(filled, k)
  BY DEF roomy
<1> HIDE DEF filled
<1>5. /\ after \in Caches
      /\ Len(after.access_order) = Len(rest) + 1
      /\ after.access_order[1].key = k
      /\ \A i \in 1 .. Len(rest) : after.access_order[i + 1] = rest[i]
  BY <1>3, <1>4, UpdateAccessOrderProperties
<1>6. /\ rest \in Seq(Node)
      /\ \A i \in 1 .. Len(rest) :
            \E j \in 1 .. Len(filled.access_order) :
               /\ rest[i] = filled.access_order[j]
               /\ i <= j
               /\ filled.access_order[j].key # k
  BY <1>3, UnlinkedProperties
<1> HIDE DEF after, rest
<1>7. /\ Len(rest) \in Nat
      /\ DOMAIN after.access_order = 1 .. Len(rest) + 1
      /\ DOMAIN filled.access_order = 1 .. Len(filled.access_order)
  BY <1>3, <1>5, <1>6, LenProperties DEF Caches
<1>8. ASSUME NEW i \in 1 .. Len(rest) + 1, i # 1
      PROVE  \E j \in DOMAIN c.access_order :
                /\ after.access_order[i] = c.access_order[j]
                /\ i <= j + 1
                /\ c.access_order[j].key # k
  <2> DEFINE h == i - 1
  <2>1. h \in 1 .. Len(rest) /\ i = h + 1
    BY <1>7, <1>8
  <2> HIDE DEF h
  <2>2. after.access_order[i] = rest[h]
    BY <1>5, <2>1
  <2>3. PICK j \in 1 .. Len(filled.access_order) :
           /\ rest[h] = filled.access_order[j]
           /\ h <= j
           /\ filled.access_order[j].key # k
    BY <1>6, <2>1
  <2>4. j \in DOMAIN c.access_order /\ filled.access_order[j] = c.access_order[j]
    BY <1>1, <1>3, <1>7
  <2>5. i <= j + 1
    BY <1>7, <2>1, <2>3
  <2>. QED  BY <2>2, <2>3, <2>4, <2>5
<1>. QED  BY <1>5, <1>7, <1>8 DEF after, filled, roomy

LEMMA RemoveCoherent ==
  ASSUME NEW c \in Caches, CoherentCache(c), NEW k \in Keys
  PROVE  LET after == EraseOrder(EraseEntry(c, k), k)
         IN  /\ after \in Caches
             /\ CoherentCache(after)
             /\ Stored(after) = Stored(c) \ {k}
             /\ after.access_order = Unlinked(c, k)
<1> DEFINE half == EraseEntry(c, k)
           after == EraseOrder(half, k)
<1>1. ListIndexed(c) /\ DOMAIN c.key_to_iterator = Stored(c)
  BY DEF CoherentCache, SameKeys
<1>2. /\ half \in Caches
      /\ ListIndexed(half)
      /\ Stored(half) = Stored(c) \ {k}
      /\ half.access_order = c.access_order
      /\ half.key_to_iterator = c.key_to_iterator
  BY <1>1, EraseEntryIndexed
<1>3. Unlinked(half, k) = Unlinked(c, k)
  BY <1>2 DEF Unlinked
<1> HIDE DEF half
<1>4. /\ after \in Caches
      /\ ListIndexed(after)
      /\ after.cache_map = half.cache_map
      /\ DOMAIN after.key_to_iterator = DOMAIN half.key_to_iterator \ {k}
      /\ after.access_order = Unlinked(half, k)
  BY <1>2, EraseOrderProperties
<1> HIDE DEF after
<1>5. Stored(after) = Stored(c) \ {k}
  BY <1>2, <1>4 DEF Stored
<1>. QED
  BY <1>1, <1>2, <1>3, <1>4, <1>5 DEF CoherentCache, SameKeys, after, half

LEMMA PutBounded ==
  ASSUME NEW c \in Caches, CoherentCache(c), NEW k \in Keys, NEW bound \in Nat,
         bound = (IF MaxEntries = 0 THEN 1 ELSE MaxEntries),
         Cardinality(Stored(c)) <= bound
  PROVE  Cardinality(Stored(MakeRoom(c)) \cup {k}) <= bound
<1> DEFINE S == Stored(c)
           T == Stored(MakeRoom(c))
           m == Cardinality(S)
<1>1. IsFiniteSet(S) /\ m = Len(c.access_order)
  BY ListCoversMap
<1>2. /\ T \in SUBSET S
      /\ Len(c.access_order) >= MaxEntries /\ Len(c.access_order) > 0
            => Cardinality(T) = m - 1
  BY MakeRoomCoherent
<1> HIDE DEF T, S
<1>3. IsFiniteSet(T) /\ Cardinality(T) <= m
  BY <1>1, <1>2, FS_Subset
<1>4. Cardinality(T) \in Nat /\ m \in Nat
  BY <1>1, <1>3, FS_CardinalityType
<1>5. Cardinality(T \cup {k}) <= Cardinality(T) + 1
  <2>1. Cardinality(T \cup {k})
          = IF k \in T THEN Cardinality(T) ELSE Cardinality(T) + 1
    BY <1>3, FS_AddElement
  <2>. QED  BY <1>4, <2>1
<1>6. Cardinality(T \cup {k}) \in Nat
  BY <1>3, FS_AddElement, FS_CardinalityType
<1>7. m <= bound
  BY DEF S
<1> DEFINE t == Cardinality(T)
           u == Cardinality(T \cup {k})
<1>8. /\ t \in Nat /\ u \in Nat /\ m \in Nat /\ m <= bound /\ t <= m /\ u <= t + 1
      /\ m >= MaxEntries /\ m > 0 => t = m - 1
  BY <1>1, <1>2, <1>3, <1>4, <1>5, <1>6, <1>7
<1> HIDE DEF m, t, u
<1>9. u <= bound
  BY <1>8, MaxEntriesAssumption
<1>. QED  BY <1>9 DEF T, u

LEMMA LookupType ==
  ASSUME NEW c \in Caches, NEW k \in Keys
  PROVE  Lookup(c, k) \in Entries \cup {Nullopt}
<1>1. c.cache_map \in [DOMAIN c.cache_map -> Entries]
  BY MapElements DEF Caches
<1>. QED  BY <1>1 DEF Lookup, Stored
=============================================================================
