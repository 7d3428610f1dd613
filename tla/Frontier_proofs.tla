--------------------------- MODULE Frontier_proofs ---------------------------
(***************************************************************************)
(* Theorems about Frontier, for every web, every seeds, any number of      *)
(* workers, crashes, stalls, failed fetches and checkpoints.               *)
(***************************************************************************)
EXTENDS Frontier, FiniteSetTheorems, SequenceTheorems, WellFoundedInduction, TLAPS

-----------------------------------------------------------------------------
(* Induction, for sets of naturals: the library's theorem about least      *)
(* elements of well-founded relations, instantiated.                       *)

LEMMA Induction ==
  ASSUME NEW T \in SUBSET Nat, 0 \in T, \A n \in T : n + 1 \in T
  PROVE  T = Nat
<1> DEFINE R == {ss \in Nat \X Nat : ss[1] < ss[2]}
           U == Nat \ T
<1>1. SUFFICES ASSUME U # {} PROVE FALSE
  OBVIOUS
<1>2. IsWellFoundedOn(R, Nat)
  BY NatLessThanWellFounded DEF OpToRel
<1>3. \E x \in U : \A y \in U : ~(<<y, x>> \in R)
  <2>1. U \subseteq Nat
    OBVIOUS
  <2> HIDE DEF R, U
  <2> QED
    BY <1>1, <1>2, <2>1, WFMin
<1>4. PICK x \in U : \A y \in U : ~(<<y, x>> \in R)
  BY <1>3
<1>5. x # 0 /\ x - 1 \in Nat /\ x - 1 \notin T
  OBVIOUS
<1>6. <<x - 1, x>> \in R
  BY <1>5
<1> QED
  BY <1>4, <1>5, <1>6

(* ... and up to a bound *)
LEMMA BoundedInduction ==
  ASSUME NEW L \in Nat, NEW T, 0 \in T, \A n \in 1..L : n - 1 \in T => n \in T
  PROVE  \A n \in 0..L : n \in T
<1> DEFINE U == {n \in Nat : n <= L => n \in T}
<1>1. 0 \in U
  OBVIOUS
<1>2. \A n \in U : n + 1 \in U
  <2> SUFFICES ASSUME NEW n \in U, n + 1 <= L
               PROVE  n + 1 \in T
    OBVIOUS
  <2>1. n + 1 \in 1..L /\ (n + 1) - 1 \in T
    OBVIOUS
  <2> QED
    BY <2>1
<1>3. U = Nat
  <2>1. U \in SUBSET Nat
    OBVIOUS
  <2> HIDE DEF U
  <2> QED
    BY <1>1, <1>2, <2>1, Induction
<1> QED
  BY <1>3

-----------------------------------------------------------------------------
(* What makes the engine's memory sound, and what it may become *)

Drawn(kids, c) == {k \in kids : k[1] = c}

(* Every item has a counter of its own, is in the visited set unless it is *)
(* a seed, and no two are the same page; the cells bound what was drawn.   *)
Sound(m) ==
  /\ IsMemory(m)
  /\ IsFiniteSet(m.pending)
  /\ \A i \in m.pending : i.id <= m.counter /\ (~i.seed => Key(i.url) \in m.visited)
  /\ \A i, j \in m.pending : i.id = j.id => i = j
  /\ \A i, j \in m.pending : ~i.seed /\ ~j.seed /\ Key(i.url) = Key(j.url) => i = j
  /\ IsFiniteSet(m.kids) /\ \A k \in m.kids : k[1] \in DOMAIN m.spent
  /\ \A c \in DOMAIN m.spent : Cardinality(Drawn(m.kids, c)) <= m.spent[c]

(* Nothing visited is forgotten *)
Accounted(m) == m.visited \subseteq m.gap \cup Keys(m.pending) \cup m.ended

(* n is what m became later in the same run *)
Grows(m, n) ==
  /\ m.counter <= n.counter /\ m.visited \subseteq n.visited /\ m.ended \subseteq n.ended
  /\ m.gap = n.gap
  /\ DOMAIN m.spent \subseteq DOMAIN n.spent
  /\ \A c \in DOMAIN m.spent : m.spent[c] <= n.spent[c]
  /\ \A j \in n.pending \ m.pending :
       j.id > m.counter /\ (~j.seed => Key(j.url) \notin m.visited)

(* Items are queued, none ends *)
Enlarges(m, n) ==
  /\ Grows(m, n) /\ m.pending \subseteq n.pending /\ m.ended = n.ended
  /\ Cardinality(n.pending) = Cardinality(m.pending) + (n.counter - m.counter)

LEMMA GrowsTrans ==
  ASSUME NEW a, NEW b, NEW c, Sound(a), Sound(b), Sound(c), Grows(a, b), Grows(b, c)
  PROVE  Grows(a, c)
<1>1. a.counter \in Nat /\ b.counter \in Nat /\ c.counter \in Nat
  BY DEF Sound, IsMemory
<1>2. /\ a.counter <= c.counter /\ a.visited \subseteq c.visited /\ a.ended \subseteq c.ended
      /\ a.gap = c.gap /\ DOMAIN a.spent \subseteq DOMAIN c.spent
  BY <1>1 DEF Grows
<1>3. \A x \in DOMAIN a.spent : a.spent[x] <= c.spent[x]
  <2> SUFFICES ASSUME NEW x \in DOMAIN a.spent
               PROVE  a.spent[x] <= c.spent[x]
    OBVIOUS
  <2>1. a.spent[x] \in 0..MaxChain /\ b.spent[x] \in 0..MaxChain /\ c.spent[x] \in 0..MaxChain
    BY <1>2 DEF Sound, IsMemory, Grows
  <2>2. a.spent[x] <= b.spent[x] /\ b.spent[x] <= c.spent[x]
    BY DEF Grows
  <2> QED
    BY <2>1, <2>2, FrontierAssumption
<1>4. ASSUME NEW j \in c.pending \ a.pending
      PROVE  j.id > a.counter /\ (~j.seed => Key(j.url) \notin a.visited)
  <2>1. CASE j \in b.pending
    BY <2>1 DEF Grows
  <2>2. CASE j \notin b.pending
    <3>1. j.id > b.counter /\ j.id \in Nat
      BY <2>2 DEF Grows, Sound, IsMemory, Item
    <3> QED
      BY <1>1, <2>2, <3>1 DEF Grows
  <2> QED
    BY <2>1, <2>2
<1> QED
  BY <1>2, <1>3, <1>4 DEF Grows

LEMMA EnlargesTrans ==
  ASSUME NEW a, NEW b, NEW c, Sound(a), Sound(b), Sound(c), Enlarges(a, b), Enlarges(b, c)
  PROVE  Enlarges(a, c)
<1>1. Grows(a, c)
  BY GrowsTrans DEF Enlarges
<1>2. /\ a.counter \in Nat /\ b.counter \in Nat /\ c.counter \in Nat
      /\ Cardinality(a.pending) \in Nat
  BY FS_CardinalityType DEF Sound, IsMemory
<1> QED
  BY <1>1, <1>2 DEF Enlarges

LEMMA EnlargesRefl ==
  ASSUME NEW m, Sound(m)
  PROVE  Enlarges(m, m)
<1>1. m.counter \in Nat /\ Cardinality(m.pending) \in Nat
  BY FS_CardinalityType DEF Sound, IsMemory
<1>2. \A c \in DOMAIN m.spent : m.spent[c] <= m.spent[c]
  BY FrontierAssumption DEF Sound, IsMemory
<1> QED
  BY <1>1, <1>2 DEF Enlarges, Grows

(* An item is queued *)
Taken(m, i) == IF i.seed THEN m.visited ELSE m.visited \cup {Key(i.url)}

With(m, i, spent, kids) ==
  [visited |-> Taken(m, i), pending |-> m.pending \cup {i}, counter |-> m.counter + 1,
   spent |-> spent, kids |-> kids, ended |-> m.ended, gap |-> m.gap]

(* Cells that bound what was drawn from them, old ones and perhaps new *)
Cells(m, spent, kids) ==
  /\ DOMAIN m.spent \subseteq DOMAIN spent /\ DOMAIN spent \subseteq 1..(m.counter + 1)
  /\ \A c \in DOMAIN m.spent : m.spent[c] <= spent[c]
  /\ \A c \in DOMAIN spent : spent[c] \in 0..MaxChain
  /\ IsFiniteSet(kids) /\ \A k \in kids : k[1] \in DOMAIN spent
  /\ \A c \in DOMAIN spent : Cardinality(Drawn(kids, c)) <= spent[c]

LEMMA ItemAdded ==
  ASSUME NEW m, Sound(m), NEW i \in Item, i.id = m.counter + 1, Key(i.url) \notin m.visited,
         NEW spent, NEW kids, Cells(m, spent, kids), i.chain # None => i.chain \in DOMAIN spent,
         NEW n, n = With(m, i, spent, kids)
  PROVE  Sound(n) /\ Enlarges(m, n) /\ (Accounted(m) => Accounted(n))
<1>1. /\ m.counter \in Nat /\ i \notin m.pending /\ i.id \in Nat
      /\ \A j \in m.pending : j \in Item /\ j.id <= m.counter /\ j.id \in Nat
  BY DEF Sound, IsMemory, Item
<1> DEFINE visited == Taken(m, i)
<1>2. /\ n.visited = visited /\ n.pending = m.pending \cup {i} /\ n.counter = m.counter + 1
      /\ n.spent = spent /\ n.kids = kids /\ n.ended = m.ended /\ n.gap = m.gap
      /\ n = [visited |-> n.visited, pending |-> n.pending, counter |-> n.counter,
              spent |-> n.spent, kids |-> n.kids, ended |-> n.ended, gap |-> n.gap]
  BY DEF With
<1>3. Key(i.url) \in Urls /\ visited \subseteq Urls /\ m.visited \subseteq visited
      /\ (~i.seed => Key(i.url) \in visited) /\ visited \subseteq m.visited \cup {Key(i.url)}
  <2>1. Key(i.url) \in Urls /\ m.visited \subseteq Urls
    BY FrontierAssumption DEF Item, Key, Sound, IsMemory
  <2>2. CASE i.seed
    BY <2>1, <2>2 DEF Taken
  <2>3. CASE ~i.seed
    BY <2>1, <2>3 DEF Taken
  <2> QED
    BY <2>1, <2>2, <2>3
<1> HIDE DEF visited
<1>4. IsMemory(n)
  <2>1. \A j \in n.pending : j \in Item /\ (j.chain # None => j.chain \in DOMAIN n.spent)
    BY <1>2 DEF Sound, IsMemory, Cells
  <2>2. n.counter \in Nat
    BY <1>1, <1>2
  <2>3. n.visited \cup n.ended \cup n.gap \subseteq Urls
    BY <1>2, <1>3 DEF Sound, IsMemory
  <2> QED
    BY <1>2, <2>1, <2>2, <2>3 DEF IsMemory, Cells
<1>5. IsFiniteSet(n.pending) /\ Cardinality(n.pending) = Cardinality(m.pending) + 1
  <2>1. IsFiniteSet(m.pending)
    BY DEF Sound
  <2>2. /\ IsFiniteSet(m.pending \cup {i})
        /\ Cardinality(m.pending \cup {i}) = Cardinality(m.pending) + 1
    BY <1>1, <2>1, FS_AddElement
  <2> QED
    BY <1>2, <2>2
<1>6. \A j \in n.pending : j.id <= n.counter /\ (~j.seed => Key(j.url) \in n.visited)
  <2>1. \A j \in m.pending : j.id <= n.counter /\ (~j.seed => Key(j.url) \in n.visited)
    BY <1>1, <1>2, <1>3 DEF Sound
  <2>2. i.id <= n.counter /\ (~i.seed => Key(i.url) \in n.visited)
    BY <1>1, <1>2, <1>3
  <2> QED
    BY <1>2, <2>1, <2>2
<1>7. \A j, k \in n.pending : j.id = k.id => j = k
  <2>1. \A j, k \in m.pending : j.id = k.id => j = k
    BY DEF Sound
  <2>2. \A j \in m.pending : j.id # i.id
    BY <1>1
  <2> QED
    BY <1>2, <2>1, <2>2
<1>8. ASSUME NEW j \in n.pending, NEW k \in n.pending, ~j.seed, ~k.seed, Key(j.url) = Key(k.url)
      PROVE  j = k
  <2>1. \A x \in m.pending : ~x.seed => Key(x.url) # Key(i.url)
    BY DEF Sound
  <2>2. CASE j \in m.pending /\ k \in m.pending
    BY <1>8, <2>2 DEF Sound
  <2>3. CASE j = i \/ k = i
    BY <1>2, <1>8, <2>1, <2>3
  <2> QED
    BY <1>2, <2>2, <2>3
<1>9. Sound(n)
  <2>1. \A j, k \in n.pending : ~j.seed /\ ~k.seed /\ Key(j.url) = Key(k.url) => j = k
    BY <1>8
  <2>2. /\ IsFiniteSet(n.kids) /\ \A k \in n.kids : k[1] \in DOMAIN n.spent
        /\ \A c \in DOMAIN n.spent : Cardinality(Drawn(n.kids, c)) <= n.spent[c]
    BY <1>2 DEF Cells
  <2> QED
    BY <1>4, <1>5, <1>6, <1>7, <2>1, <2>2 DEF Sound
<1>10. Enlarges(m, n)
  <2>1. Cardinality(n.pending) = Cardinality(m.pending) + (n.counter - m.counter)
    <3>1. Cardinality(m.pending) \in Nat
      BY FS_CardinalityType DEF Sound
    <3> QED
      BY <1>1, <1>2, <1>5, <3>1
  <2>2. m.counter <= n.counter
    BY <1>1, <1>2
  <2>3. \A j \in n.pending \ m.pending : j.id > m.counter /\ Key(j.url) \notin m.visited
    BY <1>1, <1>2
  <2>4. DOMAIN m.spent \subseteq DOMAIN n.spent /\ \A c \in DOMAIN m.spent : m.spent[c] <= n.spent[c]
    BY <1>2 DEF Cells
  <2> QED
    BY <1>2, <1>3, <2>1, <2>2, <2>3, <2>4 DEF Enlarges, Grows
<1>11. Accounted(m) => Accounted(n)
  <2>1. Keys(n.pending) = Keys(m.pending) \cup {Key(i.url)}
    BY <1>2 DEF Keys
  <2> QED
    BY <1>2, <1>3, <2>1 DEF Accounted
<1> QED
  BY <1>9, <1>10, <1>11

LEMMA CellsKept ==
  ASSUME NEW m, Sound(m)
  PROVE  Cells(m, m.spent, m.kids)
BY FrontierAssumption DEF Sound, IsMemory, Cells

(* _enqueue *)
LEMMA PutIs ==
  ASSUME NEW m, Sound(m), NEW i \in Item, i.id = m.counter + 1,
         Allowed(i.url), Key(i.url) \notin m.visited
  PROVE  Put(m, i) = With(m, i, m.spent, m.kids)
<1>1. m.counter \in Nat /\ \A j \in m.pending : j.id \in Nat /\ j.id <= m.counter
  BY DEF Sound, IsMemory, Item
<1>2. {j \in m.pending : j.id # i.id} = m.pending
  BY <1>1
<1>3. m = [visited |-> m.visited, pending |-> m.pending, counter |-> m.counter, spent |-> m.spent,
           kids |-> m.kids, ended |-> m.ended, gap |-> m.gap]
  BY DEF Sound, IsMemory
<1> DEFINE V == Taken(m, i)
           P == m.pending \cup {i}
<1>4. Put(m, i) = [m EXCEPT !.counter = i.id, !.visited = V, !.pending = P]
  BY <1>2, Zenon DEF Put, Taken
<1>5. V = Taken(m, i) /\ P = m.pending \cup {i}
  OBVIOUS
<1> HIDE DEF V, P
<1> QED
  BY <1>3, <1>4, <1>5 DEF With

LEMMA Queueing ==
  ASSUME NEW m, Sound(m), NEW i \in Item, i.id = m.counter + 1, i.chain = None
  PROVE  Sound(Put(m, i)) /\ Enlarges(m, Put(m, i)) /\ (Accounted(m) => Accounted(Put(m, i)))
<1>1. CASE ~Allowed(i.url) \/ Key(i.url) \in m.visited
  <2>1. Put(m, i) = m
    BY <1>1 DEF Put
  <2> QED
    BY <2>1, EnlargesRefl
<1>2. CASE Allowed(i.url) /\ Key(i.url) \notin m.visited
  BY <1>2, PutIs, CellsKept, ItemAdded
<1> QED
  BY <1>1, <1>2

(* The items that are queued are items *)
LEMMA NextItem ==
  ASSUME NEW m, Sound(m), NEW u \in Urls
  PROVE  /\ LET i == SeedItem(m, u)
            IN  i \in Item /\ i.id = m.counter + 1 /\ i.url = u /\ i.chain = None
         /\ \A depth \in Nat, hops \in 0..MaxHops, chain \in Nat \cup {None} :
              LET i == LinkItem(m, u, depth, hops, chain)
              IN  i \in Item /\ i.id = m.counter + 1 /\ i.url = u /\ i.chain = chain
<1>1. m.counter + 1 \in Nat \ {0} /\ 0 \in Nat /\ 0 \in 0..MaxHops
  BY FrontierAssumption DEF Sound, IsMemory
<1> QED
  BY <1>1 DEF SeedItem, LinkItem, Item

-----------------------------------------------------------------------------
(* _enqueue_links *)

Link == [to : Urls, param : {"none", "int", "other"}, next : BOOLEAN, pager : BOOLEAN, hot : BOOLEAN]

(* What the loop over a page's links has made of m *)
Progress(m, it, s) ==
  /\ s = [m |-> s.m, added |-> s.added, over |-> s.over]
  /\ Sound(s.m) /\ Enlarges(m, s.m) /\ (Accounted(m) => Accounted(s.m))
  /\ it.chain # None => it.chain \in DOMAIN s.m.spent

LEMMA ProgressMade ==
  ASSUME NEW m, NEW it, Sound(m), NEW s, Progress(m, it, s), NEW t, NEW n,
         t = [m |-> n, added |-> t.added, over |-> t.over],
         Sound(n), Enlarges(s.m, n), Accounted(s.m) => Accounted(n)
  PROVE  Progress(m, it, t)
<1>1. t.m = n
  OBVIOUS
<1>2. Enlarges(m, n)
  BY EnlargesTrans DEF Progress
<1>3. DOMAIN s.m.spent \subseteq DOMAIN n.spent
  BY DEF Enlarges, Grows
<1> QED
  BY <1>1, <1>2, <1>3 DEF Progress

(* The cell of a chain's first item *)
LEMMA CellAdded ==
  ASSUME NEW m, Sound(m)
  PROVE  /\ m.counter + 1 \in DOMAIN WithCell(m.spent, m.counter + 1)
         /\ Cells(m, WithCell(m.spent, m.counter + 1), m.kids)
<1> DEFINE id == m.counter + 1
           spent == WithCell(m.spent, id)
<1>1. m.counter \in Nat /\ DOMAIN m.spent \subseteq 1..m.counter
  BY DEF Sound, IsMemory
<1>2. id \notin DOMAIN m.spent /\ id \in 1..(m.counter + 1)
  BY <1>1
<1>3. /\ DOMAIN spent = DOMAIN m.spent \cup {id} /\ spent[id] = 0
      /\ \A x \in DOMAIN m.spent : spent[x] = m.spent[x]
  BY <1>2 DEF WithCell
<1> HIDE DEF spent, id
<1>4. Cells(m, m.spent, m.kids)
  BY CellsKept
<1>5. Cardinality(Drawn(m.kids, id)) <= 0
  <2>1. Drawn(m.kids, id) = {}
    BY <1>2 DEF Drawn, Sound
  <2> QED
    BY <2>1, FS_EmptySet
<1>6. DOMAIN m.spent \subseteq DOMAIN spent /\ DOMAIN spent \subseteq 1..(m.counter + 1)
  BY <1>2, <1>3, <1>4 DEF Cells
<1>7. /\ \A x \in DOMAIN m.spent : m.spent[x] <= spent[x]
      /\ \A x \in DOMAIN spent : spent[x] \in 0..MaxChain
  BY <1>3, <1>4, FrontierAssumption DEF Cells
<1>8. /\ IsFiniteSet(m.kids) /\ \A k \in m.kids : k[1] \in DOMAIN spent
      /\ \A x \in DOMAIN spent : Cardinality(Drawn(m.kids, x)) <= spent[x]
  BY <1>3, <1>4, <1>5 DEF Cells
<1>9. id \in DOMAIN spent /\ Cells(m, spent, m.kids)
  BY <1>3, <1>6, <1>7, <1>8 DEF Cells
<1> QED
  BY <1>9 DEF spent, id

(* One link of the page in hand is queued, with the cells as they become. *)
LEMMA WithOther ==
  ASSUME NEW m, NEW i, NEW spent, NEW p
  PROVE  p = With(m, i, m.spent, m.kids) => [p EXCEPT !.spent = spent] = With(m, i, spent, m.kids)
<1> DEFINE V == Taken(m, i)
           P == m.pending \cup {i}
<1>1. \A sp, ks : With(m, i, sp, ks) = [visited |-> V, pending |-> P, counter |-> m.counter + 1,
               spent |-> sp, kids |-> ks, ended |-> m.ended, gap |-> m.gap]
  BY Zenon DEF With
<1> HIDE DEF V, P
<1> QED
  BY <1>1

LEMMA PutWith ==
  ASSUME NEW m, Sound(m), NEW i \in Item, i.id = m.counter + 1,
         Allowed(i.url), Key(i.url) \notin m.visited, NEW spent
  PROVE  /\ [Put(m, i) EXCEPT !.spent = spent] = With(m, i, spent, m.kids)
         /\ Put(m, i).spent = m.spent /\ Put(m, i).kids = m.kids
<1>1. Put(m, i) = With(m, i, m.spent, m.kids)
  BY PutIs
<1>2. Put(m, i).spent = m.spent /\ Put(m, i).kids = m.kids
  BY <1>1 DEF With
<1> QED
  BY <1>1, <1>2, WithOther

LEMMA LinkQueued ==
  ASSUME NEW m, NEW it, Sound(m), NEW s, Progress(m, it, s), NEW i \in Item, i.id = s.m.counter + 1,
         Allowed(i.url), Key(i.url) \notin s.m.visited,
         NEW spent, NEW kids, Cells(s.m, spent, kids), i.chain # None => i.chain \in DOMAIN spent,
         NEW t, t = [m |-> With(s.m, i, spent, kids), added |-> t.added, over |-> t.over]
  PROVE  Progress(m, it, t)
<1> DEFINE n == With(s.m, i, spent, kids)
<1>1. Sound(s.m)
  BY DEF Progress
<1>2. Sound(n) /\ Enlarges(s.m, n) /\ (Accounted(s.m) => Accounted(n))
  BY <1>1, ItemAdded
<1> HIDE DEF n
<1> QED
  BY <1>2, ProgressMade DEF n

LEMMA HopStep ==
  ASSUME NEW m, NEW it \in Item, Sound(m), NEW s, Progress(m, it, s), NEW l \in Link,
         Allowed(l.to), Key(l.to) \notin s.m.visited
  PROVE  Progress(m, it, Hop(s, it, l))
<1>1. CASE it.hops >= MaxHops
  BY <1>1 DEF Hop
<1>2. CASE ~(it.hops >= MaxHops)
  <2>1. /\ l.to \in Urls /\ it.depth \in Nat /\ it.hops + 1 \in 0..MaxHops
        /\ s.m.counter \in Nat /\ Sound(s.m) /\ it.chain \in Nat \cup {None}
        /\ s = [m |-> s.m, added |-> s.added, over |-> s.over]
    BY <1>2, FrontierAssumption DEF Item, Link, Progress, Sound, IsMemory
  <2>2. ASSUME NEW c \in Nat, NEW cells, c \in DOMAIN cells, Cells(s.m, cells, s.m.kids),
               Hop(s, it, l) = [s EXCEPT !.m = [Put(s.m, LinkItem(s.m, l.to, it.depth, it.hops + 1, c))
                                                  EXCEPT !.spent = cells]]
        PROVE  Progress(m, it, Hop(s, it, l))
    <3> DEFINE i == LinkItem(s.m, l.to, it.depth, it.hops + 1, c)
               n == With(s.m, i, cells, s.m.kids)
               t == Hop(s, it, l)
    <3>1. i \in Item /\ i.id = s.m.counter + 1 /\ i.url = l.to /\ i.chain = c
      BY <2>1, NextItem
    <3>2. t = [s EXCEPT !.m = [Put(s.m, i) EXCEPT !.spent = cells]]
      BY <2>2
    <3> HIDE DEF i, t
    <3>3. Allowed(i.url) /\ Key(i.url) \notin s.m.visited /\ (i.chain # None => i.chain \in DOMAIN cells)
      BY <2>2, <3>1
    <3>4. [Put(s.m, i) EXCEPT !.spent = cells] = n
      BY <2>1, <3>1, <3>3, PutWith
    <3> HIDE DEF n
    <3>5. t = [m |-> n, added |-> t.added, over |-> t.over]
      BY <2>1, <3>2, <3>4
    <3>6. Progress(m, it, t)
      <4>1. Cells(s.m, cells, s.m.kids)
        BY <2>2
      <4>2. t = [m |-> With(s.m, i, cells, s.m.kids), added |-> t.added, over |-> t.over]
        BY <3>5 DEF n
      <4> QED
        BY <3>1, <3>3, <4>1, <4>2, LinkQueued
    <3> QED
      BY <3>6 DEF t
  <2>3. CASE it.chain # None
    <3> DEFINE c == it.chain
               i == LinkItem(s.m, l.to, it.depth, it.hops + 1, c)
    <3>1. Hop(s, it, l) = [s EXCEPT !.m = [Put(s.m, i) EXCEPT !.spent = s.m.spent]]
      BY <1>2, <2>3 DEF Hop
    <3>2. c \in Nat /\ c \in DOMAIN s.m.spent
      BY <2>1, <2>3 DEF Progress
    <3> QED
      BY <2>1, <2>2, <3>1, <3>2, CellsKept
  <2>4. CASE it.chain = None
    <3> DEFINE c == s.m.counter + 1
               i == LinkItem(s.m, l.to, it.depth, it.hops + 1, c)
    <3>1. Hop(s, it, l) = [s EXCEPT !.m = [Put(s.m, i) EXCEPT !.spent = WithCell(s.m.spent, c)]]
      BY <1>2, <2>4 DEF Hop
    <3>2. c \in Nat /\ c \in DOMAIN WithCell(s.m.spent, c) /\ Cells(s.m, WithCell(s.m.spent, c), s.m.kids)
      BY <2>1, CellAdded
    <3> QED
      BY <2>2, <3>1, <3>2
  <2> QED
    BY <2>3, <2>4
<1> QED
  BY <1>1, <1>2

(* A child draws from the cell of the page's chain. *)
LEMMA CellDrawn ==
  ASSUME NEW m, Sound(m), NEW c \in DOMAIN m.spent, m.spent[c] < MaxChain, NEW key
  PROVE  Cells(m, [m.spent EXCEPT ![c] = @ + 1], m.kids \cup {<<c, key>>})
<1> DEFINE spent == [m.spent EXCEPT ![c] = @ + 1]
           kids == m.kids \cup {<<c, key>>}
<1>1. Cells(m, m.spent, m.kids)
  BY CellsKept
<1>2. \A x \in DOMAIN m.spent : m.spent[x] \in 0..MaxChain
  BY DEF Sound, IsMemory
<1>3. /\ DOMAIN spent = DOMAIN m.spent /\ spent[c] = m.spent[c] + 1
      /\ \A x \in DOMAIN m.spent : x # c => spent[x] = m.spent[x]
  OBVIOUS
<1> HIDE DEF spent
<1>4. /\ DOMAIN m.spent \subseteq DOMAIN spent /\ DOMAIN spent \subseteq 1..(m.counter + 1)
      /\ \A x \in DOMAIN m.spent : m.spent[x] <= spent[x]
      /\ \A x \in DOMAIN spent : spent[x] \in 0..MaxChain
  <2>1. DOMAIN m.spent \subseteq DOMAIN spent /\ DOMAIN spent \subseteq 1..(m.counter + 1)
    BY <1>1, <1>3 DEF Cells
  <2>2. spent[c] \in 0..MaxChain /\ m.spent[c] <= spent[c]
    BY <1>2, <1>3, FrontierAssumption
  <2>3. ASSUME NEW x \in DOMAIN m.spent
        PROVE  m.spent[x] <= spent[x] /\ spent[x] \in 0..MaxChain
    <3>1. CASE x = c
      BY <2>2, <3>1
    <3>2. CASE x # c
      BY <1>2, <1>3, <3>2, FrontierAssumption
    <3> QED
      BY <3>1, <3>2
  <2> QED
    BY <1>3, <2>1, <2>3
<1>5. IsFiniteSet(kids) /\ \A k \in kids : k[1] \in DOMAIN spent
  <2>1. IsFiniteSet(kids)
    BY <1>1, FS_AddElement DEF Cells
  <2>2. <<c, key>>[1] = c
    OBVIOUS
  <2> QED
    BY <1>1, <1>3, <2>1, <2>2 DEF Cells
<1>6. ASSUME NEW x \in DOMAIN spent
      PROVE  Cardinality(Drawn(kids, x)) <= spent[x]
  <2>1. IsFiniteSet(Drawn(m.kids, x)) /\ Cardinality(Drawn(m.kids, x)) \in Nat
    BY <1>1, FS_Subset, FS_CardinalityType DEF Drawn, Cells
  <2>2. Cardinality(Drawn(m.kids, x)) <= m.spent[x] /\ m.spent[x] \in 0..MaxChain
    BY <1>1, <1>2, <1>3 DEF Cells
  <2>3. CASE x = c
    <3>1. Drawn(kids, x) = Drawn(m.kids, x) \cup {<<c, key>>}
      BY <2>3 DEF Drawn
    <3> DEFINE D == Drawn(m.kids, x)
               y == <<c, key>>
    <3>2. Cardinality(D \cup {y}) = Cardinality(D) \/ Cardinality(D \cup {y}) = Cardinality(D) + 1
      <4>1. CASE y \in D
        <5>1. D \cup {y} = D
          BY <4>1
        <5> QED
          BY <5>1
      <4>2. CASE y \notin D
        BY <2>1, <4>2, FS_AddElement
      <4> QED
        BY <4>1, <4>2
    <3>3. Cardinality(Drawn(kids, x)) \in Nat /\ Cardinality(Drawn(kids, x)) <= Cardinality(D) + 1
      BY <2>1, <3>1, <3>2
    <3> QED
      BY <1>3, <2>1, <2>2, <2>3, <3>3, FrontierAssumption
  <2>4. CASE x # c
    <3>1. Drawn(kids, x) = Drawn(m.kids, x)
      BY <2>4 DEF Drawn
    <3> QED
      BY <1>3, <2>2, <2>4, <3>1
  <2> QED
    BY <2>3, <2>4
<1>7. Cells(m, spent, kids)
  BY <1>4, <1>5, <1>6 DEF Cells
<1> QED
  BY <1>7 DEF spent

LEMMA ChildStep ==
  ASSUME NEW m, NEW it \in Item, Sound(m), NEW s, Progress(m, it, s), NEW l \in Link,
         Allowed(l.to), Key(l.to) \notin s.m.visited
  PROVE  Progress(m, it, Child(s, it, l))
<1> DEFINE i == LinkItem(s.m, l.to, it.depth + 1, it.hops, None)
           p == Put(s.m, i)
           t == Child(s, it, l)
<1>1. /\ l.to \in Urls /\ it.depth + 1 \in Nat /\ it.hops \in 0..MaxHops /\ None \in Nat \cup {None}
      /\ Sound(s.m) /\ s = [m |-> s.m, added |-> s.added, over |-> s.over]
  BY DEF Item, Link, Progress
<1>2. i \in Item /\ i.id = s.m.counter + 1 /\ i.url = l.to /\ i.chain = None
  BY <1>1, NextItem
<1>3. CASE it.chain = None
  <2>1. t = [s EXCEPT !.m = p, !.added = @ + 1]
    BY <1>3 DEF Child
  <2>2. Sound(p) /\ Enlarges(s.m, p) /\ (Accounted(s.m) => Accounted(p))
    <3> HIDE DEF i
    <3> QED
      BY <1>1, <1>2, Queueing
  <2> HIDE DEF t, p
  <2>3. t = [m |-> p, added |-> t.added, over |-> t.over]
    BY <1>1, <2>1
  <2>4. Progress(m, it, t)
    BY <2>2, <2>3, ProgressMade
  <2> QED
    BY <2>4 DEF t
<1>4. CASE it.chain # None /\ s.m.spent[it.chain] >= MaxChain
  BY <1>4 DEF Child
<1>5. CASE it.chain # None /\ ~(s.m.spent[it.chain] >= MaxChain)
  <2> DEFINE c == it.chain
             spent == [s.m.spent EXCEPT ![c] = @ + 1]
             kids == s.m.kids \cup {<<c, Key(l.to)>>}
  <2>1. c \in DOMAIN s.m.spent
    BY <1>5 DEF Progress
  <2>2. s.m.spent[c] < MaxChain
    <3>1. s.m.spent[c] \in 0..MaxChain
      BY <1>1, <2>1 DEF Sound, IsMemory
    <3> QED
      BY <1>5, <3>1, FrontierAssumption
  <2>3. Cells(s.m, spent, kids)
    BY <1>1, <2>1, <2>2, CellDrawn
  <2>4. t = [s EXCEPT !.m = [p EXCEPT !.spent = [p.spent EXCEPT ![c] = @ + 1],
                                      !.kids = p.kids \cup {<<c, Key(l.to)>>}]]
    BY <1>5, Zenon DEF Child
  <2> HIDE DEF t, p, i
  <2>5. Allowed(i.url) /\ Key(i.url) \notin s.m.visited
    BY <1>2
  <2>6. p.spent = s.m.spent /\ p.kids = s.m.kids
    BY <1>1, <1>2, <2>5, PutWith DEF p
  <2>7. t = [s EXCEPT !.m = [p EXCEPT !.spent = spent, !.kids = kids]]
    BY <2>4, <2>6, Zenon
  <2> DEFINE n == With(s.m, i, spent, kids)
  <2>8. t = [m |-> n, added |-> t.added, over |-> t.over]
    <3> HIDE DEF spent, kids
    <3>1. [p EXCEPT !.spent = spent, !.kids = kids] = n
      <4>1. Sound(s.m) /\ i \in Item /\ i.id = s.m.counter + 1
        BY <1>1, <1>2
      <4> DEFINE q == [p EXCEPT !.spent = spent]
      <4>2. q = With(s.m, i, spent, s.m.kids)
        BY <2>5, <4>1, PutWith DEF p
      <4> HIDE DEF q
      <4>3. [q EXCEPT !.kids = kids] = With(s.m, i, spent, kids)
        <5>1. SUFFICES ASSUME NEW r, r = s.m, q = With(r, i, spent, r.kids)
                       PROVE  [q EXCEPT !.kids = kids] = With(r, i, spent, kids)
          BY <4>2, Zenon
        <5> DEFINE V == Taken(r, i)
                   P == r.pending \cup {i}
        <5>2. \A ks : With(r, i, spent, ks) = [visited |-> V, pending |-> P,
                counter |-> r.counter + 1, spent |-> spent, kids |-> ks, ended |-> r.ended, gap |-> r.gap]
          BY Zenon DEF With
        <5>3. q = [visited |-> V, pending |-> P, counter |-> r.counter + 1,
                   spent |-> spent, kids |-> r.kids, ended |-> r.ended, gap |-> r.gap]
          BY <5>1, <5>2, Zenon
        <5> HIDE DEF V, P
        <5> QED
          BY <5>2, <5>3
      <4> QED
        BY <4>3, Zenon DEF q
    <3> HIDE DEF n
    <3> QED
      BY <1>1, <2>7, <3>1
  <2> HIDE DEF spent, kids
  <2>9. Progress(m, it, t)
    BY <1>2, <2>3, <2>5, <2>8, LinkQueued
  <2> QED
    BY <2>9 DEF t
<1> QED
  BY <1>3, <1>4, <1>5

LEMMA ConsiderStep ==
  ASSUME NEW m, NEW it \in Item, Sound(m), NEW s, Progress(m, it, s), NEW l \in Link, NEW target
  PROVE  Progress(m, it, Consider(s, it, l, target))
<1> DEFINE Same == Consider(s, it, l, target) = s
           Over == Consider(s, it, l, target) = [s EXCEPT !.over = target = None]
           Found == Allowed(l.to) /\ Key(l.to) \notin s.m.visited
<1>1. \/ Same
      \/ Over
      \/ Found /\ Consider(s, it, l, target) = Hop(s, it, l)
      \/ Found /\ Consider(s, it, l, target) = Child(s, it, l)
  BY DEF Consider
<1>2. CASE Same
  BY <1>2
<1>3. CASE Over
  <2> DEFINE t == Consider(s, it, l, target)
             over == target = None
  <2>1. t = [s EXCEPT !.over = over]
    BY <1>3
  <2>2. s = [m |-> s.m, added |-> s.added, over |-> s.over]
    BY DEF Progress
  <2> HIDE DEF t, over
  <2>3. t = [m |-> t.m, added |-> t.added, over |-> t.over] /\ t.m = s.m
    BY <2>1, <2>2
  <2>4. Progress(m, it, t)
    BY <2>3 DEF Progress
  <2> QED
    BY <2>4 DEF t
<1>4. CASE Found /\ Consider(s, it, l, target) = Hop(s, it, l)
  BY <1>4, HopStep
<1>5. CASE Found /\ Consider(s, it, l, target) = Child(s, it, l)
  BY <1>5, ChildStep
<1> QED
  BY <1>1, <1>2, <1>3, <1>4, <1>5

(* The loop over the links, as the function it is defined to be *)
LEMMA FollowedIs ==
  ASSUME NEW m, NEW it \in Item
  PROVE  LET links  == Links[it.url]
             target == ElectPaginationTarget(links)
             s      == Followed(m, it)
         IN  /\ Len(links) \in Nat
             /\ s[0] = [m |-> m, added |-> 0, over |-> FALSE]
             /\ \A n \in 1..Len(links) : s[n] = Consider(s[n-1], it, links[n], target)
<1> DEFINE links  == Links[it.url]
           target == ElectPaginationTarget(links)
           L      == Len(links)
           first  == [m |-> m, added |-> 0, over |-> FALSE]
           C(x, k) == Consider(x, it, links[k], target)
           Is(g, n) == g = [k \in 0..n |-> IF k = 0 THEN first ELSE C(g[k-1], k)]
           T      == {n \in 0..L : \E g : Is(g, n)}
<1>1. L \in Nat
  BY FrontierAssumption DEF Item
<1>2. Followed(m, it) = CHOOSE g : Is(g, L)
  BY Zenon DEF Followed
<1> HIDE DEF links, target, L, first, C
<1>3. 0 \in T
  <2> DEFINE g == [k \in 0..0 |-> first]
  <2>1. DOMAIN g = 0..0 /\ \A k \in 0..0 : k = 0 /\ g[k] = first
    OBVIOUS
  <2>2. g = [k \in 0..0 |-> IF k = 0 THEN first ELSE C(g[k-1], k)]
    BY <2>1
  <2> HIDE DEF g
  <2> QED
    BY <1>1, <2>2
<1>4. ASSUME NEW n \in 1..L, n - 1 \in T
      PROVE  n \in T
  <2>1. PICK g : g = [k \in 0..(n-1) |-> IF k = 0 THEN first ELSE C(g[k-1], k)]
    BY <1>4
  <2> DEFINE h == [k \in 0..n |-> IF k < n THEN g[k] ELSE C(g[n-1], n)]
  <2>2. n - 1 \in 0..(n-1) /\ \A k \in 0..n : k < n => k \in 0..(n-1)
    OBVIOUS
  <2>3. ASSUME NEW k \in 0..n
        PROVE  h[k] = IF k = 0 THEN first ELSE C(h[k-1], k)
    <3>1. CASE k = n
      <4>1. k # 0 /\ k - 1 \in 0..n /\ k - 1 < n
        BY <3>1
      <4>2. h[k-1] = g[n-1] /\ h[k] = C(g[n-1], n)
        BY <3>1, <4>1
      <4> QED
        BY <3>1, <4>1, <4>2
    <3>2. CASE k < n /\ k # 0
      <4>1. k - 1 \in 0..n /\ k - 1 < n /\ k \in 0..(n-1)
        BY <3>2
      <4>2. h[k-1] = g[k-1] /\ h[k] = g[k]
        BY <3>2, <4>1
      <4>3. g[k] = C(g[k-1], k)
        BY <2>1, <3>2, <4>1
      <4> QED
        BY <3>2, <4>2, <4>3
    <3>3. CASE k = 0
      <4>1. k < n /\ k \in 0..(n-1)
        BY <3>3
      <4>2. h[k] = g[k] /\ g[k] = first
        BY <2>1, <3>3, <4>1
      <4> QED
        BY <3>3, <4>2
    <3> QED
      BY <3>1, <3>2, <3>3
  <2>4. h = [k \in 0..n |-> h[k]]
    OBVIOUS
  <2> HIDE DEF h
  <2>5. h = [k \in 0..n |-> IF k = 0 THEN first ELSE C(h[k-1], k)]
    BY <2>3, <2>4
  <2>6. n \in 0..L
    OBVIOUS
  <2> QED
    BY <2>5, <2>6
<1>5. \E g : Is(g, L)
  <2> HIDE DEF T
  <2>1. \A n \in 0..L : n \in T
    BY <1>1, <1>3, <1>4, BoundedInduction
  <2>2. L \in T
    BY <1>1, <2>1
  <2> QED
    BY <2>2 DEF T
<1> DEFINE s == Followed(m, it)
<1>6. Is(s, L)
  <2> HIDE DEF Is
  <2> QED
    BY <1>2, <1>5, Zenon
<1>7. s[0] = first /\ \A n \in 1..L : s[n] = C(s[n-1], n)
  <2> HIDE DEF s
  <2>1. \A n \in 1..L : n \in 0..L /\ n # 0
    OBVIOUS
  <2>2. 0 \in 0..L
    BY <1>1
  <2> QED
    BY <1>6, <2>1, <2>2
<1> QED
  BY <1>1, <1>7 DEF links, target, L, first, C

(* _enqueue_links queues pages and forgets none. *)
LEMMA LinksFollowed ==
  ASSUME NEW m, Sound(m), NEW it \in Item, it.chain # None => it.chain \in DOMAIN m.spent
  PROVE  LET n == EnqueueLinks(m, it)
         IN  Sound(n) /\ Enlarges(m, n) /\ (Accounted(m) => Accounted(n))
<1> DEFINE links  == Links[it.url]
           target == ElectPaginationTarget(links)
           L      == Len(links)
           s      == Followed(m, it)
           T      == {n \in 0..L : Progress(m, it, s[n])}
<1>1. L \in Nat /\ \A n \in 1..L : links[n] \in Link
  <2>1. it.url \in Urls
    BY DEF Item
  <2>2. Links[it.url] \in Seq(Link)
    BY <2>1, FrontierAssumption DEF Link
  <2> QED
    BY <2>2
<1>2. s[0] = [m |-> m, added |-> 0, over |-> FALSE]
  BY FollowedIs
<1>3. \A n \in 1..L : s[n] = Consider(s[n-1], it, links[n], target)
  BY FollowedIs
<1> HIDE DEF s, links, target, L
<1>4. 0 \in T
  <2>1. s[0] = [m |-> s[0].m, added |-> s[0].added, over |-> s[0].over] /\ s[0].m = m
    BY <1>2
  <2> QED
    BY <1>1, <2>1, EnlargesRefl DEF Progress
<1>5. ASSUME NEW n \in 1..L, n - 1 \in T
      PROVE  n \in T
  BY <1>1, <1>3, <1>5, ConsiderStep
<1>6. L \in T
  <2> HIDE DEF T
  <2>1. \A n \in 0..L : n \in T
    BY <1>1, <1>4, <1>5, BoundedInduction
  <2> QED
    BY <1>1, <2>1
<1>7. EnqueueLinks(m, it) = s[L].m
  BY DEF EnqueueLinks, s, L, links
<1> QED
  BY <1>6, <1>7 DEF Progress

-----------------------------------------------------------------------------
(* Where a run begins: the seeds, or a row read back *)

LEMMA BootstrapType ==
  ASSUME NEW h \in SUBSET Urls
  PROVE  Bootstrap(h) \subseteq Urls
BY FrontierAssumption DEF Bootstrap, Key

Blank(h) ==
  [visited |-> Bootstrap(h), pending |-> {}, counter |-> 0, spent |-> <<>>,
   kids |-> {}, ended |-> {}, gap |-> Bootstrap(h)]

LEMMA BlankSound ==
  ASSUME NEW h \in SUBSET Urls
  PROVE  Sound(Blank(h)) /\ Accounted(Blank(h))
<1> DEFINE m == Blank(h)
           B == Bootstrap(h)
<1>1. /\ m.visited = B /\ m.pending = {} /\ m.counter = 0 /\ DOMAIN m.spent = {}
      /\ m.kids = {} /\ m.ended = {} /\ m.gap = B
      /\ m = [visited |-> m.visited, pending |-> m.pending, counter |-> m.counter, spent |-> m.spent,
              kids |-> m.kids, ended |-> m.ended, gap |-> m.gap]
  <2> HIDE DEF B
  <2> QED
    BY DEF Blank, B
<1>2. B \subseteq Urls
  BY BootstrapType
<1>3. IsFiniteSet({})
  BY FS_EmptySet
<1> HIDE DEF m, B
<1>4. IsMemory(m)
  BY <1>1, <1>2 DEF IsMemory
<1>5. Sound(m) /\ Accounted(m)
  BY <1>1, <1>3, <1>4 DEF Sound, Accounted
<1> QED
  BY <1>5 DEF m

LEMMA SeededIs ==
  ASSUME NEW h
  PROVE  LET s == Seeded(h)
         IN  /\ Len(Seeds) \in Nat
             /\ s[0] = Blank(h)
             /\ \A n \in 1..Len(Seeds) : s[n] = Put(s[n-1], SeedItem(s[n-1], Seeds[n]))
<1> DEFINE L      == Len(Seeds)
           first  == Blank(h)
           C(x, k) == Put(x, SeedItem(x, Seeds[k]))
           Is(g, n) == g = [k \in 0..n |-> IF k = 0 THEN first ELSE C(g[k-1], k)]
           T      == {n \in 0..L : \E g : Is(g, n)}
<1>1. L \in Nat
  BY FrontierAssumption
<1>2. Seeded(h) = CHOOSE g : Is(g, L)
  BY Zenon DEF Seeded, Blank
<1> HIDE DEF L, first, C
<1>3. 0 \in T
  <2> DEFINE g == [k \in 0..0 |-> first]
  <2>1. DOMAIN g = 0..0 /\ \A k \in 0..0 : k = 0 /\ g[k] = first
    OBVIOUS
  <2>2. g = [k \in 0..0 |-> IF k = 0 THEN first ELSE C(g[k-1], k)]
    BY <2>1
  <2> HIDE DEF g
  <2> QED
    BY <1>1, <2>2
<1>4. ASSUME NEW n \in 1..L, n - 1 \in T
      PROVE  n \in T
  <2>1. PICK g : g = [k \in 0..(n-1) |-> IF k = 0 THEN first ELSE C(g[k-1], k)]
    BY <1>4
  <2> DEFINE f == [k \in 0..n |-> IF k < n THEN g[k] ELSE C(g[n-1], n)]
  <2>2. n - 1 \in 0..(n-1) /\ \A k \in 0..n : k < n => k \in 0..(n-1)
    OBVIOUS
  <2>3. ASSUME NEW k \in 0..n
        PROVE  f[k] = IF k = 0 THEN first ELSE C(f[k-1], k)
    <3>1. CASE k = n
      <4>1. k # 0 /\ k - 1 \in 0..n /\ k - 1 < n
        BY <3>1
      <4>2. f[k-1] = g[n-1] /\ f[k] = C(g[n-1], n)
        BY <3>1, <4>1
      <4> QED
        BY <3>1, <4>1, <4>2
    <3>2. CASE k < n /\ k # 0
      <4>1. k - 1 \in 0..n /\ k - 1 < n /\ k \in 0..(n-1)
        BY <3>2
      <4>2. f[k-1] = g[k-1] /\ f[k] = g[k]
        BY <3>2, <4>1
      <4>3. g[k] = C(g[k-1], k)
        BY <2>1, <3>2, <4>1
      <4> QED
        BY <3>2, <4>2, <4>3
    <3>3. CASE k = 0
      <4>1. k < n /\ k \in 0..(n-1)
        BY <3>3
      <4>2. f[k] = g[k] /\ g[k] = first
        BY <2>1, <3>3, <4>1
      <4> QED
        BY <3>3, <4>2
    <3> QED
      BY <3>1, <3>2, <3>3
  <2>4. f = [k \in 0..n |-> f[k]]
    OBVIOUS
  <2> HIDE DEF f
  <2>5. f = [k \in 0..n |-> IF k = 0 THEN first ELSE C(f[k-1], k)]
    BY <2>3, <2>4
  <2>6. n \in 0..L
    OBVIOUS
  <2> QED
    BY <2>5, <2>6
<1>5. \E g : Is(g, L)
  <2> HIDE DEF T
  <2>1. \A n \in 0..L : n \in T
    BY <1>1, <1>3, <1>4, BoundedInduction
  <2>2. L \in T
    BY <1>1, <2>1
  <2> QED
    BY <2>2 DEF T
<1> DEFINE s == Seeded(h)
<1>6. Is(s, L)
  <2> HIDE DEF Is
  <2> QED
    BY <1>2, <1>5, Zenon
<1>7. s[0] = first /\ \A n \in 1..L : s[n] = C(s[n-1], n)
  <2> HIDE DEF s
  <2>1. \A n \in 1..L : n \in 0..L /\ n # 0
    OBVIOUS
  <2>2. 0 \in 0..L
    BY <1>1
  <2> QED
    BY <1>6, <2>1, <2>2
<1> QED
  BY <1>1, <1>7 DEF L, first, C

(* A run from the seeds *)
LEMMA FreshSound ==
  ASSUME NEW h \in SUBSET Urls
  PROVE  Sound(Fresh(h)) /\ Accounted(Fresh(h))
<1> DEFINE L == Len(Seeds)
           s == Seeded(h)
           T == {n \in 0..L : Sound(s[n]) /\ Accounted(s[n])}
<1>1. L \in Nat /\ \A n \in 1..L : Seeds[n] \in Urls
  BY FrontierAssumption
<1>2. s[0] = Blank(h) /\ \A n \in 1..L : s[n] = Put(s[n-1], SeedItem(s[n-1], Seeds[n]))
  BY SeededIs
<1> HIDE DEF s, L
<1>3. 0 \in T
  BY <1>1, <1>2, BlankSound
<1>4. ASSUME NEW n \in 1..L, n - 1 \in T
      PROVE  n \in T
  <2> DEFINE m == s[n-1]
             i == SeedItem(m, Seeds[n])
  <2>1. Sound(m) /\ Accounted(m) /\ Seeds[n] \in Urls
    BY <1>1, <1>4
  <2>2. i \in Item /\ i.id = m.counter + 1 /\ i.chain = None
    BY <2>1, NextItem
  <2>3. s[n] = Put(m, i)
    BY <1>2
  <2> HIDE DEF m, i
  <2>4. Sound(s[n]) /\ Accounted(s[n])
    BY <2>1, <2>2, <2>3, Queueing
  <2> QED
    BY <2>4
<1>5. L \in T
  <2> HIDE DEF T
  <2>1. \A n \in 0..L : n \in T
    BY <1>1, <1>3, <1>4, BoundedInduction
  <2> QED
    BY <1>1, <2>1
<1>6. Fresh(h) = s[L]
  BY DEF Fresh, s, L
<1> QED
  BY <1>5, <1>6

(* A run from a checkpoint: the history only adds to what is known. *)
LEMMA RehydrateSound ==
  ASSUME NEW d, NEW h \in SUBSET Urls, Sound(Rehydrate(d, {})), Accounted(Rehydrate(d, {}))
  PROVE  Sound(Rehydrate(d, h)) /\ Accounted(Rehydrate(d, h))
<1> DEFINE m == Rehydrate(d, {})
           n == Rehydrate(d, h)
           B == Bootstrap(h)
<1>1. Bootstrap({}) = {}
  BY DEF Bootstrap
<1>2. B \subseteq Urls
  BY BootstrapType
<1>3. /\ n.visited = m.visited \cup B /\ n.pending = m.pending /\ n.counter = m.counter
      /\ n.spent = m.spent /\ n.kids = m.kids /\ n.ended = m.ended /\ n.gap = m.gap \cup B
      /\ n = [visited |-> n.visited, pending |-> n.pending, counter |-> n.counter, spent |-> n.spent,
              kids |-> n.kids, ended |-> n.ended, gap |-> n.gap]
  <2> HIDE DEF B
  <2> QED
    BY <1>1 DEF Rehydrate, B
<1>4. Sound(m) /\ Accounted(m)
  OBVIOUS
<1> HIDE DEF m, n, B
<1>5. IsMemory(n)
  <2>1. n.visited \cup n.ended \cup n.gap \subseteq Urls
    BY <1>2, <1>3, <1>4 DEF Sound, IsMemory
  <2> QED
    BY <1>3, <1>4, <2>1 DEF Sound, IsMemory
<1>6. Sound(n)
  BY <1>3, <1>4, <1>5 DEF Sound
<1>7. Accounted(n)
  BY <1>3, <1>4 DEF Accounted
<1> QED
  BY <1>6, <1>7 DEF n

-----------------------------------------------------------------------------
(* Items leave the queue *)

(* n is what a step makes of m: what left the queue has ended. *)
Moves(m, n) ==
  /\ Sound(n) /\ Grows(m, n) /\ (Accounted(m) => Accounted(n))
  /\ \A i \in m.pending \ n.pending : Key(i.url) \in n.ended

Without(m, H, e) ==
  [visited |-> m.visited, pending |-> m.pending \ H, counter |-> m.counter, spent |-> m.spent,
   kids |-> m.kids, ended |-> e, gap |-> m.gap]

LEMMA ItemsGone ==
  ASSUME NEW m, Sound(m), NEW H, NEW e, m.ended \subseteq e, e \subseteq Urls
  PROVE  Sound(Without(m, H, e)) /\ Grows(m, Without(m, H, e))
<1> DEFINE n == Without(m, H, e)
<1>1. /\ n.visited = m.visited /\ n.pending = m.pending \ H /\ n.counter = m.counter
      /\ n.spent = m.spent /\ n.kids = m.kids /\ n.ended = e /\ n.gap = m.gap
      /\ n = [visited |-> n.visited, pending |-> n.pending, counter |-> n.counter, spent |-> n.spent,
              kids |-> n.kids, ended |-> n.ended, gap |-> n.gap]
  BY DEF Without
<1> HIDE DEF n
<1>2. IsMemory(n)
  <2>1. n.visited \cup n.ended \cup n.gap \subseteq Urls
    BY <1>1 DEF Sound, IsMemory
  <2>2. \A i \in n.pending : i \in Item /\ (i.chain # None => i.chain \in DOMAIN n.spent)
    BY <1>1 DEF Sound, IsMemory
  <2>3. n.counter \in Nat /\ DOMAIN n.spent \subseteq 1..n.counter /\ \A c \in DOMAIN n.spent : n.spent[c] \in 0..MaxChain
    BY <1>1 DEF Sound, IsMemory
  <2> QED
    BY <1>1, <2>1, <2>2, <2>3 DEF IsMemory
<1>3. IsFiniteSet(n.pending)
  BY <1>1, FS_Subset DEF Sound
<1>4. Sound(n)
  BY <1>1, <1>2, <1>3 DEF Sound
<1>5. Grows(m, n)
  <2>1. m.counter <= m.counter
    BY DEF Sound, IsMemory
  <2>2. \A c \in DOMAIN m.spent : m.spent[c] <= m.spent[c]
    BY FrontierAssumption DEF Sound, IsMemory
  <2> QED
    BY <1>1, <2>1, <2>2 DEF Grows
<1> QED
  BY <1>4, <1>5 DEF n

LEMMA ItemsEnded ==
  ASSUME NEW m, Accounted(m), NEW H, NEW e, m.ended \subseteq e,
         \A i \in H \cap m.pending : Key(i.url) \in e
  PROVE  Accounted(Without(m, H, e))
<1> DEFINE n == Without(m, H, e)
<1>1. n.visited = m.visited /\ n.pending = m.pending \ H /\ n.ended = e /\ n.gap = m.gap
  BY DEF Without
<1> HIDE DEF n
<1>2. Accounted(n)
  BY <1>1 DEF Accounted, Keys
<1> QED
  BY <1>2 DEF n

LEMMA WithoutIs ==
  ASSUME NEW n, Sound(n), NEW P, NEW e
  PROVE  [n EXCEPT !.pending = P, !.ended = e] =
           [visited |-> n.visited, pending |-> P, counter |-> n.counter, spent |-> n.spent,
            kids |-> n.kids, ended |-> e, gap |-> n.gap]
<1> DEFINE q == [n EXCEPT !.pending = P]
<1>1. n = [visited |-> n.visited, pending |-> n.pending, counter |-> n.counter, spent |-> n.spent,
           kids |-> n.kids, ended |-> n.ended, gap |-> n.gap]
  BY DEF Sound, IsMemory
<1>2. q = [visited |-> n.visited, pending |-> P, counter |-> n.counter, spent |-> n.spent,
           kids |-> n.kids, ended |-> n.ended, gap |-> n.gap]
  BY <1>1
<1> HIDE DEF q
<1>3. [q EXCEPT !.ended = e] =
           [visited |-> n.visited, pending |-> P, counter |-> n.counter, spent |-> n.spent,
            kids |-> n.kids, ended |-> e, gap |-> n.gap]
  BY <1>2
<1> QED
  BY <1>3, Zenon DEF q

(* A worker's item ends, after its links were followed or not. *)
Ended(n, i) == Without(n, {i}, n.ended \cup {Key(i.url)})

LEMMA ItemEnds ==
  ASSUME NEW m, Sound(m), NEW n, Sound(n), Enlarges(m, n), Accounted(m) => Accounted(n),
         NEW i \in m.pending
  PROVE  /\ Moves(m, Ended(n, i))
         /\ Ended(n, i).pending = n.pending \ {i}
         /\ Cardinality(Ended(n, i).pending) = Cardinality(m.pending) + n.counter - m.counter - 1
<1> DEFINE H == {i}
           e == n.ended \cup {Key(i.url)}
           p == Without(n, H, e)
<1>1. i \in n.pending /\ Key(i.url) \in Urls /\ n.ended \subseteq e /\ e \subseteq Urls
  <2>1. i \in n.pending
    BY DEF Enlarges
  <2>2. i \in Item
    BY DEF Sound, IsMemory
  <2> QED
    BY <2>1, <2>2, FrontierAssumption DEF Sound, IsMemory, Item, Key
<1>2. p.pending = n.pending \ {i} /\ p.ended = e /\ Key(i.url) \in e
  BY DEF Without
<1>0. p = Ended(n, i)
  BY DEF Ended
<1> HIDE DEF p, e
<1>3. \A j \in H \cap n.pending : Key(j.url) \in e
  BY <1>2
<1>4. Sound(p) /\ Grows(n, p) /\ (Accounted(n) => Accounted(p))
  <2> HIDE DEF H
  <2> QED
    BY <1>1, <1>3, ItemsGone, ItemsEnded DEF p
<1>5. Grows(m, p)
  BY <1>4, GrowsTrans DEF Enlarges
<1>6. \A j \in m.pending \ p.pending : Key(j.url) \in p.ended
  BY <1>2 DEF Enlarges
<1>7. Cardinality(p.pending) = Cardinality(n.pending) - 1
  BY <1>1, <1>2, FS_RemoveElement DEF Sound
<1>8. Cardinality(p.pending) = Cardinality(m.pending) + n.counter - m.counter - 1
  <2>1. Cardinality(m.pending) \in Nat /\ m.counter \in Nat /\ n.counter \in Nat /\ Cardinality(n.pending) \in Nat
    BY FS_CardinalityType DEF Sound, IsMemory
  <2> QED
    BY <1>7, <2>1 DEF Enlarges
<1> QED
  BY <1>0, <1>2, <1>4, <1>5, <1>6, <1>8 DEF Moves

-----------------------------------------------------------------------------
(* The invariant *)

(* The row that the checkpoint is about to write, read back *)
Row(c, m) ==
  [visited |-> m.visited, pending |-> c.items, counter |-> m.counter, spent |-> c.spent,
   kids |-> {k \in c.from.kids : k[1] \in DOMAIN c.spent}, ended |-> m.ended,
   gap |-> m.gap \cup (m.visited \ c.from.visited)]

(* The pending items, as the queue and the workers see them *)
Balanced ==
  /\ phase = "running" => unfinished = Cardinality(mem.pending) /\ Held \subseteq mem.pending
  /\ \A v, w \in Workers : hand[v].item = hand[w].item => v = w \/ hand[v].item = None
  /\ phase = "down" => Held = {}
  /\ phase # "cancelled" => Accounted(mem)

(* Between a checkpoint's reads, what it read before is what the engine    *)
(* was: whatever has left the queue since has ended.                       *)
Reading ==
  ckpt.pc \in {"items", "visited"} =>
    /\ phase \notin {"finished", "done", "down"}
    /\ Sound(ckpt.from) /\ Accounted(ckpt.from) /\ Grows(ckpt.from, mem)

Lately ==
  ckpt.pc = "items" /\ phase # "cancelled" =>
    \A i \in ckpt.from.pending \ mem.pending : Key(i.url) \in mem.ended

Writing ==
  ckpt.pc = "visited" =>
    /\ Sound(Row(ckpt, mem))
    /\ phase # "cancelled" => Accounted(Row(ckpt, mem))

(* What a resume would start from *)
Saved ==
  /\ disk # None => /\ Sound(Rehydrate(disk, {}))
                    /\ phase # "cancelled" => Accounted(Rehydrate(disk, {}))
  /\ phase = "done" => disk = None

IInv == TypeOK /\ Sound(mem) /\ Balanced /\ Reading /\ Lately /\ Writing /\ Saved

-----------------------------------------------------------------------------
(* The checkpoint while the engine goes on *)

LEMMA RowIs ==
  ASSUME NEW c, NEW m
  PROVE  LET r == Row(c, m)
         IN  /\ r.visited = m.visited /\ r.pending = c.items /\ r.counter = m.counter
             /\ r.spent = c.spent /\ r.kids = {k \in c.from.kids : k[1] \in DOMAIN c.spent}
             /\ r.ended = m.ended /\ r.gap = m.gap \cup (m.visited \ c.from.visited)
             /\ r = [visited |-> r.visited, pending |-> r.pending, counter |-> r.counter,
                     spent |-> r.spent, kids |-> r.kids, ended |-> r.ended, gap |-> r.gap]
<1> DEFINE K == {k \in c.from.kids : k[1] \in DOMAIN c.spent}
           G == m.gap \cup (m.visited \ c.from.visited)
           r == Row(c, m)
<1>1. r = [visited |-> m.visited, pending |-> c.items, counter |-> m.counter, spent |-> c.spent,
           kids |-> K, ended |-> m.ended, gap |-> G]
  BY Zenon DEF Row
<1> HIDE DEF K, G, r
<1>2. /\ r.visited = m.visited /\ r.pending = c.items /\ r.counter = m.counter
      /\ r.spent = c.spent /\ r.kids = K /\ r.ended = m.ended /\ r.gap = G
      /\ r = [visited |-> r.visited, pending |-> r.pending, counter |-> r.counter,
              spent |-> r.spent, kids |-> r.kids, ended |-> r.ended, gap |-> r.gap]
  BY <1>1
<1> QED
  BY <1>2, Zenon DEF K, G, r

(* What the loop does while a row is being written keeps the row good. *)
LEMMA RowMoves ==
  ASSUME NEW c, NEW m, NEW n, Sound(m), Sound(n), Grows(c.from, m), Grows(m, n), Sound(Row(c, m))
  PROVE  Sound(Row(c, n)) /\ (Accounted(Row(c, m)) => Accounted(Row(c, n)))
<1> DEFINE r == Row(c, m)
           q == Row(c, n)
<1>1. /\ r.visited = m.visited /\ r.pending = c.items /\ r.counter = m.counter /\ r.spent = c.spent
      /\ r.ended = m.ended /\ r.gap = m.gap \cup (m.visited \ c.from.visited)
  BY RowIs
<1>2. /\ q.visited = n.visited /\ q.pending = c.items /\ q.counter = n.counter /\ q.spent = c.spent
      /\ q.kids = r.kids /\ q.ended = n.ended /\ q.gap = n.gap \cup (n.visited \ c.from.visited)
      /\ q = [visited |-> q.visited, pending |-> q.pending, counter |-> q.counter,
              spent |-> q.spent, kids |-> q.kids, ended |-> q.ended, gap |-> q.gap]
  <2> DEFINE K == {k \in c.from.kids : k[1] \in DOMAIN c.spent}
  <2>1. r.kids = K
    BY RowIs
  <2>2. q.kids = K
    BY RowIs
  <2> HIDE DEF K
  <2>3. q.kids = r.kids
    BY <2>1, <2>2, Zenon
  <2> QED
    BY <2>3, RowIs
<1>3. Sound(r)
  OBVIOUS
<1> HIDE DEF r, q
<1>4. /\ m.counter \in Nat /\ n.counter \in Nat /\ m.counter <= n.counter /\ m.visited \subseteq n.visited
      /\ m.ended \subseteq n.ended /\ m.gap = n.gap /\ c.from.visited \subseteq m.visited
  BY DEF Sound, IsMemory, Grows
<1>5. IsMemory(q)
  <2>1. \A i \in q.pending : i \in Item /\ (i.chain # None => i.chain \in DOMAIN q.spent)
    BY <1>1, <1>2, <1>3 DEF Sound, IsMemory
  <2>2. DOMAIN q.spent \subseteq 1..q.counter
    BY <1>1, <1>2, <1>3, <1>4 DEF Sound, IsMemory
  <2>3. q.visited \cup q.ended \cup q.gap \subseteq Urls
    BY <1>2 DEF Sound, IsMemory
  <2>4. q.counter \in Nat /\ \A x \in DOMAIN q.spent : q.spent[x] \in 0..MaxChain
    BY <1>1, <1>2, <1>3, <1>4 DEF Sound, IsMemory
  <2> QED
    BY <1>2, <2>1, <2>2, <2>3, <2>4 DEF IsMemory
<1>6. \A i \in q.pending : i.id <= q.counter /\ (~i.seed => Key(i.url) \in q.visited)
  <2> SUFFICES ASSUME NEW i \in q.pending
               PROVE  i.id <= q.counter /\ (~i.seed => Key(i.url) \in q.visited)
    OBVIOUS
  <2>1. i \in r.pending /\ i.id \in Nat
    BY <1>1, <1>2, <1>5 DEF IsMemory, Item
  <2>2. i.id <= m.counter /\ (~i.seed => Key(i.url) \in m.visited)
    BY <1>1, <1>3, <2>1 DEF Sound
  <2> QED
    BY <1>2, <1>4, <2>1, <2>2
<1>7. Sound(q)
  BY <1>1, <1>2, <1>3, <1>5, <1>6 DEF Sound
<1>8. ASSUME Accounted(r)
      PROVE  Accounted(q)
  <2>1. Keys(q.pending) = Keys(r.pending)
    BY <1>1, <1>2
  <2>2. \A x \in m.visited : x \in r.gap \cup Keys(r.pending) \cup r.ended
    BY <1>1, <1>8 DEF Accounted
  <2>3. ASSUME NEW x \in n.visited
        PROVE  x \in q.gap \cup Keys(q.pending) \cup q.ended
    <3>1. CASE x \notin m.visited
      BY <1>2, <1>4, <3>1
    <3>2. CASE x \in m.visited
      BY <1>1, <1>2, <1>4, <2>1, <2>2, <3>2
    <3> QED
      BY <3>1, <3>2
  <2> QED
    BY <1>2, <2>3 DEF Accounted
<1> QED
  BY <1>7, <1>8 DEF r, q

LEMMA CheckpointStays ==
  ASSUME Sound(mem), Reading, Lately, Writing, Moves(mem, mem'), UNCHANGED <<ckpt, phase>>
  PROVE  Reading' /\ Lately' /\ Writing'
<1>1. Sound(mem') /\ Grows(mem, mem') /\ \A i \in mem.pending \ mem'.pending : Key(i.url) \in mem'.ended
  BY DEF Moves
<1>2. Reading'
  <2> SUFFICES ASSUME ckpt.pc \in {"items", "visited"}
               PROVE  Grows(ckpt.from, mem')
    BY DEF Reading
  <2>1. Sound(ckpt.from) /\ Grows(ckpt.from, mem)
    BY DEF Reading
  <2> QED
    BY <1>1, <2>1, GrowsTrans
<1>3. Lately'
  <2> SUFFICES ASSUME ckpt.pc = "items", phase # "cancelled", NEW i \in ckpt.from.pending \ mem'.pending
               PROVE  Key(i.url) \in mem'.ended
    BY DEF Lately
  <2>1. CASE i \in mem.pending
    BY <1>1, <2>1
  <2>2. CASE i \notin mem.pending
    BY <1>1, <2>2 DEF Lately, Grows
  <2> QED
    BY <2>1, <2>2
<1>4. Writing'
  <2> SUFFICES ASSUME ckpt.pc = "visited"
               PROVE  /\ Sound(Row(ckpt, mem'))
                      /\ phase # "cancelled" => Accounted(Row(ckpt, mem'))
    BY DEF Writing
  <2>1. Grows(ckpt.from, mem) /\ Sound(Row(ckpt, mem)) /\ (phase # "cancelled" => Accounted(Row(ckpt, mem)))
    BY DEF Reading, Writing
  <2> QED
    BY <1>1, <2>1, RowMoves
<1> QED
  BY <1>2, <1>3, <1>4

(* The items a checkpoint reads, while the queue changes under it *)
LEMMA RowRead ==
  ASSUME NEW a, NEW m, Sound(a), Sound(m), Accounted(a), Grows(a, m),
         NEW s, s \in {a.pending, m.pending, a.pending \cap m.pending, a.pending \cup m.pending},
         NEW cells, cells = a.spent \/ cells = m.spent,
         \A i \in s : i.chain # None => i.chain \in DOMAIN cells,
         NEW c, c.from = a, c.items = s, c.spent = cells
  PROVE  /\ Sound(Row(c, m))
         /\ (\A i \in a.pending \ m.pending : Key(i.url) \in m.ended) => Accounted(Row(c, m))
<1> DEFINE r == Row(c, m)
<1>1. /\ r.visited = m.visited /\ r.pending = s /\ r.counter = m.counter /\ r.spent = cells
      /\ r.kids = {k \in a.kids : k[1] \in DOMAIN cells}
      /\ r.ended = m.ended /\ r.gap = m.gap \cup (m.visited \ a.visited)
      /\ r = [visited |-> r.visited, pending |-> r.pending, counter |-> r.counter,
              spent |-> r.spent, kids |-> r.kids, ended |-> r.ended, gap |-> r.gap]
  BY RowIs
<1> HIDE DEF r
<1>2. s \subseteq a.pending \cup m.pending
  OBVIOUS
<1>3. /\ a.counter \in Nat /\ m.counter \in Nat /\ a.counter <= m.counter /\ a.visited \subseteq m.visited
      /\ a.ended \subseteq m.ended /\ a.gap = m.gap /\ DOMAIN a.spent \subseteq DOMAIN m.spent
  BY DEF Sound, IsMemory, Grows
<1>4. \A i \in s : i \in Item /\ i.id \in Nat
  BY <1>2 DEF Sound, IsMemory, Item
<1>5. DOMAIN a.spent \subseteq DOMAIN cells /\ DOMAIN cells \subseteq 1..m.counter
      /\ \A x \in DOMAIN cells : cells[x] \in 0..MaxChain
  BY <1>3 DEF Sound, IsMemory
<1>6. IsMemory(r)
  <2>1. r.visited \cup r.ended \cup r.gap \subseteq Urls
    BY <1>1 DEF Sound, IsMemory
  <2> QED
    BY <1>1, <1>3, <1>4, <1>5, <2>1 DEF IsMemory
<1>7. IsFiniteSet(s)
  <2>1. IsFiniteSet(a.pending \cup m.pending)
    BY FS_Union DEF Sound
  <2> QED
    BY <1>2, <2>1, FS_Subset
<1>8. ASSUME NEW i \in s
      PROVE  i.id <= m.counter /\ (~i.seed => Key(i.url) \in m.visited)
  <2>1. CASE i \in a.pending
    <3>1. i.id <= a.counter /\ (~i.seed => Key(i.url) \in a.visited)
      BY <2>1 DEF Sound
    <3> QED
      BY <1>3, <1>4, <3>1
  <2>2. CASE i \in m.pending
    BY <2>2 DEF Sound
  <2> QED
    BY <1>2, <2>1, <2>2
<1>9. ASSUME NEW i \in s, NEW j \in s
      PROVE  /\ i.id = j.id => i = j
             /\ ~i.seed /\ ~j.seed /\ Key(i.url) = Key(j.url) => i = j
  <2>1. \A x, y : x \in a.pending /\ y \in m.pending \ a.pending =>
          /\ x.id # y.id
          /\ ~x.seed /\ ~y.seed => Key(x.url) # Key(y.url)
    <3> SUFFICES ASSUME NEW x \in a.pending, NEW y \in m.pending \ a.pending
                 PROVE  /\ x.id # y.id
                        /\ ~x.seed /\ ~y.seed => Key(x.url) # Key(y.url)
      OBVIOUS
    <3>1. x.id <= a.counter /\ x.id \in Nat /\ y.id > a.counter /\ y.id \in Nat
      BY DEF Sound, Grows, IsMemory, Item
    <3>2. (~x.seed => Key(x.url) \in a.visited) /\ (~y.seed => Key(y.url) \notin a.visited)
      BY DEF Sound, Grows
    <3> QED
      BY <1>3, <3>1, <3>2
  <2>2. CASE i \in a.pending /\ j \in a.pending
    BY <2>2 DEF Sound
  <2>3. CASE i \in m.pending /\ j \in m.pending
    BY <2>3 DEF Sound
  <2>4. CASE i \in a.pending /\ j \in m.pending \ a.pending
    BY <2>1, <2>4
  <2>5. CASE j \in a.pending /\ i \in m.pending \ a.pending
    <3>1. /\ j.id # i.id
          /\ ~j.seed /\ ~i.seed => Key(j.url) # Key(i.url)
      BY <2>1, <2>5
    <3> QED
      BY <3>1
  <2> QED
    BY <1>2, <2>2, <2>3, <2>4, <2>5
<1>10. IsFiniteSet(r.kids) /\ \A k \in r.kids : k[1] \in DOMAIN r.spent
  <2>1. r.kids \subseteq a.kids
    BY <1>1
  <2> QED
    BY <1>1, <2>1, FS_Subset DEF Sound
<1>11. ASSUME NEW x \in DOMAIN cells
       PROVE  Cardinality(Drawn(r.kids, x)) <= cells[x]
  <2>1. Drawn(r.kids, x) = Drawn(a.kids, x)
    BY <1>1 DEF Drawn
  <2>2. CASE x \in DOMAIN a.spent
    <3>1. Cardinality(Drawn(a.kids, x)) <= a.spent[x] /\ a.spent[x] <= cells[x]
      BY <2>2, FrontierAssumption DEF Sound, Grows, IsMemory
    <3>2. IsFiniteSet(Drawn(a.kids, x))
      BY FS_Subset DEF Drawn, Sound
    <3>3. Cardinality(Drawn(a.kids, x)) \in Nat /\ a.spent[x] \in Nat /\ cells[x] \in Nat
      BY <1>5, <2>2, <3>2, FS_CardinalityType, FrontierAssumption DEF Sound, IsMemory
    <3> QED
      BY <2>1, <3>1, <3>3
  <2>3. CASE x \notin DOMAIN a.spent
    <3>1. Drawn(a.kids, x) = {}
      BY <2>3 DEF Drawn, Sound
    <3>2. Cardinality(Drawn(r.kids, x)) = 0
      BY <2>1, <3>1, FS_EmptySet
    <3> QED
      BY <1>5, <3>2, FrontierAssumption
  <2> QED
    BY <2>2, <2>3
<1>12. Sound(r)
  BY <1>1, <1>6, <1>7, <1>8, <1>9, <1>10, <1>11 DEF Sound
<1>13. ASSUME \A i \in a.pending \ m.pending : Key(i.url) \in m.ended
       PROVE  Accounted(r)
  <2> SUFFICES ASSUME NEW x \in a.visited
               PROVE  x \in r.gap \cup Keys(s) \cup r.ended
    BY <1>1 DEF Accounted
  <2>1. CASE x \in a.gap \cup a.ended
    BY <1>1, <1>3, <2>1
  <2>2. CASE x \in Keys(a.pending)
    <3>1. PICK i \in a.pending : x = Key(i.url)
      BY <2>2 DEF Keys
    <3>2. CASE i \in s
      BY <3>1, <3>2 DEF Keys
    <3>3. CASE i \notin s
      BY <1>1, <1>13, <3>1, <3>3
    <3> QED
      BY <3>2, <3>3
  <2> QED
    BY <2>1, <2>2 DEF Accounted
<1> QED
  BY <1>12, <1>13 DEF r

-----------------------------------------------------------------------------
(* The invariant is inductive *)

HandOK(h) ==
  /\ \A w \in Workers : \/ h[w] = Idle
                        \/ h[w].pc \in {"fetch", "parse"} /\ h[w].item \in Item
  /\ h = [w \in Workers |-> [pc |-> h[w].pc, item |-> h[w].item]]

Hands(g, h, w, x) == h = [g EXCEPT ![w] = x]

LEMMA HandSet ==
  ASSUME NEW g, NEW h, HandOK(g), NEW w \in Workers, NEW x, Hands(g, h, w, x),
         x = [pc |-> x.pc, item |-> x.item], x = Idle \/ (x.pc \in {"fetch", "parse"} /\ x.item \in Item)
  PROVE  HandOK(h) /\ h[w] = x /\ \A v \in Workers \ {w} : h[v] = g[v]
<1>1. h[w] = x /\ (\A v \in Workers \ {w} : h[v] = g[v]) /\ h = [v \in Workers |-> h[v]]
  BY DEF HandOK, Hands
<1>2. \A v \in Workers : h[v] = Idle \/ (h[v].pc \in {"fetch", "parse"} /\ h[v].item \in Item)
  BY <1>1 DEF HandOK
<1>3. \A v \in Workers : h[v] = [pc |-> h[v].pc, item |-> h[v].item]
  <2> SUFFICES ASSUME NEW v \in Workers
               PROVE  h[v] = [pc |-> h[v].pc, item |-> h[v].item]
    OBVIOUS
  <2>1. g[v] = [pc |-> g[v].pc, item |-> g[v].item]
    BY DEF HandOK
  <2> QED
    BY <1>1, <2>1
<1>4. h = [v \in Workers |-> [pc |-> h[v].pc, item |-> h[v].item]]
  BY <1>1, <1>3, Zenon
<1> QED
  BY <1>1, <1>2, <1>4 DEF HandOK

LEMMA AllIdle ==
  ASSUME NEW h, h = [w \in Workers |-> Idle]
  PROVE  HandOK(h) /\ \A w \in Workers : h[w] = Idle /\ h[w].item = None
<1>1. \A w \in Workers : h[w] = Idle /\ h[w].item = None /\ h[w] = [pc |-> h[w].pc, item |-> h[w].item]
  BY DEF Idle
<1>2. h = [w \in Workers |-> [pc |-> h[w].pc, item |-> h[w].item]]
  BY <1>1, Zenon
<1> QED
  BY <1>1, <1>2 DEF HandOK

LEMMA IdleIs ==
  /\ Idle = [pc |-> Idle.pc, item |-> Idle.item] /\ Idle.item = None /\ Idle.pc = "idle"
  /\ None \notin Item
BY FrontierAssumption DEF Idle

(* The keys of items are pages. *)
LEMMA KeysType ==
  ASSUME NEW m, Sound(m)
  PROVE  Keys(m.pending) \subseteq Urls
<1>1. \A i \in m.pending : i.url \in Urls
  BY DEF Sound, IsMemory, Item
<1> QED
  BY <1>1, FrontierAssumption DEF Keys, Key

LEMMA InitInv == Init => IInv
<1> SUFFICES ASSUME Init
             PROVE  IInv
  OBVIOUS
<1>1. Sound(mem) /\ Accounted(mem)
  <2>1. History0 \subseteq Urls
    BY FrontierAssumption
  <2> QED
    BY <2>1, FreshSound DEF Init
<1>2. HandOK(hand) /\ (\A w \in Workers : hand[w].item = None) /\ Held = {}
  <2>1. hand = [w \in Workers |-> Idle]
    BY DEF Init
  <2>2. HandOK(hand) /\ \A w \in Workers : hand[w].item = None
    BY <2>1, AllIdle
  <2> QED
    BY <2>2 DEF Held
<1>3. Cardinality(mem.pending) \in Nat
  BY <1>1, FS_CardinalityType DEF Sound
<1>4. ckpt.pc = "idle" /\ ckpt = [pc |-> ckpt.pc, from |-> ckpt.from, items |-> ckpt.items, spent |-> ckpt.spent]
  BY DEF Init, Rest
<1>5. TypeOK
  <2>1. known \cup tried \cup history \subseteq Urls
    BY <1>1, KeysType, FrontierAssumption DEF Init
  <2>2. faults \in 0..MaxFaults /\ saves \in 0..MaxSaves
    BY FrontierAssumption DEF Init
  <2>3. phase = "running" /\ unfinished = Cardinality(mem.pending)
    BY DEF Init
  <2> QED
    BY <1>1, <1>2, <1>3, <1>4, <2>1, <2>2, <2>3 DEF TypeOK, HandOK, Sound
<1>6. Balanced
  BY <1>1, <1>2 DEF Init, Balanced
<1>7. Reading /\ Lately /\ Writing
  BY <1>4 DEF Reading, Lately, Writing
<1>8. Saved
  BY DEF Init, Saved
<1> QED
  BY <1>1, <1>5, <1>6, <1>7, <1>8 DEF IInv

(* An item ends, whatever was made of it. *)
LEMMA EndsStep ==
  ASSUME IInv, phase = "running", NEW w \in Workers, hand[w].pc \in {"fetch", "parse"},
         NEW m, Sound(m), Enlarges(mem, m), Accounted(mem) => Accounted(m), Ends(w, m),
         known' \subseteq Urls, faults' \in 0..MaxFaults,
         UNCHANGED <<phase, ckpt, disk, history, saves>>
  PROVE  IInv'
<1> DEFINE i == hand[w].item
           H == {i}
           e == m.ended \cup {Key(i.url)}
           p == Ended(m, i)
<1>1. i \in Item /\ i # None /\ i \in mem.pending
  <2>1. i \in Item
    BY IdleIs DEF IInv, TypeOK
  <2>2. i # None
    BY <2>1, IdleIs
  <2> QED
    BY <2>1, <2>2 DEF IInv, Balanced, Held
<1>2. /\ mem' = p
      /\ unfinished' = unfinished + m.counter - mem.counter - 1
      /\ tried' = tried \cup {Key(i.url)}
      /\ hand' = [hand EXCEPT ![w] = Idle]
  <2> DEFINE P == m.pending \ H
  <2>1. mem' = [m EXCEPT !.pending = P, !.ended = e]
    BY DEF Ends
  <2>2. p = [visited |-> m.visited, pending |-> P, counter |-> m.counter, spent |-> m.spent,
             kids |-> m.kids, ended |-> e, gap |-> m.gap]
    BY Zenon DEF Without, Ended
  <2> HIDE DEF P, e, p
  <2>3. mem' = p
    BY <2>1, <2>2, WithoutIs
  <2> QED
    BY <2>3 DEF Ends
<1>3. i \in mem.pending /\ p = Ended(m, i)
  BY <1>1
<1>4. Key(i.url) \in Urls
  BY <1>1, FrontierAssumption DEF Key, Item
<1> HIDE DEF i, H, e, p
<1>5. Sound(mem)
  BY DEF IInv
<1>6. /\ Moves(mem, p) /\ p.pending = m.pending \ {i}
      /\ Cardinality(p.pending) = Cardinality(mem.pending) + m.counter - mem.counter - 1
  BY <1>3, <1>5, ItemEnds
<1>7. Sound(mem') /\ Moves(mem, mem') /\ Accounted(mem')
  BY <1>2, <1>6 DEF Moves, IInv, Balanced
<1>8. HandOK(hand') /\ hand'[w] = Idle /\ \A v \in Workers \ {w} : hand'[v] = hand[v]
  <2>1. HandOK(hand)
    BY DEF HandOK, IInv, TypeOK
  <2>2. Hands(hand, hand', w, Idle)
    BY <1>2 DEF Hands
  <2> QED
    BY <2>1, <2>2, HandSet, IdleIs
<1>9. unfinished' = Cardinality(mem'.pending) /\ unfinished' \in Nat
  <2>1. unfinished = Cardinality(mem.pending)
    BY DEF IInv, Balanced
  <2>2. unfinished' = Cardinality(mem'.pending)
    BY <1>2, <1>6, <2>1
  <2> QED
    BY <1>7, <2>2, FS_CardinalityType DEF Sound
<1>10. \A u, v \in Workers : hand'[u].item = hand'[v].item => u = v \/ hand'[u].item = None
  BY <1>8, IdleIs DEF IInv, Balanced
<1>11. Held' \subseteq mem'.pending
  <2> SUFFICES ASSUME NEW v \in Workers, hand'[v].item # None
               PROVE  hand'[v].item \in mem'.pending
    BY DEF Held
  <2>1. v # w /\ hand'[v].item = hand[v].item
    BY <1>8, IdleIs
  <2>2. hand[v].item \in mem.pending
    BY <2>1 DEF IInv, Balanced, Held
  <2>3. hand[v].item # i
    BY <1>1, <2>1 DEF i, IInv, Balanced
  <2> QED
    BY <1>2, <1>6, <2>1, <2>2, <2>3 DEF Enlarges
<1>12. Balanced'
  BY <1>7, <1>9, <1>10, <1>11 DEF Balanced
<1>13. TypeOK'
  <2>1. known' \cup tried' \cup history' \subseteq Urls
    BY <1>2, <1>4 DEF IInv, TypeOK
  <2>2. /\ phase' \in {"running", "closing", "finished", "cancelled", "done", "down"}
        /\ ckpt'.pc \in {"idle", "items", "visited"} /\ saves' \in 0..MaxSaves
        /\ ckpt' = [pc |-> ckpt'.pc, from |-> ckpt'.from, items |-> ckpt'.items, spent |-> ckpt'.spent]
    BY DEF IInv, TypeOK
  <2>3. IsMemory(mem')
    BY <1>7 DEF Sound
  <2> QED
    BY <1>8, <1>9, <2>1, <2>2, <2>3 DEF TypeOK, HandOK
<1>14. Reading' /\ Lately' /\ Writing'
  BY <1>5, <1>7, CheckpointStays DEF IInv
<1>15. Saved'
  BY DEF IInv, Saved
<1> QED
  BY <1>7, <1>12, <1>13, <1>14, <1>15 DEF IInv

(* Steps of a worker that change neither the queue nor the memory *)
LEMMA HandsStep ==
  ASSUME IInv, HandOK(hand'), history' \subseteq Urls,
         phase = "running", Held' \subseteq mem.pending,
         \A v, w \in Workers : hand'[v].item = hand'[w].item => v = w \/ hand'[v].item = None,
         UNCHANGED <<phase, mem, unfinished, ckpt, disk, known, tried, faults, saves>>
  PROVE  IInv'
<1>1. TypeOK'
  BY DEF IInv, TypeOK, HandOK
<1>2. Balanced'
  <2>1. unfinished' = unfinished /\ mem' = mem /\ phase' = phase
    OBVIOUS
  <2> QED
    BY <2>1 DEF IInv, Balanced, Accounted, Keys
<1>3. Reading' /\ Lately' /\ Writing' /\ Saved' /\ Sound(mem')
  BY DEF IInv, Reading, Lately, Writing, Saved
<1> QED
  BY <1>1, <1>2, <1>3 DEF IInv

LEMMA TakeStep ==
  ASSUME IInv, NEW w \in Workers, Take(w)
  PROVE  IInv'
<1>1. PICK i \in Queued : hand' = [hand EXCEPT ![w] = [pc |-> "fetch", item |-> i]]
  BY DEF Take
<1> DEFINE x == [pc |-> "fetch", item |-> i]
<1>2. x.pc = "fetch" /\ x.item = i /\ x = [pc |-> x.pc, item |-> x.item]
  OBVIOUS
<1>3. i \in mem.pending /\ i \in Item /\ i # None /\ i \notin Held
  <2>1. i \in mem.pending /\ i \notin Held
    BY DEF Queued
  <2>2. i \in Item
    BY <2>1 DEF IInv, Sound, IsMemory
  <2> QED
    BY <2>1, <2>2, IdleIs
<1>4. Hands(hand, hand', w, x)
  BY <1>1 DEF Hands
<1> HIDE DEF x
<1>5. HandOK(hand)
  BY DEF HandOK, IInv, TypeOK
<1>6. HandOK(hand') /\ hand'[w] = x /\ \A v \in Workers \ {w} : hand'[v] = hand[v]
  BY <1>2, <1>3, <1>4, <1>5, HandSet
<1>7. \A v \in Workers : hand[v].item # i
  BY <1>3 DEF Held
<1>8. \A u, v \in Workers : hand'[u].item = hand'[v].item => u = v \/ hand'[u].item = None
  <2> SUFFICES ASSUME NEW u \in Workers, NEW v \in Workers, u # v, hand'[u].item = hand'[v].item
               PROVE  hand'[u].item = None
    OBVIOUS
  <2>1. u # w /\ v # w
    BY <1>2, <1>6, <1>7
  <2> QED
    BY <1>6, <2>1 DEF IInv, Balanced
<1>9. phase = "running" /\ Held' \subseteq mem.pending
  <2> SUFFICES ASSUME NEW v \in Workers, hand'[v].item # None
               PROVE  phase = "running" /\ hand'[v].item \in mem.pending
    BY DEF Held, Take
  <2>0. phase = "running"
    BY DEF Take
  <2>1. CASE v = w
    BY <1>2, <1>3, <1>6, <2>0, <2>1
  <2>2. CASE v # w
    BY <1>6, <2>0, <2>2 DEF IInv, Balanced, Held
  <2> QED
    BY <2>1, <2>2
<1>10. history' \subseteq Urls /\ UNCHANGED <<phase, mem, unfinished, ckpt, disk, known, tried, faults, saves>>
  BY DEF Take, IInv, TypeOK
<1> QED
  BY <1>6, <1>8, <1>9, <1>10, HandsStep

LEMMA VisitStep ==
  ASSUME IInv, NEW w \in Workers, Visit(w)
  PROVE  IInv'
<1> DEFINE x == [pc |-> "parse", item |-> hand[w].item]
<1>1. hand[w].item \in Item
  BY IdleIs DEF Visit, IInv, TypeOK
<1>2. hand' = [hand EXCEPT ![w] = x]
  <2>1. hand' = [hand EXCEPT ![w] = [hand[w] EXCEPT !.pc = "parse"]]
    BY DEF Visit
  <2>2. hand[w] = [pc |-> hand[w].pc, item |-> hand[w].item]
    BY DEF IInv, TypeOK
  <2>3. [hand[w] EXCEPT !.pc = "parse"] = x
    BY <2>2
  <2> QED
    BY <2>1, <2>3
<1>3. x.pc = "parse" /\ x.item = hand[w].item /\ x = [pc |-> x.pc, item |-> x.item] /\ Hands(hand, hand', w, x)
  BY <1>2 DEF Hands
<1> HIDE DEF x
<1>4. HandOK(hand)
  BY DEF HandOK, IInv, TypeOK
<1>5. HandOK(hand') /\ hand'[w] = x /\ \A v \in Workers \ {w} : hand'[v] = hand[v]
  BY <1>1, <1>3, <1>4, HandSet
<1>6. \A v \in Workers : hand'[v].item = hand[v].item
  BY <1>3, <1>5
<1>7. \A u, v \in Workers : hand'[u].item = hand'[v].item => u = v \/ hand'[u].item = None
  BY <1>6 DEF IInv, Balanced
<1>8. phase = "running" /\ Held' \subseteq mem.pending
  BY <1>6 DEF IInv, Balanced, Held, Visit
<1>9. history' \subseteq Urls /\ UNCHANGED <<phase, mem, unfinished, ckpt, disk, known, tried, faults, saves>>
  BY <1>1 DEF Visit, MarkVisited, IInv, TypeOK, Item
<1> QED
  BY <1>5, <1>7, <1>8, <1>9, HandsStep

(* ... and those that end its item *)
LEMMA WorkStep ==
  ASSUME IInv, NEW w \in Workers, Work(w)
  PROVE  IInv'
<1>1. Sound(mem) /\ Enlarges(mem, mem) /\ known \subseteq Urls /\ faults \in 0..MaxFaults
  BY EnlargesRefl DEF IInv, TypeOK
<1>2. CASE Take(w)
  BY <1>2, TakeStep
<1>3. CASE Visit(w)
  BY <1>3, VisitStep
<1>4. CASE FetchFails(w)
  <2>1. /\ phase = "running" /\ hand[w].pc \in {"fetch", "parse"} /\ Ends(w, mem)
        /\ UNCHANGED <<phase, ckpt, disk, history, saves>> /\ known' = known
    BY <1>4 DEF FetchFails
  <2>2. faults' \in 0..MaxFaults
    BY <1>1, <1>4, FrontierAssumption DEF FetchFails
  <2> QED
    BY <1>1, <2>1, <2>2, EndsStep
<1>5. CASE Stalls(w)
  <2>1. /\ phase = "running" /\ hand[w].pc \in {"fetch", "parse"} /\ Ends(w, mem)
        /\ UNCHANGED <<phase, ckpt, disk, history, saves>> /\ known' = known
    BY <1>5 DEF Stalls
  <2>2. faults' \in 0..MaxFaults
    BY <1>1, <1>5, FrontierAssumption DEF Stalls
  <2> QED
    BY <1>1, <2>1, <2>2, EndsStep
<1>6. CASE Discover(w)
  <2> DEFINE it == hand[w].item
             m  == EnqueueLinks(mem, it)
  <2>1. /\ phase = "running" /\ hand[w].pc \in {"fetch", "parse"} /\ faults' \in 0..MaxFaults
        /\ UNCHANGED <<phase, ckpt, disk, history, saves>>
    BY <1>1, <1>6 DEF Discover
  <2>2. it \in Item /\ (it.chain # None => it.chain \in DOMAIN mem.spent)
    <3>1. it \in Item
      BY <1>6, IdleIs DEF Discover, IInv, TypeOK
    <3>2. it \in mem.pending
      BY <2>1, <3>1, IdleIs DEF IInv, Balanced, Held
    <3> QED
      BY <1>1, <3>1, <3>2 DEF Sound, IsMemory
  <2>3. Sound(m) /\ Enlarges(mem, m) /\ (Accounted(mem) => Accounted(m))
    BY <1>1, <2>2, LinksFollowed
  <2>4. \/ Ends(w, m) /\ known' = known \cup Keys(m.pending)
        \/ Ends(w, mem) /\ known' = known
    BY <1>6 DEF Discover
  <2> HIDE DEF m
  <2>5. CASE Ends(w, m) /\ known' = known \cup Keys(m.pending)
    <3>1. known' \subseteq Urls
      BY <1>1, <2>3, <2>5, KeysType
    <3> QED
      BY <2>1, <2>3, <2>5, <3>1, EndsStep
  <2>6. CASE Ends(w, mem) /\ known' = known
    BY <1>1, <2>1, <2>6, EndsStep
  <2> QED
    BY <2>4, <2>5, <2>6
<1> QED
  BY <1>2, <1>3, <1>4, <1>5, <1>6 DEF Work

(* The checkpoint's steps *)
LEMMA CheckpointStep ==
  ASSUME IInv, Checkpoint
  PROVE  IInv'
<1>1. UNCHANGED <<phase, mem, hand, unfinished, history, known, tried, faults>>
  BY DEF Checkpoint, StartCheckpoint, ReadItems, SaveCheckpoint
<1>2. Sound(mem') /\ Balanced'
  BY <1>1 DEF IInv, Balanced, Held, Accounted, Keys
<1>3. ckpt = [pc |-> ckpt.pc, from |-> ckpt.from, items |-> ckpt.items, spent |-> ckpt.spent]
  BY DEF IInv, TypeOK
<1>4. Rest.pc = "idle" /\ Rest = [pc |-> Rest.pc, from |-> Rest.from, items |-> Rest.items, spent |-> Rest.spent]
  BY DEF Rest
<1>5. ASSUME ckpt'.pc \in {"idle", "items", "visited"}, saves' \in 0..MaxSaves,
             ckpt' = [pc |-> ckpt'.pc, from |-> ckpt'.from, items |-> ckpt'.items, spent |-> ckpt'.spent]
      PROVE  TypeOK'
  BY <1>1, <1>5 DEF IInv, TypeOK, IsMemory
<1>6. ASSUME ckpt' = Rest, saves' = saves, Saved'
      PROVE  IInv'
  <2>1. TypeOK'
    BY <1>4, <1>5, <1>6 DEF IInv, TypeOK
  <2> QED
    BY <1>2, <1>4, <1>6, <2>1 DEF IInv, Reading, Lately, Writing
<1>7. CASE StartCheckpoint
  <2> DEFINE c == [pc |-> "items", from |-> mem, items |-> Rest.items, spent |-> Rest.spent]
  <2>1. ckpt' = c
    <3>1. ckpt' = [[Rest EXCEPT !.pc = "items"] EXCEPT !.from = mem]
      BY <1>7 DEF StartCheckpoint
    <3> QED
      BY <1>4, <3>1
  <2>2. ckpt'.pc = "items" /\ ckpt'.from = mem
        /\ ckpt' = [pc |-> ckpt'.pc, from |-> ckpt'.from, items |-> ckpt'.items, spent |-> ckpt'.spent]
    BY <2>1
  <2>3. saves' \in 0..MaxSaves /\ disk' = disk /\ phase = "running"
    BY <1>7, FrontierAssumption DEF StartCheckpoint, IInv, TypeOK
  <2>4. TypeOK'
    BY <1>5, <2>2, <2>3
  <2>5. Sound(mem) /\ Accounted(mem) /\ Grows(mem, mem)
    BY <2>3, EnlargesRefl DEF IInv, Balanced, Enlarges
  <2>6. Reading' /\ Lately' /\ Writing' /\ Saved'
    BY <1>1, <2>2, <2>3, <2>5 DEF Reading, Lately, Writing, Saved, IInv
  <2> QED
    BY <1>2, <2>4, <2>6 DEF IInv
<1>8. CASE ReadItems
  <2> DEFINE was == ckpt.from.pending
             now == mem.pending
  <2>1. saves' = saves /\ disk' = disk /\ ckpt.pc = "items"
    BY <1>8 DEF ReadItems
  <2>2. CASE ckpt' = Rest
    BY <1>1, <1>6, <2>1, <2>2 DEF Saved, IInv
  <2>3. CASE ~(ckpt' = Rest)
    <3>1. PICK s \in {was, now, was \cap now, was \cup now}, cells \in {ckpt.from.spent, mem.spent} :
            /\ \A i \in s : i.chain # None => i.chain \in DOMAIN cells
            /\ ckpt' = [ckpt EXCEPT !.pc = "visited", !.items = s, !.spent = cells]
      BY <1>8, <2>3 DEF ReadItems
    <3> DEFINE q == [ckpt EXCEPT !.pc = "visited"]
               r == [q EXCEPT !.items = s]
    <3>2. q = [pc |-> "visited", from |-> ckpt.from, items |-> ckpt.items, spent |-> ckpt.spent]
      BY <1>3
    <3>3. ckpt' = [r EXCEPT !.spent = cells]
      BY <3>1
    <3> HIDE DEF q
    <3>4. r = [pc |-> "visited", from |-> ckpt.from, items |-> s, spent |-> ckpt.spent]
      BY <3>2
    <3> HIDE DEF r
    <3>5. ckpt' = [pc |-> "visited", from |-> ckpt.from, items |-> s, spent |-> cells]
      BY <3>3, <3>4
    <3>6. /\ ckpt'.pc = "visited" /\ ckpt'.from = ckpt.from /\ ckpt'.items = s /\ ckpt'.spent = cells
          /\ ckpt' = [pc |-> ckpt'.pc, from |-> ckpt'.from, items |-> ckpt'.items, spent |-> ckpt'.spent]
      BY <3>5
    <3>7. TypeOK'
      BY <1>5, <2>1, <3>6 DEF IInv, TypeOK
    <3>8. Sound(mem) /\ Sound(ckpt.from) /\ Accounted(ckpt.from) /\ Grows(ckpt.from, mem)
      BY <2>1 DEF IInv, Reading
    <3>9. /\ Sound(Row(ckpt', mem))
          /\ (\A i \in was \ now : Key(i.url) \in mem.ended) => Accounted(Row(ckpt', mem))
      <4> DEFINE a == ckpt.from
                 c == ckpt'
      <4>1. c.from = a /\ c.items = s /\ c.spent = cells /\ (cells = a.spent \/ cells = mem.spent)
        BY <3>6
      <4>2. s \in {a.pending, mem.pending, a.pending \cap mem.pending, a.pending \cup mem.pending}
        OBVIOUS
      <4>3. Sound(a) /\ Accounted(a) /\ Grows(a, mem)
        BY <3>8
      <4>4. \A i \in s : i.chain # None => i.chain \in DOMAIN cells
        BY <3>1
      <4> HIDE DEF a, c
      <4>5. /\ Sound(Row(c, mem))
            /\ (\A i \in a.pending \ mem.pending : Key(i.url) \in mem.ended) => Accounted(Row(c, mem))
        BY <3>8, <4>1, <4>2, <4>3, <4>4, RowRead
      <4> QED
        BY <4>5 DEF a, c
    <3>10. Reading' /\ Lately'
      BY <1>1, <2>1, <3>6 DEF IInv, Reading, Lately
    <3>11. Writing'
      BY <1>1, <2>1, <3>6, <3>9 DEF IInv, Writing, Lately
    <3>12. Saved'
      BY <1>1, <2>1 DEF IInv, Saved
    <3> QED
      BY <1>2, <3>7, <3>10, <3>11, <3>12 DEF IInv
  <2> QED
    BY <2>2, <2>3
<1>9. CASE SaveCheckpoint
  <2>1. ckpt.pc = "visited" /\ ckpt' = Rest /\ saves' = saves
    BY <1>9 DEF SaveCheckpoint
  <2>2. Rehydrate(disk', {}) = Row(ckpt, mem)
    <3> DEFINE K == {k \in ckpt.from.kids : k[1] \in DOMAIN ckpt.spent}
               G == mem.gap \cup (mem.visited \ ckpt.from.visited)
    <3>1. disk' = [items |-> ckpt.items, visited |-> mem.visited, counter |-> mem.counter,
                   spent |-> ckpt.spent, kids |-> K, ended |-> mem.ended, gap |-> G]
      BY <1>9, Zenon DEF SaveCheckpoint
    <3>2. Row(ckpt, mem) = [visited |-> mem.visited, pending |-> ckpt.items, counter |-> mem.counter,
                            spent |-> ckpt.spent, kids |-> K, ended |-> mem.ended, gap |-> G]
      BY Zenon DEF Row
    <3>3. Bootstrap({}) = {}
      BY DEF Bootstrap
    <3> HIDE DEF K, G
    <3>4. /\ disk'.items = ckpt.items /\ disk'.visited = mem.visited /\ disk'.counter = mem.counter
          /\ disk'.spent = ckpt.spent /\ disk'.kids = K /\ disk'.ended = mem.ended /\ disk'.gap = G
      BY <3>1
    <3>5. disk'.visited \cup {} = mem.visited /\ disk'.gap \cup {} = G
      BY <3>4
    <3> QED
      BY <3>2, <3>3, <3>4, <3>5 DEF Rehydrate
  <2>3. Sound(Row(ckpt, mem)) /\ (phase # "cancelled" => Accounted(Row(ckpt, mem))) /\ phase # "done"
    BY <2>1 DEF IInv, Writing, Reading
  <2>4. Saved'
    BY <1>1, <2>2, <2>3 DEF Saved
  <2> QED
    BY <1>6, <2>1, <2>4
<1> QED
  BY <1>7, <1>8, <1>9 DEF Checkpoint

(* The ends of a run *)
LEMMA CloseStep ==
  ASSUME IInv, Close
  PROVE  IInv'
<1>1. UNCHANGED <<mem, hand, unfinished, ckpt, history, known, tried, faults, saves>>
  BY DEF Close, JoinReturns, PoolsClose, ClearFrontier
<1>2. /\ phase \in {"running", "closing", "finished"} /\ phase' \in {"closing", "finished", "done"}
      /\ phase' # "closing" => ckpt.pc = "idle"
      /\ (disk' = disk /\ phase' # "done") \/ disk' = None
  BY DEF Close, JoinReturns, PoolsClose, ClearFrontier, IInv, TypeOK, Reading
<1>3. TypeOK' /\ Sound(mem')
  BY <1>1, <1>2 DEF IInv, TypeOK
<1>4. Balanced'
  BY <1>1, <1>2 DEF IInv, Balanced
<1>5. Reading' /\ Lately' /\ Writing'
  BY <1>1, <1>2 DEF IInv, Reading, Lately, Writing
<1>6. Saved'
  BY <1>1, <1>2 DEF IInv, Saved
<1> QED
  BY <1>3, <1>4, <1>5, <1>6 DEF IInv

LEMMA CancelStep ==
  ASSUME IInv, Cancel
  PROVE  IInv'
<1> DEFINE H == Held
           e == mem.ended
           p == Without(mem, H, e)
<1>1. /\ phase = "running" /\ phase' = "cancelled" /\ hand' = [w \in Workers |-> Idle]
      /\ unfinished' = unfinished - Cardinality(H)
      /\ UNCHANGED <<ckpt, disk, history, known, tried, faults, saves>>
  BY DEF Cancel
<1>2. mem' = p
  <2> DEFINE P == mem.pending \ H
  <2>1. mem' = [mem EXCEPT !.pending = P]
    BY DEF Cancel
  <2>2. mem = [visited |-> mem.visited, pending |-> mem.pending, counter |-> mem.counter, spent |-> mem.spent,
               kids |-> mem.kids, ended |-> mem.ended, gap |-> mem.gap]
    BY DEF IInv, Sound, IsMemory
  <2>3. p = [visited |-> mem.visited, pending |-> P, counter |-> mem.counter, spent |-> mem.spent,
             kids |-> mem.kids, ended |-> e, gap |-> mem.gap]
    BY Zenon DEF Without
  <2> HIDE DEF P, p
  <2> QED
    BY <2>1, <2>2, <2>3
<1>3. Sound(mem) /\ e \subseteq Urls /\ mem.ended \subseteq e
  BY DEF IInv, Sound, IsMemory
<1>4. Sound(mem') /\ Grows(mem, mem')
  <2>1. Sound(Without(mem, H, e)) /\ Grows(mem, Without(mem, H, e))
    <3> HIDE DEF H, e
    <3> QED
      BY <1>3, ItemsGone
  <2> QED
    BY <1>2, <2>1
<1>5. unfinished' \in Nat
  <2>1. H \subseteq mem.pending /\ unfinished = Cardinality(mem.pending) /\ IsFiniteSet(mem.pending)
    BY <1>1 DEF IInv, Balanced, Sound
  <2>2. Cardinality(H) <= Cardinality(mem.pending) /\ Cardinality(H) \in Nat /\ Cardinality(mem.pending) \in Nat
    <3> HIDE DEF H
    <3> QED
      BY <2>1, FS_Subset, FS_CardinalityType
  <2> QED
    BY <1>1, <2>1, <2>2
<1>6. HandOK(hand') /\ \A w \in Workers : hand'[w].item = None
  BY <1>1, AllIdle
<1>7. TypeOK'
  BY <1>1, <1>4, <1>5, <1>6 DEF IInv, TypeOK, HandOK, Sound
<1>8. Balanced'
  BY <1>1, <1>6 DEF Balanced
<1>9. Reading'
  <2> SUFFICES ASSUME ckpt.pc \in {"items", "visited"}
               PROVE  Grows(ckpt.from, mem')
    BY <1>1 DEF IInv, Reading
  <2>1. Sound(ckpt.from) /\ Grows(ckpt.from, mem)
    BY DEF IInv, Reading
  <2> QED
    BY <1>3, <1>4, <2>1, GrowsTrans
<1>10. Lately'
  BY <1>1 DEF Lately
<1>11. Writing'
  <2> SUFFICES ASSUME ckpt.pc = "visited"
               PROVE  Sound(Row(ckpt, mem'))
    BY <1>1 DEF Writing
  <2>1. Grows(ckpt.from, mem) /\ Sound(Row(ckpt, mem))
    BY DEF IInv, Reading, Writing
  <2> QED
    BY <1>3, <1>4, <2>1, RowMoves
<1>12. Saved'
  BY <1>1 DEF IInv, Saved
<1> QED
  BY <1>4, <1>7, <1>8, <1>9, <1>10, <1>11, <1>12 DEF IInv

LEMMA CrashStep ==
  ASSUME IInv, Crash
  PROVE  IInv'
<1>1. /\ phase \in {"running", "closing", "finished"} /\ phase' = "down" /\ ckpt' = Rest
      /\ hand' = [w \in Workers |-> Idle]
      /\ UNCHANGED <<mem, unfinished, disk, history, known, tried, saves>>
  BY DEF Crash
<1>2. faults' \in 0..MaxFaults
  BY FrontierAssumption DEF Crash, IInv, TypeOK
<1>3. Rest.pc = "idle" /\ Rest = [pc |-> Rest.pc, from |-> Rest.from, items |-> Rest.items, spent |-> Rest.spent]
  BY DEF Rest
<1>4. HandOK(hand') /\ \A w \in Workers : hand'[w].item = None
  BY <1>1, AllIdle
<1>5. TypeOK' /\ Sound(mem')
  BY <1>1, <1>2, <1>3, <1>4 DEF IInv, TypeOK, HandOK
<1>6. Balanced'
  <2>1. Held' = {}
    BY <1>4 DEF Held
  <2>2. Accounted(mem)
    BY <1>1 DEF IInv, Balanced
  <2> QED
    BY <1>1, <1>4, <2>1, <2>2 DEF Balanced
<1>7. Reading' /\ Lately' /\ Writing'
  BY <1>1, <1>3 DEF Reading, Lately, Writing
<1>8. Saved'
  BY <1>1 DEF IInv, Saved
<1> QED
  BY <1>5, <1>6, <1>7, <1>8 DEF IInv

LEMMA ResumeStep ==
  ASSUME IInv, Resume
  PROVE  IInv'
<1>1. /\ phase = "down" /\ phase' = "running"
      /\ UNCHANGED <<hand, ckpt, disk, history, tried, faults, saves>>
  BY DEF Resume
<1>2. /\ mem' = IF disk = None THEN Fresh(history) ELSE Rehydrate(disk, history)
      /\ unfinished' = Cardinality(mem'.pending) /\ known' = known \cup Keys(mem'.pending)
  BY DEF Resume, Start, Keys
<1>3. history \in SUBSET Urls
  BY DEF IInv, TypeOK
<1>4. Sound(mem') /\ Accounted(mem')
  <2>1. CASE disk = None
    BY <1>2, <1>3, <2>1, FreshSound
  <2>2. CASE disk # None
    <3>1. Sound(Rehydrate(disk, {})) /\ Accounted(Rehydrate(disk, {}))
      BY <1>1, <2>2 DEF IInv, Saved
    <3> QED
      BY <1>2, <1>3, <2>2, <3>1, RehydrateSound
  <2> QED
    BY <2>1, <2>2
<1>5. unfinished' \in Nat
  BY <1>2, <1>4, FS_CardinalityType DEF Sound
<1>6. known' \cup tried' \cup history' \subseteq Urls
  <2>1. Keys(mem'.pending) \subseteq Urls
    BY <1>4, KeysType
  <2> QED
    BY <1>1, <1>2, <2>1 DEF IInv, TypeOK
<1>7. TypeOK'
  BY <1>1, <1>4, <1>5, <1>6 DEF IInv, TypeOK, Sound
<1>8. Held' \subseteq mem'.pending
  <2>1. Held' = Held /\ Held = {}
    BY <1>1 DEF IInv, Balanced, Held
  <2> QED
    BY <2>1
<1>9. Balanced'
  BY <1>1, <1>2, <1>4, <1>8 DEF IInv, Balanced
<1>10. ckpt.pc = "idle"
  BY <1>1 DEF IInv, TypeOK, Reading
<1>11. Reading' /\ Lately' /\ Writing'
  BY <1>1, <1>10 DEF Reading, Lately, Writing
<1>12. Saved'
  BY <1>1 DEF IInv, Saved
<1> QED
  BY <1>4, <1>7, <1>9, <1>11, <1>12 DEF IInv

LEMMA StepInv == IInv /\ [Next]_vars => IInv'
<1> SUFFICES ASSUME IInv, [Next]_vars
             PROVE  IInv'
  OBVIOUS
<1>1. CASE \E w \in Workers : Work(w)
  BY <1>1, WorkStep
<1>2. CASE Checkpoint
  BY <1>2, CheckpointStep
<1>3. CASE Close
  BY <1>3, CloseStep
<1>4. CASE Cancel
  BY <1>4, CancelStep
<1>5. CASE Crash
  BY <1>5, CrashStep
<1>6. CASE Resume
  BY <1>6, ResumeStep
<1>7. CASE UNCHANGED vars
  <2>1. TypeOK' /\ Sound(mem') /\ Balanced'
    BY <1>7 DEF vars, IInv, TypeOK, Balanced, Held
  <2> QED
    BY <1>7, <2>1 DEF vars, IInv, Reading, Lately, Writing, Saved
<1> QED
  BY <1>1, <1>2, <1>3, <1>4, <1>5, <1>6, <1>7 DEF Next

LEMMA Invariance == Spec => []IInv
BY InitInv, StepInv, PTL DEF Spec

-----------------------------------------------------------------------------
(* Theorems *)

(* The engine's structures keep their shapes, whatever is crawled; and     *)
(* task_done() is never called more often than items were put (engine.py:  *)
(* 110, 444).                                                              *)
THEOREM TypeCorrect == Spec => []TypeOK
<1>1. IInv => TypeOK
  BY DEF IInv
<1> QED
  BY <1>1, Invariance, PTL

(* The queue's count of unfinished items is exactly the number of pending  *)
(* items, so queue.join returns when, and only when, nothing is left       *)
(* (engine.py:396).                                                        *)
THEOREM JoinWaitsForAll == Spec => []JoinIsExact
<1>1. IInv => JoinIsExact
  BY DEF IInv, Balanced, JoinIsExact
<1> QED
  BY <1>1, Invariance, PTL

(* No page is lost between the queue, the workers and the checkpoint, also *)
(* when the agent dies (engine.py:350).                                    *)
THEOREM VisitedIsAccountedFor == Spec => []NothingForgotten
<1>1. IInv => NothingForgotten
  BY DEF IInv, Balanced, Accounted, NothingForgotten
<1> QED
  BY <1>1, Invariance, PTL

(* No page is queued twice, neither in one run nor across resumptions      *)
(* (engine.py:119, 371).                                                   *)
THEOREM LinksAreQueuedOnce == Spec => []QueuedOnce
<1>1. IInv => QueuedOnce
  BY DEF IInv, Sound, QueuedOnce
<1> QED
  BY <1>1, Invariance, PTL

(* The pages of a pagination chain never draw more children than the       *)
(* chain's budget, however often the job is resumed (engine.py:36, 382).   *)
THEOREM ChainsKeepTheirBudget == Spec => []ChainBounded
<1>1. IInv => ChainBounded
  <2> SUFFICES ASSUME IInv, NEW c \in DOMAIN mem.spent
               PROVE  Cardinality(Drawn(mem.kids, c)) <= MaxChain
    BY DEF ChainBounded, Drawn
  <2>1. Cardinality(Drawn(mem.kids, c)) <= mem.spent[c] /\ mem.spent[c] \in 0..MaxChain
    BY DEF IInv, Sound, IsMemory
  <2>2. Cardinality(Drawn(mem.kids, c)) \in Nat
    BY FS_Subset, FS_CardinalityType DEF IInv, Sound, Drawn
  <2> QED
    BY <2>1, <2>2, FrontierAssumption
<1> QED
  BY <1>1, Invariance, PTL

(* A checkpoint that is still being written when the crawl ends does not   *)
(* survive it (engine.py:286, agent/api.py:107).                           *)
THEOREM DoneLeavesNoCheckpoint == Spec => []ClearedStaysCleared
<1>1. IInv => ClearedStaysCleared
  BY DEF IInv, Saved, ClearedStaysCleared
<1> QED
  BY <1>1, Invariance, PTL

=============================================================================
