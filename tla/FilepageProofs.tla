--------------------------- MODULE FilepageProofs ---------------------------
(***************************************************************************)
(* Proofs about Filepage: for any names and values, any size of blocks and *)
(* any number of processes, a page whose offsets stay below Word is a map  *)
(* whose stores are atomic, whatever cell a death cuts them at.            *)
(***************************************************************************)
EXTENDS Filepage, SetLemmas, TLAPS

\* The block that the last of n items is in.
LastOf(n) == IF n = 0 THEN 0 ELSE (n - 1) \div Grow

\* The cell of the i-th index item, and what is in it.
Slot(f, i) == Block(f)[i \div Grow] + (i % Grow)
ItemAt(f, i) == Read(f, Slot(f, i))

Cell == {Zero}
    \cup [kind : {"header"}, elements : Nat, firstFree : Nat, full : {FALSE}]
    \cup [kind : {"item"}, name : Name, size : Nat, item : Nat]
    \cup [kind : {"next"}, to : Nat]
    \cup [kind : {"data"}, value : Value, part : Nat]

\* The header is in place and says n items.
Headed(f, n) == /\ 0 \in DOMAIN f /\ f[0] \in Cell /\ f[0].kind = "header" /\ f[0].elements = n

\* The blocks of n items follow each other, below lim.
Chained(f, n, lim) ==
    /\ \A k \in 0..LastOf(n) : Block(f)[k] \in Nat /\ IndexStart <= Block(f)[k] /\ Block(f)[k] + Grow < lim
    /\ \A j, k \in 0..LastOf(n) : j < k => Block(f)[j] + Grow < Block(f)[k]

\* An index item whose value is in its cells, below lim.
Whole(f, e, lim) ==
    \E m \in Name, v \in Value :
        /\ e.item \in Nat /\ e = Item(m, v, e.item)
        /\ IndexStart <= e.item /\ e.item + Size[v] <= lim
        /\ \A k \in 1..Size[v] : Read(f, e.item + k - 1) = Data(v, k)

\* The items are whole, follow each other and lie between the blocks.
Placed(f, n, lim) ==
    /\ \A i \in 0..(n - 1) : Whole(f, ItemAt(f, i), lim)
    /\ \A i, j \in 0..(n - 1) : i < j => ItemAt(f, i).item + ItemAt(f, i).size <= ItemAt(f, j).item
    /\ \A i \in 0..(n - 1), k \in 0..LastOf(n) :
          \/ ItemAt(f, i).item + ItemAt(f, i).size <= Block(f)[k]
          \/ Block(f)[k] + Grow < ItemAt(f, i).item

FileOK(f, n, lim) == Headed(f, n) /\ Chained(f, n, lim) /\ Placed(f, n, lim)

\* The cells that open() and retrieveItem read, other than the header.
Live(f, n, a) ==
    \/ \E k \in 0..LastOf(n) : k < LastOf(n) /\ a = Block(f)[k] + Grow
    \/ \E i \in 0..(n - 1) :
          \/ a = Slot(f, i)
          \/ a \in ItemAt(f, i).item..(ItemAt(f, i).item + ItemAt(f, i).size - 1)

\* What the cell a of the file f will be after the writes p, for good.
Due(f, p, a, c) ==
    \/ \E i \in 1..Len(p) : p[i] = <<a, c>> /\ \A j \in 1..Len(p) : i < j => p[j][1] # a
    \/ Read(f, a) = c /\ \A j \in 1..Len(p) : p[j][1] # a

Elements == file[0].elements
FirstFree == file[0].firstFree

\* The page has to grow before it takes the item after n others.
Full(n) == n % Grow = 0 /\ n > 1

\* A store of v under the name m is under way; a is where the value goes, and lim
\* what was the first free cell when it began.
Storing(m, v, a, lim) ==
    LET n == Elements
    IN  /\ request = <<m, v>>
        /\ members = Members(n + 1, a + Size[v], members.lastIndex, FALSE,
                             {c \in Load(file) : c.name # m} \cup {Item(m, v, a)})
        /\ IF Full(n) THEN lim = members.lastIndex /\ a = lim + Grow + 1
                      ELSE lim = a /\ members.lastIndex = LastBlock(file)
        /\ FileOK(file, n, lim) /\ lim <= FirstFree /\ FirstFree <= a
        /\ pending # <<>> /\ pending[Len(pending)] = <<0, Header(n + 1, a + Size[v], FALSE)>>
        /\ \A j \in 1..(Len(pending) - 1) :
              \/ pending[j][1] # 0 /\ ~Live(file, n, pending[j][1])
              \/ pending[j] = <<0, Header(n, a, FALSE)>>
        /\ Due(file, pending, members.lastIndex + (n % Grow), Item(m, v, a))
        /\ \A k \in 1..Size[v] : Due(file, pending, a + k - 1, Data(v, k))
        /\ Full(n) => Due(file, pending, LastBlock(file) + Grow, Pointer(members.lastIndex))

\* Nothing is stored; what is still to be written does not matter.
Settled ==
    /\ request = None /\ FileOK(file, Elements, FirstFree) /\ members = Opened(file)
    /\ \A j \in 1..Len(pending) : pending[j][1] # 0 /\ ~Live(file, Elements, pending[j][1])

\* A page that is being created: nothing has reached the file.
Fresh ==
    /\ file = <<>> /\ request = None
    /\ members = Members(0, IndexStart + Grow + 1, IndexStart, FALSE, {})
    /\ pending # <<>> /\ pending[1] = <<0, Header(0, IndexStart + Grow + 1, FALSE)>>
    /\ \A j \in 2..Len(pending) : pending[j][1] # 0

PageType ==
    /\ DOMAIN file \subseteq Nat /\ \A a \in DOMAIN file : file[a] \in Cell
    /\ pending \in Seq(Nat \X Cell)
    /\ page \in {"closed", "open", "broken"}
    /\ exists = FALSE => file = <<>> /\ page = "closed"

PageInv ==
    /\ PageType
    /\ page # "open" => pending = <<>> /\ request = None /\ members = NoMembers
    /\ page = "closed" => file = <<>> \/ FileOK(file, Elements, FirstFree)
    /\ page = "broken" => file = <<>>
    /\ page = "open" =>
          \/ Fresh \/ Settled
          \/ \E m \in Name, v \in Value, a, lim \in Nat : Storing(m, v, a, lim)

\* The offsets that the next store computes stay below UINT_MAX + 1.
Fits ==
    \A v \in Value : members.firstFree + Grow + 1 + ItemSize * Grow + Size[v] < Word

\* What k stores or deaths can add to the first free cell, if no value has more than
\* u cells: a store adds a block and a value, a death leaves a block.
Bound(u, k) == IndexStart + Grow + 1 + k * (Grow + 1 + u)

\* The hypothesis on the constants: the pages in question do not come to the limit of
\* 4 GiB, at which the offsets of the code wrap around unnoticed (shouldClose).
Room ==
    \E v \in Value :
        /\ \A w \in Value : Size[w] <= Size[v]
        /\ Bound(Size[v], MaxItems + MaxOpens + 1) + ItemSize * Grow < Word

PageBound(u) ==
    /\ opens \in 0..MaxOpens
    /\ page = "open" =>
          /\ opens >= 1 /\ members.elements \in 0..MaxItems
          /\ members.firstFree \in Nat /\ members.firstFree <= Bound(u, members.elements + opens - 1)
    /\ page # "open" /\ file # <<>> => Elements \in 0..MaxItems /\ FirstFree <= Bound(u, Elements + opens)

-----------------------------------------------------------------------------
(* The walk over the index blocks. *)

\* Block is a recursive function of the number of the block: its approximations up to
\* every m exist and agree, so it satisfies its equation.
LEMMA BlockDef ==
    ASSUME NEW f
    PROVE  /\ Block(f)[0] = IndexStart
           /\ \A k \in Nat : Block(f)[k + 1] = Read(f, Block(f)[k] + Grow).to
<1> DEFINE V == {f[a].to : a \in DOMAIN f} \cup {0, IndexStart}
           Step(x) == Read(f, x + Grow).to
           Good(g, m) == \A k \in 0..m : g[k] = IF k = 0 THEN IndexStart ELSE Step(g[k - 1])
           Upto(m) == \E g \in [0..m -> V] : Good(g, m)
           has == {m \in Nat : Upto(m)}
<1>0. IndexStart \in V /\ \A x : Step(x) \in V
  BY DEF Read, Zero
<1> HIDE DEF V, Step
<1>1. 0 \in has
  <2>1. [k \in 0..0 |-> IndexStart] \in [0..0 -> V] /\ Good([k \in 0..0 |-> IndexStart], 0)
    BY <1>0
  <2> QED BY <2>1
<1>2. ASSUME NEW m \in Nat, m \in has PROVE m + 1 \in has
  <2>1. PICK g \in [0..m -> V] : Good(g, m)
    BY <1>2
  <2> DEFINE h == [k \in 0..(m + 1) |-> IF k = m + 1 THEN Step(g[m]) ELSE g[k]]
  <2>2. h \in [0..(m + 1) -> V]
    BY <1>0, <2>1
  <2>3. Good(h, m + 1)
    <3> SUFFICES ASSUME NEW k \in 0..(m + 1)
                 PROVE  h[k] = IF k = 0 THEN IndexStart ELSE Step(h[k - 1])
      OBVIOUS
    <3>1. k # 0 => k - 1 \in 0..m /\ h[k - 1] = g[k - 1]
      OBVIOUS
    <3>2. CASE k = m + 1
      BY <3>1, <3>2
    <3>3. CASE k # m + 1
      <4>1. k \in 0..m /\ h[k] = g[k]
        BY <3>3
      <4> QED BY <2>1, <3>1, <4>1
    <3> QED BY <3>2, <3>3
  <2> HIDE DEF h, Good
  <2>4. Upto(m + 1)
    BY <2>2, <2>3
  <2> QED BY <2>4
<1>3. \A m \in Nat : Upto(m)
  <2> HIDE DEF Upto
  <2>1. \A m \in Nat : m \in has => m + 1 \in has
    BY <1>2 DEF Upto
  <2> HIDE DEF has
  <2>2. \A m \in Nat : m \in has
    BY <1>1, <2>1, AllNats
  <2> QED BY <2>2 DEF has
<1> DEFINE app == [m \in Nat |-> CHOOSE g \in [0..m -> V] : Good(g, m)]
<1>4. \A m \in Nat : app[m] \in [0..m -> V] /\ Good(app[m], m)
  BY <1>3
<1> HIDE DEF app
<1>5. ASSUME NEW m \in Nat PROVE \A k \in 0..m : app[m + 1][k] = app[m][k]
  <2> DEFINE same == {k \in Nat : k <= m => app[m + 1][k] = app[m][k]}
  <2>1. 0 \in same
    <3>1. 0 \in 0..m /\ 0 \in 0..(m + 1)
      OBVIOUS
    <3> QED BY <1>4, <3>1
  <2>2. ASSUME NEW k \in Nat, k \in same PROVE k + 1 \in same
    <3> SUFFICES ASSUME k + 1 <= m PROVE app[m + 1][k + 1] = app[m][k + 1]
      OBVIOUS
    <3>1. app[m + 1][k] = app[m][k]
      BY <2>2
    <3>2. k + 1 \in 0..m /\ k + 1 \in 0..(m + 1) /\ k + 1 # 0 /\ (k + 1) - 1 = k
      OBVIOUS
    <3>3. app[m + 1][k + 1] = Step(app[m + 1][(k + 1) - 1]) /\ app[m][k + 1] = Step(app[m][(k + 1) - 1])
      BY <1>4, <3>2
    <3> QED BY <3>1, <3>2, <3>3
  <2>3. \A k \in Nat : k \in same
    <3>1. \A k \in Nat : k \in same => k + 1 \in same
      BY <2>2
    <3> HIDE DEF same
    <3> QED BY <2>1, <3>1, AllNats
  <2> QED BY <2>3
<1> DEFINE h == [k \in Nat |-> app[k][k]]
           F(b) == [k \in Nat |-> IF k = 0 THEN IndexStart ELSE Step(b[k - 1])]
<1>6. h = F(h)
  <2> SUFFICES ASSUME NEW k \in Nat PROVE h[k] = IF k = 0 THEN IndexStart ELSE Step(h[k - 1])
    OBVIOUS
  <2>1. app[k][k] = IF k = 0 THEN IndexStart ELSE Step(app[k][k - 1])
    BY <1>4
  <2>2. k # 0 => k - 1 \in Nat /\ k - 1 \in 0..(k - 1) /\ (k - 1) + 1 = k
    OBVIOUS
  <2>3. k # 0 => app[k][k - 1] = app[k - 1][k - 1]
    BY <1>5, <2>2
  <2> QED BY <2>1, <2>2, <2>3
<1> DEFINE walk == CHOOSE b : b = F(b)
<1>7. walk = F(walk)
  BY <1>6
<1>8. Block(f) = walk
  BY DEF Block, Step
<1> HIDE DEF walk
<1>9. \A k \in Nat : walk[k] = IF k = 0 THEN IndexStart ELSE Step(walk[k - 1])
  BY <1>7
<1>10. \A k \in Nat : k + 1 \in Nat /\ k + 1 # 0 /\ (k + 1) - 1 = k
  OBVIOUS
<1> QED BY <1>8, <1>9, <1>10 DEF Step

\* The first blocks depend only on the pointers that lead to them.
LEMMA BlockKeeps ==
    ASSUME NEW f, NEW g, NEW n \in Nat,
           \A k \in 0..n : k < n => Read(g, Block(f)[k] + Grow) = Read(f, Block(f)[k] + Grow)
    PROVE  \A k \in 0..n : Block(g)[k] = Block(f)[k]
<1> DEFINE same == {k \in Nat : k <= n => Block(g)[k] = Block(f)[k]}
<1>1. 0 \in same
  BY BlockDef
<1>2. ASSUME NEW k \in Nat, k \in same PROVE k + 1 \in same
  <2> SUFFICES ASSUME k + 1 <= n PROVE Block(g)[k + 1] = Block(f)[k + 1]
    OBVIOUS
  <2>1. Block(g)[k] = Block(f)[k] /\ Read(g, Block(f)[k] + Grow) = Read(f, Block(f)[k] + Grow)
    BY <1>2
  <2>2. Block(g)[k + 1] = Read(g, Block(g)[k] + Grow).to
    BY BlockDef
  <2>3. Block(f)[k + 1] = Read(f, Block(f)[k] + Grow).to
    BY BlockDef
  <2> QED BY <2>1, <2>2, <2>3
<1>3. \A k \in Nat : k \in same
  <2>1. \A k \in Nat : k \in same => k + 1 \in same
    BY <1>2
  <2> HIDE DEF same
  <2> QED BY <1>1, <2>1, AllNats
<1> QED BY <1>3

\* Division by the size of a block.
LEMMA DivGrow ==
    ASSUME NEW i \in Nat
    PROVE  /\ i \div Grow \in Nat /\ i % Grow \in 0..(Grow - 1)
           /\ i = Grow * (i \div Grow) + (i % Grow)
  BY FilepageConstants

LEMMA DivUnique ==
    ASSUME NEW q \in Nat, NEW r \in 0..(Grow - 1), NEW p \in Nat, NEW s \in 0..(Grow - 1)
    PROVE  /\ Grow * q + r = Grow * p + s => q = p /\ r = s
           /\ Grow * q + r <= Grow * p + s => q <= p
<1>0. Grow \in Nat /\ Grow > 1
  BY FilepageConstants
<1>1. ASSUME NEW x \in Nat, NEW y \in Nat, x < y PROVE Grow * x + Grow <= Grow * y
  <2>1. Grow * (y - x) >= Grow
    BY <1>0, <1>1
  <2>2. Grow * (y - x) = Grow * y - Grow * x
    BY <1>0
  <2>3. Grow * y \in Nat /\ Grow * x \in Nat
    BY <1>0
  <2> QED BY <1>0, <2>1, <2>2, <2>3
<1>2. Grow * q \in Nat /\ Grow * p \in Nat
  BY <1>0
<1>3. q < p => Grow * q + Grow <= Grow * p
  BY <1>1
<1>4. p < q => Grow * p + Grow <= Grow * q
  BY <1>1
<1> HIDE DEF IndexStart
<1>5. Grow * q + r <= Grow * p + s => q <= p
  BY <1>0, <1>2, <1>3, <1>4
<1>6. Grow * q + r = Grow * p + s => q = p
  BY <1>0, <1>2, <1>3, <1>4
<1> QED BY <1>0, <1>2, <1>5, <1>6

\* Which block an item is in, and whether the next one needs another block.
LEMMA LastFacts ==
    ASSUME NEW n \in Nat
    PROVE  /\ LastOf(n) \in Nat /\ LastOf(n + 1) = n \div Grow
           /\ \A i \in 0..(n - 1) : i \div Grow \in 0..LastOf(n)
           /\ Full(n) => n \div Grow = LastOf(n) + 1 /\ n % Grow = 0
           /\ ~Full(n) => n \div Grow = LastOf(n)
<1>0. Grow \in Nat /\ Grow > 1
  BY FilepageConstants
<1>1. LastOf(n) \in Nat
  <2>1. CASE n = 0
    BY <2>1 DEF LastOf
  <2>2. CASE n # 0
    BY <2>2, DivGrow DEF LastOf
  <2> QED BY <2>1, <2>2
<1>2. LastOf(n + 1) = n \div Grow
  BY DEF LastOf
<1>3. ASSUME NEW i \in 0..(n - 1) PROVE i \div Grow \in 0..LastOf(n)
  <2>1. n # 0 /\ n - 1 \in Nat /\ i \in Nat /\ i <= n - 1
    OBVIOUS
  <2> DEFINE p == i \div Grow
             r == i % Grow
             q == (n - 1) \div Grow
             s == (n - 1) % Grow
  <2>2. p \in Nat /\ r \in 0..(Grow - 1) /\ i = Grow * p + r
    BY <2>1, DivGrow
  <2>3. q \in Nat /\ s \in 0..(Grow - 1) /\ n - 1 = Grow * q + s
    BY <2>1, DivGrow
  <2> HIDE DEF p, q, r, s
  <2>4. p <= q
    <3>1. Grow * p + r <= Grow * q + s
      BY <2>1, <2>2, <2>3
    <3> QED BY <2>2, <2>3, <3>1, DivUnique
  <2>5. LastOf(n) = q
    BY <2>1 DEF LastOf, q
  <2> QED BY <2>2, <2>3, <2>4, <2>5 DEF p
<1> DEFINE q == n \div Grow
           r == n % Grow
<1>4. q \in Nat /\ r \in 0..(Grow - 1) /\ n = Grow * q + r
  BY DivGrow
<1>5. n # 0 => /\ (n - 1) \div Grow \in Nat /\ (n - 1) % Grow \in 0..(Grow - 1)
               /\ n - 1 = Grow * ((n - 1) \div Grow) + ((n - 1) % Grow)
               /\ LastOf(n) = (n - 1) \div Grow
  BY DivGrow DEF LastOf
<1> HIDE DEF q, r
<1>6. ASSUME r # 0 PROVE q = LastOf(n)
  <2>1. r - 1 \in 0..(Grow - 1) /\ n - 1 = Grow * q + (r - 1)
    <3>1. Grow * q \in Nat
      BY <1>0, <1>4
    <3> QED BY <1>0, <1>4, <1>6, <3>1
  <2>2. n # 0
    <3>1. Grow * q \in Nat
      BY <1>0, <1>4
    <3> QED BY <1>0, <1>4, <1>6, <3>1
  <2> QED BY <1>4, <1>5, <2>1, <2>2, DivUnique
<1>7. ASSUME r = 0, n # 0 PROVE q = LastOf(n) + 1
  <2>1. q # 0
    BY <1>0, <1>4, <1>7
  <2>2. q - 1 \in Nat /\ Grow - 1 \in 0..(Grow - 1)
    BY <1>0, <1>4, <2>1
  <2>3. Grow * (q - 1) = Grow * q - Grow
    BY <1>0, <1>4
  <2>4. n - 1 = Grow * (q - 1) + (Grow - 1)
    <3>1. Grow * q \in Nat
      BY <1>0, <1>4
    <3> QED BY <1>0, <1>4, <1>7, <2>3, <3>1
  <2>5. q - 1 = LastOf(n)
    BY <1>5, <1>7, <2>2, <2>4, DivUnique
  <2> QED BY <1>4, <2>5
<1>8. n = 0 => q = 0 /\ r = 0 /\ LastOf(n) = 0
  BY <1>0 DEF q, r, LastOf
<1>9. n = 1 => r # 0
  <2>1. 1 = Grow * 0 + 1 /\ 0 \in Nat /\ 1 \in 0..(Grow - 1)
    BY <1>0
  <2>2. n = 1 => r = 1
    BY <1>4, <2>1, DivUnique
  <2> QED BY <2>2
<1>10. (Full(n) <=> (r = 0 /\ n > 1)) /\ (n > 1 <=> n \notin {0, 1})
  BY DEF Full, r
<1> QED BY <1>1, <1>2, <1>3, <1>6, <1>7, <1>8, <1>9, <1>10 DEF q, r

-----------------------------------------------------------------------------
(* What open() loads. *)

\* An index item is loaded unless a later one has its name.
LEMMA LoadDef ==
    ASSUME NEW f, NEW n \in Nat, f[0].elements = n
    PROVE  \A c : c \in Load(f) <=>
              \E i \in 0..(n - 1) :
                 /\ c = ItemAt(f, i)
                 /\ \A j \in 0..(n - 1) : ItemAt(f, j).name = ItemAt(f, i).name => j <= i
<1> DEFINE read == {<<i, ItemAt(f, i)>> : i \in 0..(n - 1)}
           Latest(q) == \A r \in read : r[2].name = q[2].name => r[1] <= q[1]
           last == {q \in read : Latest(q)}
           Last(i) == \A j \in 0..(n - 1) : ItemAt(f, j).name = ItemAt(f, i).name => j <= i
<1>1. Load(f) = {p[2] : p \in last}
  BY DEF Load, ItemAt, Slot
<1>2. ASSUME NEW i \in 0..(n - 1) PROVE Latest(<<i, ItemAt(f, i)>>) <=> Last(i)
  <2>1. ASSUME Last(i), NEW r \in read, r[2].name = ItemAt(f, i).name PROVE r[1] <= i
    <3>1. PICK j \in 0..(n - 1) : r = <<j, ItemAt(f, j)>>
      OBVIOUS
    <3> QED BY <2>1, <3>1
  <2>2. ASSUME Latest(<<i, ItemAt(f, i)>>), NEW j \in 0..(n - 1), ItemAt(f, j).name = ItemAt(f, i).name
        PROVE  j <= i
    <3>1. <<j, ItemAt(f, j)>> \in read
      OBVIOUS
    <3> HIDE DEF read
    <3> QED BY <2>2, <3>1
  <2> QED BY <2>1, <2>2
<1> HIDE DEF Latest, Last
<1>3. ASSUME NEW c PROVE c \in Load(f) <=> \E i \in 0..(n - 1) : c = ItemAt(f, i) /\ Last(i)
  <2>1. c \in Load(f) <=> \E p \in last : c = p[2]
    BY <1>1
  <2>2. ASSUME NEW p \in last, c = p[2] PROVE \E i \in 0..(n - 1) : c = ItemAt(f, i) /\ Last(i)
    <3>1. PICK i \in 0..(n - 1) : p = <<i, ItemAt(f, i)>>
      OBVIOUS
    <3>2. Latest(<<i, ItemAt(f, i)>>)
      BY <3>1
    <3> QED BY <1>2, <2>2, <3>1, <3>2
  <2>3. ASSUME NEW i \in 0..(n - 1), c = ItemAt(f, i), Last(i) PROVE \E p \in last : c = p[2]
    <3>1. <<i, ItemAt(f, i)>> \in last
      BY <1>2, <2>3
    <3>2. <<i, ItemAt(f, i)>>[2] = c
      BY <2>3
    <3> QED BY <3>1, <3>2
  <2> QED BY <2>1, <2>2, <2>3
<1> QED BY <1>3 DEF Last

\* A page that keeps its live cells keeps its blocks and its items.
LEMMA KeepFile ==
    ASSUME NEW f, NEW g, NEW n \in Nat, NEW lim \in Nat, FileOK(f, n, lim), Headed(g, n),
           \A a \in Nat : Live(f, n, a) => Read(g, a) = Read(f, a)
    PROVE  /\ \A k \in 0..LastOf(n) : Block(g)[k] = Block(f)[k]
           /\ \A i \in 0..(n - 1) : Slot(g, i) = Slot(f, i) /\ ItemAt(g, i) = ItemAt(f, i)
           /\ FileOK(g, n, lim) /\ LastBlock(g) = LastBlock(f) /\ Load(g) = Load(f)
           /\ \A a \in Nat : Live(g, n, a) <=> Live(f, n, a)
<1>0. Grow \in Nat /\ LastOf(n) \in Nat /\ \A i \in 0..(n - 1) : i \div Grow \in 0..LastOf(n)
  BY LastFacts, FilepageConstants
<1>a. \A k \in 0..LastOf(n) : Block(f)[k] \in Nat
  BY DEF FileOK, Chained
<1>1. \A k \in 0..LastOf(n) : Block(g)[k] = Block(f)[k]
  <2>1. \A k \in 0..LastOf(n) : k < LastOf(n) =>
           Read(g, Block(f)[k] + Grow) = Read(f, Block(f)[k] + Grow)
    BY <1>0, <1>a DEF Live
  <2> QED BY <1>0, <2>1, BlockKeeps
<1>2. ASSUME NEW i \in 0..(n - 1)
      PROVE  Slot(f, i) \in Nat /\ Slot(g, i) = Slot(f, i) /\ ItemAt(g, i) = ItemAt(f, i)
  <2>1. i % Grow \in Nat
    BY DivGrow
  <2> DEFINE q == i \div Grow
             r == i % Grow
  <2>0. q \in 0..LastOf(n) /\ r \in Nat
    BY <1>0, <2>1
  <2>a. Slot(f, i) = Block(f)[q] + r /\ Slot(g, i) = Block(g)[q] + r
    BY DEF Slot
  <2> HIDE DEF q, r
  <2>2. Slot(f, i) \in Nat /\ Slot(g, i) = Slot(f, i)
    BY <1>1, <1>a, <2>0, <2>a
  <2>3. Live(f, n, Slot(f, i))
    BY DEF Live
  <2> QED BY <2>2, <2>3 DEF ItemAt
<1>3. Chained(g, n, lim)
  BY <1>1 DEF FileOK, Chained
<1>4. Placed(g, n, lim)
  <2>1. ASSUME NEW i \in 0..(n - 1) PROVE Whole(g, ItemAt(f, i), lim)
    <3> DEFINE e == ItemAt(f, i)
    <3>1. PICK m \in Name, v \in Value :
             /\ e.item \in Nat /\ e = Item(m, v, e.item)
             /\ IndexStart <= e.item /\ e.item + Size[v] <= lim
             /\ \A k \in 1..Size[v] : Read(f, e.item + k - 1) = Data(v, k)
      BY DEF FileOK, Placed, Whole
    <3>2. Size[v] \in Nat /\ e.size = Size[v]
      BY <3>1, FilepageConstants DEF Item
    <3>3. ASSUME NEW k \in 1..Size[v] PROVE Read(g, e.item + k - 1) = Data(v, k)
      <4>1. e.item + k - 1 \in Nat /\ e.item + k - 1 \in e.item..(e.item + e.size - 1)
        BY <3>1, <3>2
      <4>2. Live(f, n, e.item + k - 1)
        BY <4>1 DEF Live
      <4> QED BY <3>1, <4>1, <4>2
    <3> QED BY <3>1, <3>3 DEF Whole
  <2> QED BY <1>1, <1>2, <2>1 DEF FileOK, Placed
<1>5. LastBlock(g) = LastBlock(f)
  BY <1>0, <1>1 DEF LastBlock, LastOf, FileOK, Headed
<1>6. Load(g) = Load(f)
  <2>1. f[0].elements = n /\ g[0].elements = n
    BY DEF FileOK, Headed
  <2>2. \A c : c \in Load(g) <=> c \in Load(f)
    BY <1>2, <2>1, LoadDef
  <2> QED BY <2>2 DEF Load
<1>7. \A a \in Nat : Live(g, n, a) <=> Live(f, n, a)
  BY <1>1, <1>2 DEF Live
<1> QED BY <1>1, <1>2, <1>3, <1>4, <1>5, <1>6, <1>7 DEF FileOK

-----------------------------------------------------------------------------
(* What retrieveItem returns. *)

\* The value in the cells of the item that has the name.
LEMMA FetchIs ==
    ASSUME NEW f, NEW c, NEW e \in c, NEW v \in Value, e.item \in Nat, e.size = Size[v],
           \A k \in 1..Size[v] : Read(f, e.item + k - 1) = Data(v, k),
           \A o \in c : o.name = e.name => o = e
    PROVE  Fetch(f, c, e.name) = v
<1> DEFINE holds(x, w) == x.size = Size[w] /\ \A k \in 1..Size[w] : Read(f, x.item + k - 1) = Data(w, k)
           named == {x \in c : x.name = e.name}
           values == UNION {{w \in Value : holds(x, w)} : x \in named}
<1>1. Size[v] \in Nat \ {0} /\ 1 \in 1..Size[v]
  BY FilepageConstants
<1>2. \A w : w \in values <=> w \in Value /\ holds(e, w)
  <2>1. \A x : x \in named <=> x = e
    OBVIOUS
  <2> HIDE DEF named, holds
  <2> QED BY <2>1
<1>3. v \in values
  BY <1>2
<1>4. ASSUME NEW w \in values PROVE w = v
  <2>1. holds(e, w)
    BY <1>2
  <2>2. Data(w, 1) = Data(v, 1)
    BY <1>1, <2>1
  <2> QED BY <2>2 DEF Data
<1>5. Fetch(f, c, e.name) = IF \A x \in c : x.name # e.name THEN None
                            ELSE IF values = {} THEN "garbage" ELSE CHOOSE w \in values : TRUE
  BY DEF Fetch
<1> HIDE DEF values
<1>6. (CHOOSE w \in values : TRUE) \in values
  BY <1>3
<1> QED BY <1>3, <1>4, <1>5, <1>6

LEMMA FetchNone ==
    ASSUME NEW f, NEW c, NEW x, \A o \in c : o.name # x
    PROVE  Fetch(f, c, x) = None
  BY DEF Fetch

\* The items that open() finds are whole, and have different names.
LEMMA Loaded ==
    ASSUME NEW f, NEW n \in Nat, NEW lim, FileOK(f, n, lim)
    PROVE  /\ \A e \in Load(f) : Whole(f, e, lim)
           /\ \A e, o \in Load(f) : o.name = e.name => o = e
<1>1. f[0].elements = n /\ \A i \in 0..(n - 1) : Whole(f, ItemAt(f, i), lim)
  BY DEF FileOK, Headed, Placed
<1>2. ASSUME NEW e \in Load(f), NEW o \in Load(f), o.name = e.name PROVE o = e
  <2>1. PICK i \in 0..(n - 1) :
           /\ e = ItemAt(f, i)
           /\ \A j \in 0..(n - 1) : ItemAt(f, j).name = ItemAt(f, i).name => j <= i
    BY <1>1, LoadDef
  <2>2. PICK k \in 0..(n - 1) :
           /\ o = ItemAt(f, k)
           /\ \A j \in 0..(n - 1) : ItemAt(f, j).name = ItemAt(f, k).name => j <= k
    BY <1>1, LoadDef
  <2>3. i <= k /\ k <= i
    BY <1>2, <2>1, <2>2
  <2>4. i = k
    BY <2>3
  <2> QED BY <2>1, <2>2, <2>4
<1> QED BY <1>1, <1>2, LoadDef

\* The first cell of an item tells which value it has.
LEMMA FirstCell ==
    ASSUME NEW f, NEW n \in Nat, NEW lim \in Nat, FileOK(f, n, lim), NEW e \in Load(f)
    PROVE  /\ e.item \in Nat /\ Live(f, n, e.item)
           /\ \E v \in Value : Read(f, e.item) = Data(v, 1) /\ Fetch(f, Load(f), e.name) = v
<1>1. PICK m \in Name, v \in Value :
         /\ e.item \in Nat /\ e = Item(m, v, e.item)
         /\ \A k \in 1..Size[v] : Read(f, e.item + k - 1) = Data(v, k)
  BY Loaded DEF Whole
<1>2. e.size = Size[v] /\ Size[v] \in Nat \ {0} /\ 1 \in 1..Size[v] /\ e.item + 1 - 1 = e.item
  BY <1>1, FilepageConstants DEF Item
<1>3. \A o \in Load(f) : o.name = e.name => o = e
  BY Loaded
<1>4. Fetch(f, Load(f), e.name) = v
  BY <1>1, <1>2, <1>3, FetchIs
<1>5. Read(f, e.item) = Data(v, 1)
  BY <1>1, <1>2
<1>6. PICK i \in 0..(n - 1) : e = ItemAt(f, i)
  <2>1. f[0].elements = n
    BY DEF FileOK, Headed
  <2> QED BY <2>1, LoadDef
<1>7. e.item \in e.item..(e.item + e.size - 1)
  BY <1>1, <1>2
<1>8. Live(f, n, e.item)
  BY <1>6, <1>7 DEF Live
<1> QED BY <1>1, <1>4, <1>5, <1>8

\* Two pages with the same item and first cell return the same value.
LEMMA SameFetch ==
    ASSUME NEW f, NEW n \in Nat, NEW lim \in Nat, FileOK(f, n, lim), NEW e \in Load(f),
           NEW g, NEW p \in Nat, NEW top \in Nat, FileOK(g, p, top), e \in Load(g),
           \A a \in Nat : Live(f, n, a) => Read(g, a) = Read(f, a)
    PROVE  Fetch(g, Load(g), e.name) = Fetch(f, Load(f), e.name)
<1>1. PICK v \in Value : Read(f, e.item) = Data(v, 1) /\ Fetch(f, Load(f), e.name) = v
  BY FirstCell
<1>2. PICK w \in Value : Read(g, e.item) = Data(w, 1) /\ Fetch(g, Load(g), e.name) = w
  BY FirstCell
<1>3. Read(g, e.item) = Read(f, e.item)
  BY FirstCell
<1>4. v = w
  BY <1>1, <1>2, <1>3 DEF Data
<1> QED BY <1>1, <1>2, <1>4

\* A name keeps its value on a page that keeps its live cells.
LEMMA FetchKeeps ==
    ASSUME NEW f, NEW g, NEW n \in Nat, NEW lim \in Nat, FileOK(f, n, lim), Headed(g, n),
           \A a \in Nat : Live(f, n, a) => Read(g, a) = Read(f, a), NEW x
    PROVE  Fetch(g, Load(g), x) = Fetch(f, Load(f), x)
<1>1. Load(g) = Load(f) /\ FileOK(g, n, lim)
  BY KeepFile
<1>2. ASSUME NEW e \in Load(f), e.name = x PROVE Fetch(g, Load(g), x) = Fetch(f, Load(f), x)
  <2>1. e \in Load(g)
    BY <1>1
  <2>2. Fetch(g, Load(g), e.name) = Fetch(f, Load(f), e.name)
    BY <1>1, <2>1, SameFetch
  <2> QED BY <1>2, <2>2
<1>3. CASE \A e \in Load(f) : e.name # x
  BY <1>1, <1>3, FetchNone
<1> QED BY <1>2, <1>3

-----------------------------------------------------------------------------
(* The header that ends a store. *)

\* What the file g has in place, besides the live cells of f, when the header with
\* one more item is written: the index item at index + n % Grow, its value at a and,
\* if the page grew, the pointer to the new block.
Ready(f, g, n, m, v, a, lim, index) ==
    /\ \A b \in Nat : Live(f, n, b) => Read(g, b) = Read(f, b)
    /\ IF Full(n) THEN /\ index = lim /\ a = lim + Grow + 1
                       /\ Read(g, LastBlock(f) + Grow) = Pointer(index)
                  ELSE lim = a /\ index = LastBlock(f)
    /\ Read(g, index + (n % Grow)) = Item(m, v, a)
    /\ \A k \in 1..Size[v] : Read(g, a + k - 1) = Data(v, k)

\* The blocks and items of the old page, and the new ones.
LEMMA NewBlocks ==
    ASSUME NEW f, NEW g, NEW n \in Nat, NEW m \in Name, NEW v \in Value, NEW a \in Nat,
           NEW lim \in Nat, NEW index \in Nat,
           FileOK(f, n, lim), Ready(f, g, n, m, v, a, lim, index)
    PROVE  /\ \A k \in 0..LastOf(n) : Block(g)[k] = Block(f)[k]
           /\ \A i \in 0..(n - 1) : ItemAt(g, i) = ItemAt(f, i)
           /\ Block(g)[LastOf(n + 1)] = index /\ ItemAt(g, n) = Item(m, v, a)
           /\ LastOf(n + 1) \in Nat
           /\ IF Full(n) THEN LastOf(n + 1) = LastOf(n) + 1 ELSE LastOf(n + 1) = LastOf(n)
<1>0. Grow \in Nat /\ LastOf(n) \in Nat /\ \A i \in 0..(n - 1) : i \div Grow \in 0..LastOf(n)
  BY LastFacts, FilepageConstants
<1>a. \A k \in 0..LastOf(n) : Block(f)[k] \in Nat
  BY DEF FileOK, Chained
<1>1. \A k \in 0..LastOf(n) : Block(g)[k] = Block(f)[k]
  <2>1. \A k \in 0..LastOf(n) : k < LastOf(n) =>
           Read(g, Block(f)[k] + Grow) = Read(f, Block(f)[k] + Grow)
    BY <1>0, <1>a DEF Live, Ready
  <2> QED BY <1>0, <2>1, BlockKeeps
<1>2. ASSUME NEW i \in 0..(n - 1) PROVE ItemAt(g, i) = ItemAt(f, i)
  <2> DEFINE q == i \div Grow
             r == i % Grow
  <2>a. i % Grow \in Nat
    BY DivGrow
  <2>1. q \in 0..LastOf(n) /\ r \in Nat
    BY <1>0, <2>a
  <2>2. Slot(f, i) = Block(f)[q] + r /\ Slot(g, i) = Block(g)[q] + r
    BY DEF Slot
  <2> HIDE DEF q, r
  <2>3. Slot(f, i) \in Nat /\ Slot(g, i) = Slot(f, i)
    BY <1>1, <1>a, <2>1, <2>2
  <2>4. Live(f, n, Slot(f, i))
    BY DEF Live
  <2> QED BY <2>3, <2>4 DEF ItemAt, Ready
<1>3. LastBlock(f) = Block(f)[LastOf(n)]
  BY DEF LastBlock, LastOf, FileOK, Headed
<1>4. Block(g)[LastOf(n + 1)] = index
  <2>1. CASE Full(n)
    <3>1. LastOf(n + 1) = LastOf(n) + 1
      BY <2>1, LastFacts
    <3>2. Block(g)[LastOf(n) + 1] = Read(g, Block(g)[LastOf(n)] + Grow).to
      BY <1>0, BlockDef
    <3>3. Block(g)[LastOf(n)] = LastBlock(f)
      BY <1>0, <1>1, <1>3
    <3> QED BY <2>1, <3>1, <3>2, <3>3 DEF Ready, Pointer
  <2>2. CASE ~Full(n)
    <3>1. LastOf(n + 1) = LastOf(n)
      BY <2>2, LastFacts
    <3> QED BY <1>0, <1>1, <1>3, <2>2, <3>1 DEF Ready
  <2> QED BY <2>1, <2>2
<1>5. ItemAt(g, n) = Item(m, v, a)
  BY <1>4, LastFacts DEF Ready, ItemAt, Slot
<1>6. /\ LastOf(n + 1) \in Nat
      /\ IF Full(n) THEN LastOf(n + 1) = LastOf(n) + 1 ELSE LastOf(n + 1) = LastOf(n)
  <2> DEFINE q == n \div Grow
  <2>1. LastOf(n + 1) = q /\ (Full(n) => q = LastOf(n) + 1) /\ (~Full(n) => q = LastOf(n))
    BY LastFacts
  <2> HIDE DEF q
  <2> QED BY <1>0, <2>1
<1> QED BY <1>1, <1>2, <1>4, <1>5, <1>6

LEMMA CommitFile ==
    ASSUME NEW f, NEW g, NEW n \in Nat, NEW m \in Name, NEW v \in Value, NEW a \in Nat,
           NEW lim \in Nat, NEW index \in Nat,
           FileOK(f, n, lim), Ready(f, g, n, m, v, a, lim, index), Headed(g, n + 1)
    PROVE  FileOK(g, n + 1, a + Size[v]) /\ LastBlock(g) = index
<1>0. Grow \in Nat /\ Grow > 1 /\ Size[v] \in Nat /\ Size[v] > 0 /\ LastOf(n) \in Nat
  BY LastFacts, FilepageConstants
<1>a. /\ \A k \in 0..LastOf(n) : Block(g)[k] = Block(f)[k]
      /\ \A i \in 0..(n - 1) : ItemAt(g, i) = ItemAt(f, i)
      /\ Block(g)[LastOf(n + 1)] = index /\ ItemAt(g, n) = Item(m, v, a)
      /\ LastOf(n + 1) \in Nat
      /\ IF Full(n) THEN LastOf(n + 1) = LastOf(n) + 1 ELSE LastOf(n + 1) = LastOf(n)
  BY NewBlocks
<1> DEFINE K == LastOf(n)
           L == LastOf(n + 1)
<1>1. /\ \A k \in 0..K : Block(g)[k] = Block(f)[k]
      /\ \A i \in 0..(n - 1) : ItemAt(g, i) = ItemAt(f, i)
      /\ Block(g)[L] = index /\ ItemAt(g, n) = Item(m, v, a) /\ L \in Nat
      /\ IF Full(n) THEN L = K + 1 ELSE L = K
  BY <1>a
<1>2. /\ \A k \in 0..K : Block(f)[k] \in Nat /\ IndexStart <= Block(f)[k] /\ Block(f)[k] + Grow < lim
      /\ \A j, k \in 0..K : j < k => Block(f)[j] + Grow < Block(f)[k]
  BY DEF FileOK, Chained
<1>3. IF Full(n) THEN index = lim /\ a = lim + Grow + 1 ELSE lim = a /\ index = Block(f)[K]
  BY DEF Ready, LastBlock, LastOf, FileOK, Headed
<1>4. IndexStart + Grow < lim /\ lim <= a
  <2>1. 0 \in 0..K /\ Block(f)[0] = IndexStart
    BY <1>0, BlockDef
  <2> QED BY <1>0, <1>2, <1>3, <2>1 DEF IndexStart
<1>5. \A k \in 0..L : k \in 0..K \/ (Full(n) /\ k = L /\ L = K + 1 /\ Block(g)[k] = lim)
  BY <1>0, <1>1, <1>3
<1> HIDE DEF K, L
<1>6. /\ \A k \in 0..L : Block(g)[k] \in Nat /\ IndexStart <= Block(g)[k] /\ Block(g)[k] + Grow < a
      /\ \A j, k \in 0..L : j < k => Block(g)[j] + Grow < Block(g)[k]
  <2>1. ASSUME NEW k \in 0..L
        PROVE  Block(g)[k] \in Nat /\ IndexStart <= Block(g)[k] /\ Block(g)[k] + Grow < a
    BY <1>0, <1>1, <1>2, <1>3, <1>4, <1>5 DEF IndexStart
  <2>2. ASSUME NEW j \in 0..L, NEW k \in 0..L, j < k PROVE Block(g)[j] + Grow < Block(g)[k]
    <3>1. j \in 0..K
      BY <1>0, <1>5, <2>2 DEF K
    <3> QED BY <1>1, <1>2, <1>5, <2>2, <3>1
  <2> QED BY <2>1, <2>2
<1>7. Chained(g, n + 1, a + Size[v])
  BY <1>0, <1>6 DEF Chained, L, IndexStart
<1>8. /\ Item(m, v, a).item = a /\ Item(m, v, a).size = Size[v]
      /\ \A i \in 0..n : i \in 0..(n - 1) \/ (i = n /\ i \notin 0..(n - 1))
  BY DEF Item
<1>9. \A i \in 0..(n - 1) :
         /\ ItemAt(g, i) = ItemAt(f, i) /\ Whole(f, ItemAt(f, i), lim)
         /\ ItemAt(f, i).item \in Nat /\ ItemAt(f, i).size \in Nat
         /\ ItemAt(f, i).item + ItemAt(f, i).size <= lim
  <2> SUFFICES ASSUME NEW i \in 0..(n - 1)
               PROVE  /\ ItemAt(f, i).item \in Nat /\ ItemAt(f, i).size \in Nat
                      /\ ItemAt(f, i).item + ItemAt(f, i).size <= lim /\ Whole(f, ItemAt(f, i), lim)
    BY <1>1
  <2>1. Whole(f, ItemAt(f, i), lim)
    BY DEF FileOK, Placed
  <2> QED BY <2>1, FilepageConstants DEF Whole, Item
<1>10. ASSUME NEW i \in 0..n PROVE Whole(g, ItemAt(g, i), a + Size[v])
  <2>1. CASE i = n
    <3>1. a + Size[v] <= a + Size[v] /\ IndexStart <= a
      BY <1>0, <1>4 DEF IndexStart
    <3> QED BY <1>1, <1>8, <2>1, <3>1 DEF Whole, Ready
  <2>2. CASE i \in 0..(n - 1)
    <3> DEFINE e == ItemAt(f, i)
    <3>1. PICK x \in Name, w \in Value :
             /\ e.item \in Nat /\ e = Item(x, w, e.item)
             /\ IndexStart <= e.item /\ e.item + Size[w] <= lim
             /\ \A k \in 1..Size[w] : Read(f, e.item + k - 1) = Data(w, k)
      BY <1>9, <2>2 DEF Whole
    <3>2. Size[w] \in Nat /\ e.size = Size[w]
      BY <3>1, FilepageConstants DEF Item
    <3>3. ASSUME NEW k \in 1..Size[w] PROVE Read(g, e.item + k - 1) = Data(w, k)
      <4>1. e.item + k - 1 \in Nat /\ e.item + k - 1 \in e.item..(e.item + e.size - 1)
        BY <3>1, <3>2
      <4>2. Live(f, n, e.item + k - 1)
        BY <2>2, <4>1 DEF Live
      <4> QED BY <3>1, <4>1, <4>2 DEF Ready
    <3>4. e.item + Size[w] <= a + Size[v]
      BY <1>0, <1>4, <3>1, <3>2
    <3>5. ItemAt(g, i) = e
      BY <1>9, <2>2
    <3> QED BY <3>1, <3>3, <3>4, <3>5 DEF Whole
  <2> QED BY <1>8, <2>1, <2>2
<1>11. ASSUME NEW i \in 0..n, NEW j \in 0..n, i < j
       PROVE  ItemAt(g, i).item + ItemAt(g, i).size <= ItemAt(g, j).item
  <2>1. i \in 0..(n - 1)
    BY <1>11
  <2>2. CASE j = n
    BY <1>1, <1>4, <1>8, <1>9, <2>1, <2>2
  <2>3. CASE j \in 0..(n - 1)
    BY <1>9, <1>11, <2>1, <2>3 DEF FileOK, Placed
  <2> QED BY <1>8, <2>2, <2>3
<1>12. ASSUME NEW i \in 0..n, NEW k \in 0..L
       PROVE  \/ ItemAt(g, i).item + ItemAt(g, i).size <= Block(g)[k]
              \/ Block(g)[k] + Grow < ItemAt(g, i).item
  <2>1. CASE i = n
    BY <1>1, <1>6, <1>8, <2>1
  <2>2. CASE i \in 0..(n - 1) /\ k \in 0..K
    BY <1>1, <1>9, <2>2 DEF FileOK, Placed, K
  <2>3. CASE i \in 0..(n - 1) /\ k \notin 0..K
    BY <1>5, <1>9, <2>3
  <2> QED BY <1>8, <2>1, <2>2, <2>3
<1>13. Placed(g, n + 1, a + Size[v])
  <2>1. (n + 1) - 1 = n
    OBVIOUS
  <2> QED BY <1>10, <1>11, <1>12, <2>1 DEF Placed, L
<1>14. LastBlock(g) = index
  <2>1. g[0].elements = n + 1 /\ n + 1 # 0 /\ (n + 1) - 1 = n
    BY DEF Headed
  <2>2. LastBlock(g) = Block(g)[n \div Grow]
    BY <2>1 DEF LastBlock
  <2> QED BY <1>1, <2>2, LastFacts DEF L
<1> QED BY <1>7, <1>13, <1>14 DEF FileOK

\* The new item takes the place of the one with its name, and no other.
LEMMA CommitLoad ==
    ASSUME NEW f, NEW g, NEW n \in Nat, NEW m \in Name, NEW v \in Value, NEW a \in Nat,
           NEW lim \in Nat, NEW index \in Nat,
           FileOK(f, n, lim), Ready(f, g, n, m, v, a, lim, index), Headed(g, n + 1)
    PROVE  Load(g) = {c \in Load(f) : c.name # m} \cup {Item(m, v, a)}
<1>a. /\ \A k \in 0..LastOf(n) : Block(g)[k] = Block(f)[k]
      /\ \A i \in 0..(n - 1) : ItemAt(g, i) = ItemAt(f, i)
      /\ Block(g)[LastOf(n + 1)] = index /\ ItemAt(g, n) = Item(m, v, a)
      /\ LastOf(n + 1) \in Nat
      /\ IF Full(n) THEN LastOf(n + 1) = LastOf(n) + 1 ELSE LastOf(n + 1) = LastOf(n)
  BY NewBlocks
<1>1. (\A i \in 0..(n - 1) : ItemAt(g, i) = ItemAt(f, i)) /\ ItemAt(g, n) = Item(m, v, a)
  BY <1>a
<1>2. f[0].elements = n /\ g[0].elements = n + 1 /\ n + 1 \in Nat /\ (n + 1) - 1 = n
  BY DEF FileOK, Headed
<1>3. Item(m, v, a).name = m
  BY DEF Item
<1>4. \A i \in 0..n : i \in 0..(n - 1) \/ (i = n /\ i \notin 0..(n - 1))
  OBVIOUS
<1> DEFINE InF(c) == \E i \in 0..(n - 1) :
              c = ItemAt(f, i) /\ \A j \in 0..(n - 1) : ItemAt(f, j).name = ItemAt(f, i).name => j <= i
           InG(c) == \E i \in 0..n :
              c = ItemAt(g, i) /\ \A j \in 0..n : ItemAt(g, j).name = ItemAt(g, i).name => j <= i
<1>5. \A c : c \in Load(f) <=> InF(c)
  BY <1>2, LoadDef
<1>6. \A c : c \in Load(g) <=> InG(c)
  <2>1. \A c : c \in Load(g) <=>
           \E i \in 0..((n + 1) - 1) :
              /\ c = ItemAt(g, i)
              /\ \A j \in 0..((n + 1) - 1) : ItemAt(g, j).name = ItemAt(g, i).name => j <= i
    BY <1>2, LoadDef
  <2> QED BY <1>2, <2>1
<1>7. ASSUME NEW c PROVE InG(c) <=> (InF(c) /\ c.name # m) \/ c = Item(m, v, a)
  <2>1. ASSUME InG(c), c # Item(m, v, a) PROVE InF(c) /\ c.name # m
    <3>1. PICK i \in 0..n : c = ItemAt(g, i) /\ \A j \in 0..n : ItemAt(g, j).name = ItemAt(g, i).name => j <= i
      BY <2>1
    <3>2. i \in 0..(n - 1) /\ n \in 0..n /\ ~(n <= i)
      BY <1>1, <1>4, <2>1, <3>1
    <3>3. c.name # m
      BY <1>1, <1>3, <3>1, <3>2
    <3>4. \A j \in 0..(n - 1) : j \in 0..n
      OBVIOUS
    <3> QED BY <1>1, <3>1, <3>2, <3>3, <3>4
  <2>2. ASSUME InF(c), c.name # m PROVE InG(c)
    <3>1. PICK i \in 0..(n - 1) :
             c = ItemAt(f, i) /\ \A j \in 0..(n - 1) : ItemAt(f, j).name = ItemAt(f, i).name => j <= i
      BY <2>2
    <3>2. i \in 0..n /\ c = ItemAt(g, i)
      BY <1>1, <3>1
    <3>3. ASSUME NEW j \in 0..n, ItemAt(g, j).name = ItemAt(g, i).name PROVE j <= i
      BY <1>1, <1>3, <1>4, <2>2, <3>1, <3>2, <3>3
    <3> QED BY <3>2, <3>3
  <2>3. ASSUME c = Item(m, v, a) PROVE InG(c)
    <3>1. n \in 0..n /\ \A j \in 0..n : j <= n
      OBVIOUS
    <3> QED BY <1>1, <2>3, <3>1
  <2> QED BY <2>1, <2>2, <2>3
<1> HIDE DEF InF, InG
<1> QED BY <1>5, <1>6, <1>7

LEMMA CommitFetch ==
    ASSUME NEW f, NEW g, NEW n \in Nat, NEW m \in Name, NEW v \in Value, NEW a \in Nat,
           NEW lim \in Nat, NEW index \in Nat,
           FileOK(f, n, lim), Ready(f, g, n, m, v, a, lim, index), Headed(g, n + 1), NEW x
    PROVE  Fetch(g, Load(g), x) = IF x = m THEN v ELSE Fetch(f, Load(f), x)
<1>1. Load(g) = {c \in Load(f) : c.name # m} \cup {Item(m, v, a)}
  BY CommitLoad
<1>2. FileOK(g, n + 1, a + Size[v]) /\ n + 1 \in Nat /\ a + Size[v] \in Nat
  BY CommitFile, FilepageConstants
<1> DEFINE e == Item(m, v, a)
<1>3. e.name = m /\ e.item = a /\ e.size = Size[v] /\ e \in Load(g)
  BY <1>1 DEF Item
<1>4. CASE x = m
  <2>1. \A o \in Load(g) : o.name = e.name => o = e
    BY <1>1, <1>3
  <2>2. \A k \in 1..Size[v] : Read(g, a + k - 1) = Data(v, k)
    BY DEF Ready
  <2> HIDE DEF e
  <2>3. Fetch(g, Load(g), e.name) = v
    BY <1>3, <2>1, <2>2, FetchIs
  <2> QED BY <1>3, <1>4, <2>3
<1>5. CASE x # m
  <2>1. ASSUME NEW o \in Load(f), o.name = x PROVE Fetch(g, Load(g), x) = Fetch(f, Load(f), x)
    <3>1. o \in Load(g)
      BY <1>1, <1>5, <2>1
    <3>2. \A b \in Nat : Live(f, n, b) => Read(g, b) = Read(f, b)
      BY DEF Ready
    <3>3. Fetch(g, Load(g), o.name) = Fetch(f, Load(f), o.name)
      BY <1>2, <3>1, <3>2, SameFetch
    <3> QED BY <2>1, <3>3
  <2>2. CASE \A o \in Load(f) : o.name # x
    <3>1. \A o \in Load(g) : o.name # x
      BY <1>1, <1>3, <1>5, <2>2
    <3>2. Fetch(f, Load(f), x) = None
      BY <2>2, FetchNone
    <3>3. Fetch(g, Load(g), x) = None
      BY <3>1, FetchNone
    <3> QED BY <1>5, <3>2, <3>3
  <2> QED BY <1>5, <2>1, <2>2
<1> QED BY <1>4, <1>5

-----------------------------------------------------------------------------
(* Where a store writes. *)

\* What is live lies between the header and the limit.
LEMMA LiveBelow ==
    ASSUME NEW f, NEW n \in Nat, NEW lim \in Nat, FileOK(f, n, lim), NEW a, Live(f, n, a)
    PROVE  a \in Nat /\ 0 < a /\ a < lim
<1>0. Grow \in Nat /\ LastOf(n) \in Nat /\ \A i \in 0..(n - 1) : i \div Grow \in 0..LastOf(n)
  BY LastFacts, FilepageConstants
<1>1. \A k \in 0..LastOf(n) : Block(f)[k] \in Nat /\ 1 <= Block(f)[k] /\ Block(f)[k] + Grow < lim
  BY DEF FileOK, Chained, IndexStart
<1>2. ASSUME NEW k \in 0..LastOf(n), a = Block(f)[k] + Grow PROVE a \in Nat /\ 0 < a /\ a < lim
  BY <1>0, <1>1, <1>2
<1>3. ASSUME NEW i \in 0..(n - 1), a = Slot(f, i) PROVE a \in Nat /\ 0 < a /\ a < lim
  <2> DEFINE q == i \div Grow
             r == i % Grow
  <2>a. i \in Nat
    OBVIOUS
  <2>b. r \in 0..(Grow - 1)
    BY <2>a, DivGrow
  <2>1. q \in 0..LastOf(n) /\ r \in 0..(Grow - 1)
    BY <1>0, <2>b
  <2>2. a = Block(f)[q] + r
    BY <1>3 DEF Slot
  <2> HIDE DEF q, r
  <2> QED BY <1>0, <1>1, <2>1, <2>2
<1>4. ASSUME NEW i \in 0..(n - 1), a \in ItemAt(f, i).item..(ItemAt(f, i).item + ItemAt(f, i).size - 1)
      PROVE  a \in Nat /\ 0 < a /\ a < lim
  <2> DEFINE e == ItemAt(f, i)
  <2>1. PICK m \in Name, v \in Value :
           e.item \in Nat /\ e = Item(m, v, e.item) /\ 1 <= e.item /\ e.item + Size[v] <= lim
    BY DEF FileOK, Placed, Whole, IndexStart
  <2>2. Size[v] \in Nat /\ e.size = Size[v]
    BY <2>1, FilepageConstants DEF Item
  <2>3. a \in e.item..(e.item + e.size - 1)
    BY <1>4
  <2> HIDE DEF e
  <2> QED BY <2>1, <2>2, <2>3
<1> QED BY <1>2, <1>3, <1>4 DEF Live

\* A larger limit does as well.
LEMMA Wider ==
    ASSUME NEW f, NEW n \in Nat, NEW lim \in Nat, NEW top \in Nat, FileOK(f, n, lim), lim <= top
    PROVE  FileOK(f, n, top)
<1>0. Grow \in Nat
  BY FilepageConstants
<1>1. Chained(f, n, top)
  BY <1>0 DEF FileOK, Chained
<1>2. ASSUME NEW i \in 0..(n - 1) PROVE Whole(f, ItemAt(f, i), top)
  <2> DEFINE e == ItemAt(f, i)
  <2>1. PICK m \in Name, v \in Value :
           /\ e.item \in Nat /\ e = Item(m, v, e.item)
           /\ IndexStart <= e.item /\ e.item + Size[v] <= lim
           /\ \A k \in 1..Size[v] : Read(f, e.item + k - 1) = Data(v, k)
    BY DEF FileOK, Placed, Whole
  <2>2. e.item + Size[v] <= top
    BY <2>1, FilepageConstants
  <2> QED BY <2>1, <2>2 DEF Whole
<1> QED BY <1>1, <1>2 DEF FileOK, Placed

\* The pointer of the last block is free, and the slot after the last item.
LEMMA NextSlot ==
    ASSUME NEW f, NEW n \in Nat, NEW lim \in Nat, FileOK(f, n, lim)
    PROVE  /\ LastBlock(f) \in Nat /\ IndexStart <= LastBlock(f) /\ LastBlock(f) + Grow < lim
           /\ ~Live(f, n, LastBlock(f) + Grow)
           /\ ~Full(n) => ~Live(f, n, LastBlock(f) + (n % Grow))
<1>a. Grow \in Nat /\ Grow > 1
  BY FilepageConstants
<1>b. LastOf(n) \in Nat /\ \A i \in 0..(n - 1) : i \div Grow \in 0..LastOf(n)
  BY LastFacts
<1>0. Grow \in Nat /\ Grow > 1 /\ LastOf(n) \in Nat /\ \A i \in 0..(n - 1) : i \div Grow \in 0..LastOf(n)
  BY <1>a, <1>b
<1> DEFINE K == LastOf(n)
           B == LastBlock(f)
<1>1. B = Block(f)[K] /\ K \in 0..K
  BY <1>0 DEF LastBlock, LastOf, FileOK, Headed
<1>2. /\ \A k \in 0..K : Block(f)[k] \in Nat /\ 1 <= Block(f)[k] /\ Block(f)[k] + Grow < lim
      /\ \A k \in 0..K : k < K => Block(f)[k] + Grow < B
  BY <1>1 DEF FileOK, Chained, IndexStart
<1>3. \A i \in 0..(n - 1) : /\ ItemAt(f, i).item \in Nat /\ ItemAt(f, i).size \in Nat
                            /\ \/ ItemAt(f, i).item + ItemAt(f, i).size <= B
                               \/ B + Grow < ItemAt(f, i).item
  <2> SUFFICES ASSUME NEW i \in 0..(n - 1)
               PROVE  ItemAt(f, i).item \in Nat /\ ItemAt(f, i).size \in Nat
    BY <1>1 DEF FileOK, Placed
  <2>1. Whole(f, ItemAt(f, i), lim)
    BY DEF FileOK, Placed
  <2> QED BY <2>1, FilepageConstants DEF Whole, Item
<1>4. ASSUME NEW i \in 0..(n - 1)
      PROVE  \E q \in 0..K, r \in 0..(Grow - 1) :
                /\ q = i \div Grow /\ r = i % Grow /\ Slot(f, i) = Block(f)[q] + r /\ i = Grow * q + r
  <2>1. i \in Nat
    OBVIOUS
  <2> QED BY <1>0, <2>1, DivGrow DEF Slot
<1> HIDE DEF K, B
<1>5. ASSUME NEW x \in 0..Grow, \A i \in 0..(n - 1) : Slot(f, i) # B + x
      PROVE  ~Live(f, n, B + x)
  <2>1. ASSUME NEW k \in 0..K, k < K PROVE B + x # Block(f)[k] + Grow
    BY <1>0, <1>1, <1>2, <2>1
  <2>2. ASSUME NEW i \in 0..(n - 1)
        PROVE  B + x \notin ItemAt(f, i).item..(ItemAt(f, i).item + ItemAt(f, i).size - 1)
    <3> DEFINE s == ItemAt(f, i).item
               z == ItemAt(f, i).size
    <3>1. s \in Nat /\ z \in Nat /\ (s + z <= B \/ B + Grow < s)
      BY <1>3
    <3> HIDE DEF s, z
    <3>a. B \in Nat
      BY <1>1, <1>2
    <3>2. B + x \notin s..(s + z - 1)
      BY <1>0, <3>1, <3>a
    <3> QED BY <3>2 DEF s, z
  <2> QED BY <1>5, <2>1, <2>2 DEF Live, K
<1>6. ~Live(f, n, B + Grow)
  <2>1. ASSUME NEW i \in 0..(n - 1) PROVE Slot(f, i) # B + Grow
    <3>1. PICK q \in 0..K, r \in 0..(Grow - 1) : Slot(f, i) = Block(f)[q] + r
      BY <1>4
    <3>2. q = K \/ q < K
      BY <1>0, <3>1 DEF K
    <3> QED BY <1>0, <1>1, <1>2, <3>1, <3>2
  <2>2. Grow \in 0..Grow
    BY <1>0
  <2> QED BY <1>5, <2>1, <2>2
<1>7. ASSUME ~Full(n) PROVE ~Live(f, n, B + (n % Grow))
  <2> DEFINE s == n % Grow
             t == n \div Grow
  <2>1. s \in 0..(Grow - 1) /\ n = Grow * t + s
    BY DivGrow
  <2>a. t = K
    BY <1>7, LastFacts DEF K
  <2> HIDE DEF s, t
  <2>2. s \in 0..Grow /\ n = Grow * K + s
    BY <1>0, <2>1, <2>a
  <2>3. ASSUME NEW i \in 0..(n - 1) PROVE Slot(f, i) # B + s
    <3>1. PICK q \in 0..K, r \in 0..(Grow - 1) : Slot(f, i) = Block(f)[q] + r /\ i = Grow * q + r
      BY <1>4
    <3>2. q = K \/ q < K
      BY <1>0, <3>1 DEF K
    <3>3. CASE q = K
      <4>1. i # n
        OBVIOUS
      <4>2. r # s
        BY <2>2, <3>1, <3>3, <4>1
      <4> QED BY <1>1, <1>2, <2>2, <3>1, <3>3, <4>2
    <3> QED BY <1>0, <1>1, <1>2, <2>1, <3>1, <3>2, <3>3
  <2>4. ~Live(f, n, B + s)
    BY <1>5, <2>2, <2>3
  <2> QED BY <2>4 DEF s
<1>8. B \in Nat /\ IndexStart <= B /\ B + Grow < lim
  BY <1>1, <1>2 DEF IndexStart
<1> QED BY <1>6, <1>7, <1>8 DEF B

-----------------------------------------------------------------------------
(* One cell reaches the file. *)

LEMMA Written ==
    ASSUME PageType, Write
    PROVE  /\ Len(pending) \in Nat /\ 1 \in 1..Len(pending) /\ pending[1] \in Nat \X Cell
           /\ \A a : Read(file', a) = IF a = pending[1][1] THEN pending[1][2] ELSE Read(file, a)
           /\ 0 \in DOMAIN file /\ pending[1][1] # 0 => 0 \in DOMAIN file' /\ file'[0] = file[0]
           /\ pending[1][1] = 0 => 0 \in DOMAIN file' /\ file'[0] = pending[1][2]
           /\ Len(pending') = Len(pending) - 1 /\ pending' \in Seq(Nat \X Cell)
           /\ \A i \in 1..Len(pending') : i + 1 \in 1..Len(pending) /\ pending'[i] = pending[i + 1]
           /\ DOMAIN file' \subseteq Nat /\ \A a \in DOMAIN file' : file'[a] \in Cell
<1>1. pending \in Seq(Nat \X Cell) /\ pending # <<>>
  BY DEF PageType, Write
<1>2. Len(pending) \in Nat /\ Len(pending) >= 1
  BY <1>1
<1>3. 1 \in 1..Len(pending) /\ pending[1] \in Nat \X Cell /\ Head(pending) = pending[1]
  BY <1>1, <1>2
<1>4. pending' = Tail(pending)
  BY DEF Write
<1>5. /\ Len(pending') = Len(pending) - 1 /\ pending' \in Seq(Nat \X Cell)
      /\ \A i \in 1..Len(pending') : i + 1 \in 1..Len(pending) /\ pending'[i] = pending[i + 1]
  BY <1>1, <1>2, <1>4
<1> DEFINE w == pending[1]
<1>6. file' = [a \in DOMAIN file \cup {w[1]} |-> IF a = w[1] THEN w[2] ELSE file[a]]
  BY <1>3 DEF Write
<1>7. w[1] \in Nat /\ w[2] \in Cell
  BY <1>3
<1> HIDE DEF w
<1>8. DOMAIN file' = DOMAIN file \cup {w[1]}
  BY <1>6
<1>9. \A a \in DOMAIN file' : file'[a] = IF a = w[1] THEN w[2] ELSE file[a]
  BY <1>6, <1>8
<1>10. DOMAIN file' \subseteq Nat /\ \A a \in DOMAIN file' : file'[a] \in Cell
  BY <1>7, <1>8, <1>9 DEF PageType
<1>11. \A a : Read(file', a) = IF a = w[1] THEN w[2] ELSE Read(file, a)
  BY <1>8, <1>9 DEF Read
<1> QED BY <1>2, <1>3, <1>5, <1>8, <1>9, <1>10, <1>11 DEF w

LEMMA DueKept ==
    ASSUME PageType, Write, NEW a, NEW c, Due(file, pending, a, c)
    PROVE  Due(file', pending', a, c)
<1>1. /\ Len(pending) \in Nat /\ 1 \in 1..Len(pending) /\ pending[1] \in Nat \X Cell
      /\ \A b : Read(file', b) = IF b = pending[1][1] THEN pending[1][2] ELSE Read(file, b)
      /\ Len(pending') = Len(pending) - 1
      /\ \A i \in 1..Len(pending') : i + 1 \in 1..Len(pending) /\ pending'[i] = pending[i + 1]
  BY Written
<1>2. ASSUME NEW i \in 1..Len(pending), pending[i] = <<a, c>>,
             \A j \in 1..Len(pending) : i < j => pending[j][1] # a
      PROVE  Due(file', pending', a, c)
  <2>1. CASE i = 1
    <3>1. pending[1][1] = a /\ pending[1][2] = c
      BY <1>2, <2>1
    <3>2. Read(file', a) = c
      BY <1>1, <3>1
    <3>3. ASSUME NEW j \in 1..Len(pending') PROVE pending'[j][1] # a
      <4>1. j + 1 \in 1..Len(pending) /\ pending'[j] = pending[j + 1] /\ 1 < j + 1
        BY <1>1
      <4> QED BY <1>2, <2>1, <4>1
    <3> QED BY <3>2, <3>3 DEF Due
  <2>2. CASE i # 1
    <3> DEFINE h == i - 1
    <3>1. h \in 1..Len(pending') /\ h + 1 = i
      BY <1>1, <2>2
    <3> HIDE DEF h
    <3>2. pending'[h] = <<a, c>>
      BY <1>1, <1>2, <3>1
    <3>3. ASSUME NEW j \in 1..Len(pending'), h < j PROVE pending'[j][1] # a
      <4>1. j + 1 \in 1..Len(pending) /\ pending'[j] = pending[j + 1] /\ i < j + 1
        BY <1>1, <3>1, <3>3
      <4> QED BY <1>2, <4>1
    <3> QED BY <3>1, <3>2, <3>3 DEF Due
  <2> QED BY <2>1, <2>2
<1>3. ASSUME Read(file, a) = c, \A j \in 1..Len(pending) : pending[j][1] # a
      PROVE  Due(file', pending', a, c)
  <2>1. Read(file', a) = c
    BY <1>1, <1>3
  <2>2. \A j \in 1..Len(pending') : pending'[j][1] # a
    BY <1>1, <1>3
  <2> QED BY <2>1, <2>2 DEF Due
<1> QED BY <1>2, <1>3 DEF Due

LEMMA HeadCell ==
    /\ \A c \in Cell : c.kind = "header" =>
           c.elements \in Nat /\ c.firstFree \in Nat /\ c.full = FALSE
    /\ \A e, a \in Nat : Header(e, a, FALSE) \in Cell
<1>1. ASSUME NEW c \in Cell, c.kind = "header"
      PROVE  c.elements \in Nat /\ c.firstFree \in Nat /\ c.full = FALSE
  <2>1. c \in [kind : {"header"}, elements : Nat, firstFree : Nat, full : {FALSE}]
    <3>1. Zero.kind = "zero"
      BY DEF Zero
    <3>2. CASE c \in [kind : {"item"}, name : Name, size : Nat, item : Nat]
      BY <1>1, <3>2
    <3>3. CASE c \in [kind : {"next"}, to : Nat]
      BY <1>1, <3>3
    <3>4. CASE c \in [kind : {"data"}, value : Value, part : Nat]
      BY <1>1, <3>4
    <3> QED BY <1>1, <3>1, <3>2, <3>3, <3>4, Zenon DEF Cell
  <2> QED BY <2>1
<1>2. \A e, a \in Nat : Header(e, a, FALSE) \in Cell
  BY DEF Header, Cell
<1> QED BY <1>1, <1>2

\* A cell that is not live, or a header with the same number of items, changes
\* nothing that open() and retrieveItem find.
LEMMA SafeWrite ==
    ASSUME PageType, Write, NEW n \in Nat, NEW lim \in Nat, FileOK(file, n, lim),
           \/ pending[1][1] # 0 /\ ~Live(file, n, pending[1][1])
           \/ \E a \in Nat : pending[1] = <<0, Header(n, a, FALSE)>>
    PROVE  /\ FileOK(file', n, lim) /\ LastBlock(file') = LastBlock(file) /\ Load(file') = Load(file)
           /\ \A a \in Nat : Live(file', n, a) <=> Live(file, n, a)
           /\ \A x : Fetch(file', Load(file'), x) = Fetch(file, Load(file), x)
<1>1. /\ \A a : Read(file', a) = IF a = pending[1][1] THEN pending[1][2] ELSE Read(file, a)
      /\ 0 \in DOMAIN file /\ pending[1][1] # 0 => 0 \in DOMAIN file' /\ file'[0] = file[0]
      /\ pending[1][1] = 0 => 0 \in DOMAIN file' /\ file'[0] = pending[1][2]
  BY Written
<1>2. Headed(file, n)
  BY DEF FileOK
<1>3. ASSUME NEW a \in Nat, Live(file, n, a) PROVE Read(file', a) = Read(file, a)
  <2>1. 0 < a
    BY <1>3, LiveBelow
  <2>a. \A b \in Nat : pending[1] = <<0, Header(n, b, FALSE)>> => pending[1][1] = 0
    OBVIOUS
  <2>b. pending[1][1] = 0 \/ ~Live(file, n, pending[1][1])
    BY <2>a
  <2>2. a # pending[1][1]
    BY <1>3, <2>1, <2>b
  <2> QED BY <1>1, <2>2
<1>4. Headed(file', n)
  <2>1. CASE pending[1][1] # 0
    BY <1>1, <1>2, <2>1 DEF Headed
  <2>2. CASE \E a \in Nat : pending[1] = <<0, Header(n, a, FALSE)>>
    <3>1. PICK a \in Nat : pending[1] = <<0, Header(n, a, FALSE)>>
      BY <2>2
    <3>a. pending[1][1] = 0 /\ pending[1][2] = Header(n, a, FALSE)
      BY <3>1
    <3>2. file'[0] = Header(n, a, FALSE) /\ 0 \in DOMAIN file'
      BY <1>1, <3>a
    <3>3. Header(n, a, FALSE) \in Cell
      BY DEF Header, Cell
    <3> QED BY <3>2, <3>3 DEF Headed, Header
  <2> QED BY <2>1, <2>2
<1>5. /\ FileOK(file', n, lim) /\ LastBlock(file') = LastBlock(file) /\ Load(file') = Load(file)
      /\ \A a \in Nat : Live(file', n, a) <=> Live(file, n, a)
  BY <1>3, <1>4, KeepFile
<1>6. ASSUME NEW x PROVE Fetch(file', Load(file'), x) = Fetch(file, Load(file), x)
  BY <1>3, <1>4, FetchKeeps
<1> QED BY <1>5, <1>6

\* The header of a new page.
LEMMA WriteFresh ==
    ASSUME PageType, Write, Fresh
    PROVE  Settled' /\ Load(file') = {}
<1>1. /\ Len(pending) \in Nat /\ 1 \in 1..Len(pending)
      /\ pending[1][1] = 0 => 0 \in DOMAIN file' /\ file'[0] = pending[1][2]
      /\ \A i \in 1..Len(pending') : i + 1 \in 1..Len(pending) /\ pending'[i] = pending[i + 1]
  BY Written
<1> DEFINE free == IndexStart + Grow + 1
           g == file'
<1>a. pending[1][1] = 0 /\ pending[1][2] = Header(0, free, FALSE)
  BY DEF Fresh
<1>2. 0 \in DOMAIN g /\ g[0] = Header(0, free, FALSE)
  BY <1>1, <1>a
<1>3. Grow \in Nat /\ free \in Nat
  BY FilepageConstants DEF IndexStart
<1>4. Header(0, free, FALSE) \in Cell
  BY <1>3 DEF Header, Cell
<1>5. Headed(g, 0)
  BY <1>2, <1>4 DEF Headed, Header
<1>6. LastOf(0) = 0 /\ Block(g)[0] = IndexStart /\ \A k \in 0..0 : k = 0
  BY BlockDef DEF LastOf
<1>7. Chained(g, 0, free)
  BY <1>3, <1>6 DEF Chained, IndexStart
<1>8. Placed(g, 0, free)
  BY DEF Placed
<1>9. g[0].elements = 0 /\ g[0].firstFree = free /\ g[0].full = FALSE
  BY <1>2 DEF Header
<1>10. Load(g) = {}
  BY <1>9, LoadDef
<1>11. LastBlock(g) = IndexStart
  BY <1>6, <1>9 DEF LastBlock
<1>12. FileOK(g, 0, free)
  BY <1>5, <1>7, <1>8 DEF FileOK
<1>13. members' = Opened(g)
  BY <1>9, <1>10, <1>11 DEF Opened, Write, Fresh
<1>14. request' = None
  BY DEF Write, Fresh
<1>15. ASSUME NEW j \in 1..Len(pending') PROVE pending'[j][1] # 0 /\ ~Live(g, 0, pending'[j][1])
  <2>1. j + 1 \in 2..Len(pending) /\ pending'[j] = pending[j + 1]
    BY <1>1
  <2>2. pending'[j][1] # 0
    BY <2>1 DEF Fresh
  <2>3. ~Live(g, 0, pending'[j][1])
    BY <1>6 DEF Live
  <2> QED BY <2>2, <2>3
<1> HIDE DEF free, g
<1> QED BY <1>9, <1>10, <1>12, <1>13, <1>14, <1>15 DEF Settled, Elements, FirstFree, g

\* What a created page still writes is of no consequence.
LEMMA WriteSettled ==
    ASSUME PageType, Write, Settled
    PROVE  Settled' /\ \A x : Fetch(file', Load(file'), x) = Fetch(file, Load(file), x)
<1> DEFINE n == Elements
           lim == FirstFree
<1>1. FileOK(file, n, lim)
  BY DEF Settled
<1>2. 0 \in DOMAIN file /\ n \in Nat /\ lim \in Nat
  BY <1>1, HeadCell DEF FileOK, Headed, Elements, FirstFree
<1>3. /\ 1 \in 1..Len(pending) /\ pending' \in Seq(Nat \X Cell)
      /\ 0 \in DOMAIN file /\ pending[1][1] # 0 => 0 \in DOMAIN file' /\ file'[0] = file[0]
      /\ \A i \in 1..Len(pending') : i + 1 \in 1..Len(pending) /\ pending'[i] = pending[i + 1]
  BY Written
<1>4. pending[1][1] # 0 /\ ~Live(file, n, pending[1][1])
  BY <1>3 DEF Settled
<1>5. file'[0] = file[0]
  BY <1>2, <1>3, <1>4
<1> HIDE DEF n, lim
<1>6. /\ FileOK(file', n, lim) /\ LastBlock(file') = LastBlock(file) /\ Load(file') = Load(file)
      /\ \A a \in Nat : Live(file', n, a) <=> Live(file, n, a)
      /\ \A x : Fetch(file', Load(file'), x) = Fetch(file, Load(file), x)
  BY <1>1, <1>2, <1>4, SafeWrite
<1>7. Elements' = n /\ FirstFree' = lim
  BY <1>5 DEF Elements, FirstFree, n, lim
<1>8. members' = Opened(file')
  BY <1>5, <1>6 DEF Opened, Settled, Write
<1>9. request' = None
  BY DEF Settled, Write
<1>10. ASSUME NEW j \in 1..Len(pending') PROVE pending'[j][1] # 0 /\ ~Live(file', n, pending'[j][1])
  <2>1. j + 1 \in 1..Len(pending) /\ pending'[j] = pending[j + 1]
    BY <1>3
  <2>2. pending'[j] \in Nat \X Cell
    BY <1>3
  <2>3. pending'[j][1] \in Nat
    BY <2>2
  <2> QED BY <1>6, <2>1, <2>3 DEF Settled, n
<1> QED BY <1>6, <1>7, <1>8, <1>9, <1>10 DEF Settled

\* The header is in place while a store is under way.
LEMMA StoringNats ==
    ASSUME NEW m \in Name, NEW v \in Value, NEW a \in Nat, NEW lim \in Nat, Storing(m, v, a, lim)
    PROVE  /\ 0 \in DOMAIN file /\ Elements \in Nat /\ FirstFree \in Nat
           /\ LastBlock(file) \in Nat /\ members.lastIndex \in Nat
           /\ IndexStart <= LastBlock(file) /\ IndexStart <= members.lastIndex /\ IndexStart <= a
<1>1. FileOK(file, Elements, lim)
  BY DEF Storing
<1>2. 0 \in DOMAIN file /\ Elements \in Nat /\ FirstFree \in Nat
  BY <1>1, HeadCell DEF FileOK, Headed, Elements, FirstFree
<1>3. LastBlock(file) \in Nat /\ IndexStart <= LastBlock(file) /\ LastBlock(file) + Grow < lim
  BY <1>1, <1>2, NextSlot
<1>4. \/ lim = members.lastIndex /\ a = lim + Grow + 1
      \/ lim = a /\ members.lastIndex = LastBlock(file)
  BY DEF Storing
<1>5. Grow \in Nat
  BY FilepageConstants
<1> QED BY <1>2, <1>3, <1>4, <1>5 DEF IndexStart

\* A store writes what is not live, up to its last header.
LEMMA WriteStoring ==
    ASSUME PageType, Write, Len(pending) # 1,
           NEW m \in Name, NEW v \in Value, NEW a \in Nat, NEW lim \in Nat, Storing(m, v, a, lim)
    PROVE  Storing(m, v, a, lim)' /\ \A x : Fetch(file', Load(file'), x) = Fetch(file, Load(file), x)
<1>a. 0 \in DOMAIN file /\ Elements \in Nat /\ FirstFree \in Nat
  BY StoringNats
<1>b. PICK n \in Nat : n = Elements
  BY <1>a
<1>0. 0 \in DOMAIN file /\ n \in Nat /\ FirstFree \in Nat
  BY <1>a
<1>1. /\ Len(pending) \in Nat /\ 1 \in 1..Len(pending)
      /\ 0 \in DOMAIN file /\ pending[1][1] # 0 => 0 \in DOMAIN file' /\ file'[0] = file[0]
      /\ pending[1][1] = 0 => 0 \in DOMAIN file' /\ file'[0] = pending[1][2]
      /\ Len(pending') = Len(pending) - 1 /\ pending' \in Seq(Nat \X Cell)
      /\ \A i \in 1..Len(pending') : i + 1 \in 1..Len(pending) /\ pending'[i] = pending[i + 1]
  BY Written
<1>2. 1 \in 1..(Len(pending) - 1) /\ Len(pending) > 1 /\ Len(pending') \in 1..Len(pending')
  BY <1>1
<1>3. \A j \in 1..(Len(pending) - 1) :
         \/ pending[j][1] # 0 /\ ~Live(file, n, pending[j][1])
         \/ pending[j] = <<0, Header(n, a, FALSE)>>
  BY <1>b DEF Storing
<1>4. \/ pending[1][1] # 0 /\ ~Live(file, n, pending[1][1])
      \/ pending[1] = <<0, Header(n, a, FALSE)>>
  BY <1>2, <1>3
<1>5. FileOK(file, n, lim) /\ lim <= FirstFree /\ FirstFree <= a
  BY <1>b DEF Storing
<1>6. /\ FileOK(file', n, lim) /\ LastBlock(file') = LastBlock(file) /\ Load(file') = Load(file)
      /\ \A b \in Nat : Live(file', n, b) <=> Live(file, n, b)
      /\ \A x : Fetch(file', Load(file'), x) = Fetch(file, Load(file), x)
  BY <1>0, <1>4, <1>5, SafeWrite
<1>7. Elements' = n
  BY <1>6 DEF FileOK, Headed, Elements
<1>8. FirstFree' \in {FirstFree, a}
  <2>1. CASE pending[1][1] # 0
    BY <1>0, <1>1, <2>1 DEF FirstFree
  <2>2. CASE pending[1] = <<0, Header(n, a, FALSE)>>
    <3>1. pending[1][1] = 0 /\ pending[1][2] = Header(n, a, FALSE)
      BY <2>2
    <3>2. file'[0] = Header(n, a, FALSE)
      BY <1>1, <3>1
    <3> QED BY <3>2 DEF FirstFree, Header
  <2> QED BY <1>4, <2>1, <2>2
<1>9. lim <= FirstFree' /\ FirstFree' <= a
  BY <1>0, <1>5, <1>8
<1>10. request' = request /\ members' = members
  BY <1>2 DEF Write
<1>11. /\ request' = <<m, v>>
       /\ members' = Members(n + 1, a + Size[v], members'.lastIndex, FALSE,
                             {c \in Load(file') : c.name # m} \cup {Item(m, v, a)})
       /\ IF Full(n) THEN lim = members'.lastIndex /\ a = lim + Grow + 1
                     ELSE lim = a /\ members'.lastIndex = LastBlock(file')
  BY <1>6, <1>10, <1>b DEF Storing
<1>12. pending' # <<>> /\ pending'[Len(pending')] = <<0, Header(n + 1, a + Size[v], FALSE)>>
  <2>1. pending'[Len(pending')] = pending[Len(pending') + 1] /\ Len(pending') + 1 = Len(pending)
    BY <1>1, <1>2
  <2>2. pending[Len(pending)] = <<0, Header(n + 1, a + Size[v], FALSE)>>
    BY <1>b DEF Storing
  <2>3. pending' # <<>>
    BY <1>1, <1>2
  <2> QED BY <2>1, <2>2, <2>3
<1>13. ASSUME NEW j \in 1..(Len(pending') - 1)
       PROVE  \/ pending'[j][1] # 0 /\ ~Live(file', n, pending'[j][1])
              \/ pending'[j] = <<0, Header(n, a, FALSE)>>
  <2>0. Len(pending') \in Nat /\ Len(pending) = Len(pending') + 1
    BY <1>1
  <2>1. j \in 1..Len(pending') /\ j + 1 \in 1..(Len(pending) - 1)
    BY <2>0
  <2>2. pending'[j] = pending[j + 1] /\ pending'[j] \in Nat \X Cell
    BY <1>1, <2>1
  <2>3. pending'[j][1] \in Nat
    BY <2>2
  <2> QED BY <1>3, <1>6, <2>1, <2>2, <2>3
<1>14. /\ Due(file, pending, members.lastIndex + (n % Grow), Item(m, v, a))
       /\ \A k \in 1..Size[v] : Due(file, pending, a + k - 1, Data(v, k))
       /\ Full(n) => Due(file, pending, LastBlock(file) + Grow, Pointer(members.lastIndex))
  BY <1>b DEF Storing
<1>15. \A b, c : Due(file, pending, b, c) => Due(file', pending', b, c)
  BY DueKept
<1>16. /\ Due(file', pending', members'.lastIndex + (n % Grow), Item(m, v, a))
       /\ \A k \in 1..Size[v] : Due(file', pending', a + k - 1, Data(v, k))
       /\ Full(n) => Due(file', pending', LastBlock(file') + Grow, Pointer(members'.lastIndex))
  BY <1>6, <1>10, <1>14, <1>15
<1> QED BY <1>5, <1>6, <1>7, <1>9, <1>11, <1>12, <1>13, <1>16 DEF Storing

\* The last header of a store puts the new item in place.
LEMMA WriteLast ==
    ASSUME PageType, Write, Len(pending) = 1,
           NEW m \in Name, NEW v \in Value, NEW a \in Nat, NEW lim \in Nat, Storing(m, v, a, lim)
    PROVE  /\ Settled'
           /\ \A x : Fetch(file', Load(file'), x) = IF x = m THEN v ELSE Fetch(file, Load(file), x)
<1>1. /\ 0 \in DOMAIN file /\ Elements \in Nat /\ FirstFree \in Nat
      /\ LastBlock(file) \in Nat /\ members.lastIndex \in Nat
      /\ IndexStart <= LastBlock(file) /\ IndexStart <= members.lastIndex /\ IndexStart <= a
  BY StoringNats
<1>2. PICK n \in Nat : n = Elements
  BY <1>1
<1>3. PICK index \in Nat : index = members.lastIndex
  BY <1>1
<1>4. Size[v] \in Nat /\ Grow \in Nat /\ n % Grow \in Nat
  BY DivGrow, FilepageConstants
<1>5. pending[1] = <<0, Header(n + 1, a + Size[v], FALSE)>>
  BY <1>2 DEF Storing
<1>6. pending[1][1] = 0 /\ pending[1][2] = Header(n + 1, a + Size[v], FALSE)
  BY <1>5
<1>7. /\ \A b : Read(file', b) = IF b = 0 THEN pending[1][2] ELSE Read(file, b)
      /\ 0 \in DOMAIN file' /\ file'[0] = Header(n + 1, a + Size[v], FALSE)
      /\ Len(pending') = 0
  <2>1. /\ \A b : Read(file', b) = IF b = pending[1][1] THEN pending[1][2] ELSE Read(file, b)
        /\ pending[1][1] = 0 => 0 \in DOMAIN file' /\ file'[0] = pending[1][2]
        /\ Len(pending') = Len(pending) - 1
    BY Written
  <2>2. Len(pending') = 0
    BY <2>1
  <2>3. 0 \in DOMAIN file' /\ file'[0] = Header(n + 1, a + Size[v], FALSE)
    BY <1>6, <2>1
  <2>4. \A b : Read(file', b) = IF b = 0 THEN pending[1][2] ELSE Read(file, b)
    BY <1>6, <2>1
  <2> QED BY <2>2, <2>3, <2>4
<1>8. Headed(file', n + 1)
  <2>a. n + 1 \in Nat /\ a + Size[v] \in Nat
    BY <1>4
  <2>1. Header(n + 1, a + Size[v], FALSE) \in Cell
    BY <2>a, HeadCell
  <2> QED BY <1>7, <2>1 DEF Headed, Header
<1>9. FileOK(file, n, lim)
  BY <1>2 DEF Storing
<1>10. ASSUME NEW b \in Nat, NEW c, 1 <= b, Due(file, pending, b, c) PROVE Read(file', b) = c
  <2>1. \A i \in 1..Len(pending) : pending[i][1] # b
    BY <1>6, <1>10
  <2>2. Read(file, b) = c
    <3>1. ASSUME NEW i \in 1..Len(pending) PROVE pending[i] # <<b, c>>
      BY <2>1
    <3> QED BY <1>10, <3>1 DEF Due
  <2> QED BY <1>7, <1>10, <2>2
<1>11. Ready(file, file', n, m, v, a, lim, index)
  <2>1. ASSUME NEW b \in Nat, Live(file, n, b) PROVE Read(file', b) = Read(file, b)
    <3>1. 0 < b
      BY <1>9, <2>1, LiveBelow
    <3> QED BY <1>7, <3>1
  <2>2. IF Full(n) THEN lim = index /\ a = lim + Grow + 1 ELSE lim = a /\ index = LastBlock(file)
    BY <1>2, <1>3 DEF Storing
  <2>3. /\ Due(file, pending, index + (n % Grow), Item(m, v, a))
        /\ \A k \in 1..Size[v] : Due(file, pending, a + k - 1, Data(v, k))
        /\ Full(n) => Due(file, pending, LastBlock(file) + Grow, Pointer(index))
    BY <1>2, <1>3 DEF Storing
  <2> DEFINE r == n % Grow
             B == LastBlock(file)
  <2>4. r \in Nat /\ B \in Nat /\ 1 <= B
    BY <1>1, <1>4 DEF IndexStart
  <2> HIDE DEF r, B
  <2>5. index + r \in Nat /\ 1 <= index + r /\ B + Grow \in Nat /\ 1 <= B + Grow
    BY <1>1, <1>3, <1>4, <2>4 DEF IndexStart
  <2>6. Read(file', index + r) = Item(m, v, a)
    BY <1>10, <2>3, <2>5 DEF r
  <2>7. Full(n) => Read(file', B + Grow) = Pointer(index)
    BY <1>10, <2>3, <2>5 DEF B
  <2>8. ASSUME NEW k \in 1..Size[v] PROVE Read(file', a + k - 1) = Data(v, k)
    <3>1. a + k - 1 \in Nat /\ 1 <= a + k - 1
      BY <1>1, <1>4 DEF IndexStart
    <3> QED BY <1>10, <2>3, <3>1
  <2> QED BY <2>1, <2>2, <2>6, <2>7, <2>8 DEF Ready, r, B
<1>12. FileOK(file', n + 1, a + Size[v]) /\ LastBlock(file') = index
  BY <1>8, <1>9, <1>11, CommitFile
<1>13. Load(file') = {c \in Load(file) : c.name # m} \cup {Item(m, v, a)}
  BY <1>8, <1>9, <1>11, CommitLoad
<1>14. ASSUME NEW x
       PROVE  Fetch(file', Load(file'), x) = IF x = m THEN v ELSE Fetch(file, Load(file), x)
  BY <1>8, <1>9, <1>11, CommitFetch
<1>15. file'[0].elements = n + 1 /\ file'[0].firstFree = a + Size[v] /\ file'[0].full = FALSE
  BY <1>7 DEF Header
<1>16. members' = Opened(file')
  <2>1. members' = members
    BY DEF Write
  <2>2. members = Members(n + 1, a + Size[v], index, FALSE,
                          {c \in Load(file) : c.name # m} \cup {Item(m, v, a)})
    BY <1>2, <1>3 DEF Storing
  <2> QED BY <1>12, <1>13, <1>15, <2>1, <2>2 DEF Opened
<1>17. request' = None
  BY DEF Write
<1>18. \A j \in 1..Len(pending') : FALSE
  BY <1>7
<1> QED BY <1>12, <1>14, <1>15, <1>16, <1>17, <1>18 DEF Settled, Elements, FirstFree

-----------------------------------------------------------------------------
(* What a store has to write. *)

\* The writes of growPage, the index item x, the data and the header y.
Queue(P, x, D, y) == P \o <<x>> \o D \o <<y>>

\* Where they are in it.
Places(Q, P, x, s, D, y) ==
    /\ Len(P) \in Nat /\ Len(Q) = Len(P) + s + 2
    /\ \A i \in 1..Len(P) : Q[i] = P[i]
    /\ Q[Len(P) + 1] = x
    /\ \A k \in 1..s : Q[Len(P) + 1 + k] = D[k]
    /\ Q[Len(P) + s + 2] = y

LEMMA Join ==
    ASSUME NEW S, NEW s \in Seq(S), NEW t \in Seq(S)
    PROVE  /\ s \o t \in Seq(S) /\ Len(s \o t) = Len(s) + Len(t)
           /\ \A i \in 1..Len(s) : (s \o t)[i] = s[i]
           /\ \A k \in 1..Len(t) : (s \o t)[Len(s) + k] = t[k]
<1>1. Len(s) \in Nat /\ Len(t) \in Nat
  OBVIOUS
<1>2. s \o t \in Seq(S) /\ Len(s \o t) = Len(s) + Len(t)
  OBVIOUS
<1>3. \A i \in 1..(Len(s) + Len(t)) : (s \o t)[i] = IF i <= Len(s) THEN s[i] ELSE t[i - Len(s)]
  OBVIOUS
<1>4. \A i \in 1..Len(s) : i \in 1..(Len(s) + Len(t)) /\ i <= Len(s)
  BY <1>1
<1>5. \A k \in 1..Len(t) :
         Len(s) + k \in 1..(Len(s) + Len(t)) /\ ~(Len(s) + k <= Len(s)) /\ (Len(s) + k) - Len(s) = k
  BY <1>1
<1> DEFINE Q == s \o t
<1>6. \A i \in 1..(Len(s) + Len(t)) : Q[i] = IF i <= Len(s) THEN s[i] ELSE t[i - Len(s)]
  BY <1>3
<1> HIDE DEF Q
<1>7. \A i \in 1..Len(s) : Q[i] = s[i]
  BY <1>4, <1>6
<1>8. \A k \in 1..Len(t) : Q[Len(s) + k] = t[k]
  BY <1>5, <1>6
<1> QED BY <1>2, <1>7, <1>8 DEF Q

LEMMA StoreSeq ==
    ASSUME NEW S, NEW P \in Seq(S), NEW x \in S, NEW s \in Nat, NEW D \in [1..s -> S], NEW y \in S
    PROVE  Queue(P, x, D, y) \in Seq(S) /\ Places(Queue(P, x, D, y), P, x, s, D, y)
<1> DEFINE A == P \o <<x>>
           B == A \o D
           Q == B \o <<y>>
<1>0. /\ <<x>> \in Seq(S) /\ Len(<<x>>) = 1 /\ <<x>>[1] = x /\ 1 \in 1..1
      /\ <<y>> \in Seq(S) /\ Len(<<y>>) = 1 /\ <<y>>[1] = y
      /\ D \in Seq(S) /\ Len(D) = s /\ Len(P) \in Nat
  OBVIOUS
<1>1. /\ A \in Seq(S) /\ Len(A) = Len(P) + 1 /\ A[Len(P) + 1] = x
      /\ \A i \in 1..Len(P) : A[i] = P[i]
  BY <1>0, Join
<1> HIDE DEF A
<1>2. /\ B \in Seq(S) /\ Len(B) = Len(A) + s
      /\ \A i \in 1..Len(A) : B[i] = A[i]
      /\ \A k \in 1..s : B[Len(A) + k] = D[k]
  <2>1. D \in Seq(S) /\ A \in Seq(S) /\ Len(D) = s
    BY <1>0, <1>1
  <2>a. \A t \in Seq(S) :
           /\ A \o t \in Seq(S) /\ Len(A \o t) = Len(A) + Len(t)
           /\ \A i \in 1..Len(A) : (A \o t)[i] = A[i]
           /\ \A k \in 1..Len(t) : (A \o t)[Len(A) + k] = t[k]
    BY <2>1, Join
  <2>2. /\ A \o D \in Seq(S) /\ Len(A \o D) = Len(A) + Len(D)
        /\ \A i \in 1..Len(A) : (A \o D)[i] = A[i]
        /\ \A k \in 1..Len(D) : (A \o D)[Len(A) + k] = D[k]
    BY <2>1, <2>a, Zenon
  <2> QED BY <2>1, <2>2
<1> HIDE DEF B
<1>3. /\ Q \in Seq(S) /\ Len(Q) = Len(B) + 1 /\ Q[Len(B) + 1] = y
      /\ \A i \in 1..Len(B) : Q[i] = B[i]
  BY <1>0, <1>2, Join
<1> HIDE DEF Q
<1>4. Len(B) + 1 = Len(P) + s + 2
  BY <1>0, <1>1, <1>2
<1>5. ASSUME NEW i \in 1..Len(P) PROVE Q[i] = P[i]
  <2>1. i \in 1..Len(A) /\ i \in 1..Len(B)
    BY <1>0, <1>1, <1>2
  <2> QED BY <1>1, <1>2, <1>3, <2>1
<1>6. Q[Len(P) + 1] = x
  <2>1. Len(P) + 1 \in 1..Len(A) /\ Len(P) + 1 \in 1..Len(B)
    BY <1>0, <1>1, <1>2
  <2> QED BY <1>1, <1>2, <1>3, <2>1
<1>7. ASSUME NEW k \in 1..s PROVE Q[Len(P) + 1 + k] = D[k]
  <2>1. Len(P) + 1 + k = Len(A) + k /\ Len(A) + k \in 1..Len(B)
    BY <1>0, <1>1, <1>2
  <2> QED BY <1>2, <1>3, <2>1
<1>8. Queue(P, x, D, y) = Q
  BY DEF Queue, A, B, Q
<1>9. Len(Q) = Len(P) + s + 2 /\ Q[Len(P) + s + 2] = y
  BY <1>3, <1>4
<1> QED BY <1>0, <1>3, <1>5, <1>6, <1>7, <1>8, <1>9 DEF Places

\* What the writes P of growPage are: none of them touches what is live.
Growth(f, n, a, index, P) ==
    /\ P \in Seq(Nat \X Cell)
    /\ \A i \in 1..Len(P) : \/ P[i][1] # 0 /\ ~Live(f, n, P[i][1])
                            \/ P[i] = <<0, Header(n, a, FALSE)>>
    /\ Full(n) => /\ Len(P) = 4 /\ P[2] = <<LastBlock(f) + Grow, Pointer(index)>>
                  /\ P[3][1] # LastBlock(f) + Grow /\ P[4][1] # LastBlock(f) + Grow

\* The writes of a store, by their places.
Laid(Q, P, n, m, v, a, index) ==
    /\ Len(P) \in Nat /\ Len(Q) = Len(P) + Size[v] + 2 /\ Q \in Seq(Nat \X Cell)
    /\ \A i \in 1..Len(P) : Q[i] = P[i]
    /\ Q[Len(P) + 1] = <<index + (n % Grow), Item(m, v, a)>>
    /\ \A k \in 1..Size[v] : Q[Len(P) + 1 + k] = <<a + k - 1, Data(v, k)>>
    /\ Q[Len(P) + Size[v] + 2] = <<0, Header(n + 1, a + Size[v], FALSE)>>

LEMMA StoreLaid ==
    ASSUME NEW n \in Nat, NEW m \in Name, NEW v \in Value, NEW a \in Nat, NEW index \in Nat,
           NEW P \in Seq(Nat \X Cell)
    PROVE  Laid(Queue(P, <<index + (n % Grow), Item(m, v, a)>>,
                      [k \in 1..Size[v] |-> <<a + k - 1, Data(v, k)>>],
                      <<0, Header(n + 1, a + Size[v], FALSE)>>), P, n, m, v, a, index)
<1> DEFINE s == Size[v]
           r == n % Grow
           D == [k \in 1..s |-> <<a + k - 1, Data(v, k)>>]
           x == <<index + r, Item(m, v, a)>>
           y == <<0, Header(n + 1, a + s, FALSE)>>
<1>1. s \in Nat
  BY FilepageConstants
<1>b. r \in 0..(Grow - 1)
  BY DivGrow
<1>2. r \in Nat
  BY <1>b
<1>a. s = Size[v]
  OBVIOUS
<1> HIDE DEF r, s
<1>3. index + r \in Nat /\ n + 1 \in Nat /\ a + s \in Nat /\ \A k \in 1..s : a + k - 1 \in Nat
  BY <1>1, <1>2
<1>4. Item(m, v, a) \in Cell
  BY <1>1, <1>a DEF Item, Cell
<1>5. Header(n + 1, a + s, FALSE) \in Cell
  BY <1>3, HeadCell
<1>6. ASSUME NEW k \in 1..s PROVE Data(v, k) \in Cell
  <2>1. k \in Nat
    BY <1>1
  <2>2. Data(v, k) \in [kind : {"data"}, value : Value, part : Nat]
    BY <2>1 DEF Data
  <2> QED BY <2>2 DEF Cell
<1>7. D \in [1..s -> Nat \X Cell] /\ x \in Nat \X Cell /\ y \in Nat \X Cell
  BY <1>3, <1>4, <1>5, <1>6
<1>8. \A k \in 1..s : D[k] = <<a + k - 1, Data(v, k)>>
  OBVIOUS
<1> HIDE DEF D, x, y
<1> DEFINE Q == Queue(P, x, D, y)
<1>9. /\ Q \in Seq(Nat \X Cell) /\ Len(P) \in Nat /\ Len(Q) = Len(P) + s + 2
      /\ \A i \in 1..Len(P) : Q[i] = P[i]
      /\ Q[Len(P) + 1] = x /\ \A k \in 1..s : Q[Len(P) + 1 + k] = D[k]
      /\ Q[Len(P) + s + 2] = y
  <2> DEFINE S == Nat \X Cell
  <2>1. P \in Seq(S) /\ x \in S /\ D \in [1..s -> S] /\ y \in S
    BY <1>7
  <2> HIDE DEF S
  <2>2. Queue(P, x, D, y) \in Seq(S) /\ Places(Queue(P, x, D, y), P, x, s, D, y)
    BY <1>1, <2>1, StoreSeq
  <2>3. Q \in Seq(S) /\ Places(Q, P, x, s, D, y)
    BY <2>2
  <2> HIDE DEF Q
  <2> QED BY <2>3 DEF S, Places
<1> HIDE DEF Q
<1>10. Laid(Q, P, n, m, v, a, index)
  BY <1>8, <1>9, <1>a DEF Laid, x, y, r
<1> QED BY <1>10 DEF Q, D, x, y, r, s

\* None but the last header touches what is live, and each cell that the new item
\* needs is written and not written again.
LEMMA StoreDue ==
    ASSUME NEW f, NEW n \in Nat, NEW m \in Name, NEW v \in Value, NEW a \in Nat,
           NEW lim \in Nat, NEW index \in Nat, FileOK(f, n, lim),
           IF Full(n) THEN lim = index /\ a = lim + Grow + 1 ELSE lim = a /\ index = LastBlock(f),
           NEW P, Growth(f, n, a, index, P), NEW Q, Laid(Q, P, n, m, v, a, index)
    PROVE  /\ Q \in Seq(Nat \X Cell) /\ Q # <<>>
           /\ Q[Len(Q)] = <<0, Header(n + 1, a + Size[v], FALSE)>>
           /\ \A j \in 1..(Len(Q) - 1) : \/ Q[j][1] # 0 /\ ~Live(f, n, Q[j][1])
                                         \/ Q[j] = <<0, Header(n, a, FALSE)>>
           /\ Due(f, Q, index + (n % Grow), Item(m, v, a))
           /\ \A k \in 1..Size[v] : Due(f, Q, a + k - 1, Data(v, k))
           /\ Full(n) => Due(f, Q, LastBlock(f) + Grow, Pointer(index))
<1> DEFINE s == Size[v]
           r == n % Grow
           B == LastBlock(f)
           p == Len(P)
           e == Item(m, v, a)
           h == Header(n + 1, a + s, FALSE)
<1>1. s \in Nat /\ s > 0 /\ Grow \in Nat /\ Grow > 1
  BY FilepageConstants
<1>2. r \in 0..(Grow - 1) /\ (Full(n) => r = 0)
  BY DivGrow DEF Full
<1>3. /\ B \in Nat /\ 1 <= B /\ B + Grow < lim
      /\ ~Full(n) => ~Live(f, n, B + r)
  BY NextSlot DEF IndexStart
<1>8. /\ Q \in Seq(Nat \X Cell) /\ Len(Q) = p + s + 2 /\ p \in Nat
      /\ \A i \in 1..p : Q[i] = P[i]
      /\ Q[p + 1] = <<index + r, e>>
      /\ \A k \in 1..s : Q[p + 1 + k] = <<a + k - 1, Data(v, k)>>
      /\ Q[p + s + 2] = <<0, h>>
  BY DEF Laid
<1> HIDE DEF s, r, B, e, h, p
\* The positions after those of P: the slot, then the data, then the header.
<1>b. Len(Q) = p + s + 2 /\ p \in Nat
  BY <1>8
<1>a. Q[p + 1][1] = index + r /\ Q[p + s + 2][1] = 0 /\ \A k \in 1..s : Q[p + 1 + k][1] = a + k - 1
  BY <1>8
<1>9. \A j \in 1..Len(Q) : p < j =>
         \/ j = p + 1 /\ Q[j][1] = index + r
         \/ \E k \in 1..s : j = p + 1 + k /\ Q[j][1] = a + k - 1
         \/ j = Len(Q) /\ Q[j][1] = 0
  <2> SUFFICES ASSUME NEW j \in 1..Len(Q), p < j
               PROVE  \/ j = p + 1 /\ Q[j][1] = index + r
                      \/ \E k \in 1..s : j = p + 1 + k /\ Q[j][1] = a + k - 1
                      \/ j = Len(Q) /\ Q[j][1] = 0
    OBVIOUS
  <2>1. CASE j = p + 1
    BY <1>a, <2>1
  <2>2. CASE j = Len(Q)
    BY <1>8, <1>a, <2>2
  <2>3. CASE j # p + 1 /\ j # Len(Q)
    <3>1. j - p - 1 \in 1..s /\ j = p + 1 + (j - p - 1)
      BY <1>1, <1>b, <2>3
    <3> QED BY <1>a, <3>1
  <2> QED BY <2>1, <2>2, <2>3
<1>10. IF Full(n) THEN index = lim /\ a = lim + Grow + 1 ELSE lim = a /\ index = B
  BY DEF B
<1>11. index + r \in Nat /\ 1 <= index + r /\ index + r < a /\ ~Live(f, n, index + r)
  <2>1. CASE Full(n)
    <3>1. index + r = lim /\ a = lim + Grow + 1
      BY <1>2, <1>10, <2>1
    <3>2. ~Live(f, n, lim)
      BY LiveBelow
    <3> QED BY <1>1, <1>3, <3>1, <3>2
  <2>2. CASE ~Full(n)
    <3>1. lim = a /\ index = B
      BY <1>10, <2>2
    <3> QED BY <1>1, <1>2, <1>3, <2>2, <3>1
  <2> QED BY <2>1, <2>2
<1>12. lim <= a /\ 1 <= a
  BY <1>1, <1>3, <1>10
<1>13. Q # <<>> /\ Q[Len(Q)] = <<0, h>>
  <2>1. Len(Q) # 0 /\ Len(Q) = p + s + 2
    BY <1>1, <1>8
  <2> QED BY <1>8, <2>1
<1>14. ASSUME NEW j \in 1..(Len(Q) - 1)
       PROVE  \/ Q[j][1] # 0 /\ ~Live(f, n, Q[j][1])
              \/ Q[j] = <<0, Header(n, a, FALSE)>>
  <2>0. j \in 1..Len(Q) /\ j # Len(Q) /\ j \in Nat /\ (j <= p \/ p < j)
    BY <1>1, <1>b
  <2>1. CASE j <= p
    <3>1. j \in 1..p
      BY <1>b, <2>0, <2>1
    <3>2. Q[j] = P[j]
      BY <1>8, <3>1
    <3> QED BY <3>1, <3>2 DEF p, Growth
  <2>2. CASE p < j
    <3>1. Q[j][1] = index + r \/ \E k \in 1..s : Q[j][1] = a + k - 1
      BY <1>9, <2>0, <2>2
    <3>2. CASE Q[j][1] = index + r
      <4>1. index + r # 0 /\ ~Live(f, n, index + r)
        BY <1>11
      <4> QED BY <3>2, <4>1, Zenon
    <3>3. ASSUME NEW k \in 1..s, Q[j][1] = a + k - 1 PROVE Q[j][1] # 0 /\ ~Live(f, n, Q[j][1])
      <4>1. a + k - 1 \in Nat /\ a + k - 1 # 0 /\ ~(a + k - 1 < lim)
        BY <1>1, <1>12
      <4>2. ~Live(f, n, a + k - 1)
        BY <4>1, LiveBelow
      <4> QED BY <3>3, <4>1, <4>2
    <3> QED BY <3>1, <3>2, <3>3
  <2> QED BY <2>0, <2>1, <2>2
<1>15. Due(f, Q, index + r, e)
  <2>1. p + 1 \in 1..Len(Q) /\ Q[p + 1] = <<index + r, e>>
    BY <1>1, <1>8
  <2>2. ASSUME NEW j \in 1..Len(Q), p + 1 < j PROVE Q[j][1] # index + r
    <3>0. p < j /\ j # p + 1
      BY <1>8, <2>2
    <3>1. Q[j][1] = 0 \/ \E k \in 1..s : Q[j][1] = a + k - 1
      BY <1>9, <3>0
    <3>2. \A k \in 1..s : a + k - 1 # index + r
      BY <1>1, <1>11
    <3>3. index + r # 0
      BY <1>11
    <3> QED BY <3>1, <3>2, <3>3
  <2> QED BY <2>1, <2>2 DEF Due
<1>16. ASSUME NEW k \in 1..s PROVE Due(f, Q, a + k - 1, Data(v, k))
  <2>a. p + 1 + k \in 1..Len(Q)
    BY <1>1, <1>b
  <2>1. p + 1 + k \in 1..Len(Q) /\ Q[p + 1 + k] = <<a + k - 1, Data(v, k)>>
    BY <1>8, <2>a
  <2>2. ASSUME NEW j \in 1..Len(Q), p + 1 + k < j PROVE Q[j][1] # a + k - 1
    <3>0. p < j /\ j # p + 1
      BY <1>1, <1>b, <2>2
    <3>1. Q[j][1] = 0 \/ \E i \in 1..s : j = p + 1 + i /\ Q[j][1] = a + i - 1
      BY <1>9, <3>0
    <3>2. \A i \in 1..s : j = p + 1 + i => a + i - 1 # a + k - 1
      BY <1>1, <1>b, <2>2
    <3>3. a + k - 1 # 0
      BY <1>12
    <3> QED BY <3>1, <3>2, <3>3
  <2> QED BY <2>1, <2>2 DEF Due
<1>17. ASSUME Full(n) PROVE Due(f, Q, B + Grow, Pointer(index))
  <2>1. p = 4 /\ P[2] = <<B + Grow, Pointer(index)>> /\ P[3][1] # B + Grow /\ P[4][1] # B + Grow
    BY <1>17 DEF p, B, Growth
  <2>a. 2 \in 1..p /\ 3 \in 1..p /\ 4 \in 1..p /\ 2 \in 1..Len(Q)
    BY <1>1, <1>8, <2>1
  <2>2. Q[2] = P[2] /\ Q[3] = P[3] /\ Q[4] = P[4]
    BY <1>8, <2>a
  <2>3. ASSUME NEW j \in 1..Len(Q), 2 < j PROVE Q[j][1] # B + Grow
    <3>0. j \in {3, 4} \/ 4 < j
      BY <1>8, <2>3
    <3>1. CASE j \in {3, 4}
      BY <2>1, <2>2, <3>1
    <3>2. CASE 4 < j
      <4>1. \/ Q[j][1] = index + r
            \/ \E i \in 1..s : Q[j][1] = a + i - 1
            \/ Q[j][1] = 0
        BY <1>9, <2>1, <3>2
      <4>2. index + r # B + Grow /\ B + Grow # 0
        BY <1>1, <1>2, <1>3, <1>10, <1>12, <1>17
      <4>3. \A i \in 1..s : a + i - 1 # B + Grow
        BY <1>1, <1>3, <1>12
      <4> QED BY <4>1, <4>2, <4>3
    <3> QED BY <3>0, <3>1, <3>2
  <2> QED BY <2>1, <2>2, <2>3, <2>a DEF Due
<1> QED BY <1>8, <1>13, <1>14, <1>15, <1>16, <1>17 DEF s, r, B, e, h

LEMMA WrapFacts ==
    /\ \A x \in Nat : Wrap(x) \in Nat /\ Wrap(x) <= Word - 1 /\ (x < Word => Wrap(x) = x)
    /\ \A x \in Nat : ShouldClose(x) = FALSE
<1>0. Word \in Nat /\ Word > 0 /\ ItemSize \in Nat
  BY FilepageConstants
<1>1. \A x \in Nat : Wrap(x) \in Nat /\ Wrap(x) <= Word - 1 /\ (x < Word => Wrap(x) = x)
  BY <1>0 DEF Wrap
<1>2. ASSUME NEW x \in Nat PROVE ShouldClose(x) = FALSE
  <2>1. x + ItemSize \in Nat
    BY <1>0
  <2>2. Wrap(x + ItemSize) \in Nat /\ Wrap(x + ItemSize) <= Word - 1
    BY <1>1, <2>1
  <2>3. ~(Wrap(x + ItemSize) > Word - 1)
    BY <1>0, <2>2
  <2> QED BY <2>3 DEF ShouldClose
<1> QED BY <1>1, <1>2

\* A settled page in numbers.
LEMMA SettledFacts ==
    ASSUME Settled
    PROVE  /\ Elements \in Nat /\ FirstFree \in Nat /\ 0 \in DOMAIN file
           /\ FileOK(file, Elements, FirstFree)
           /\ members.elements = Elements /\ members.firstFree = FirstFree
           /\ members.lastIndex = LastBlock(file) /\ members.full = FALSE
           /\ members.contents = Load(file)
<1>1. FileOK(file, Elements, FirstFree) /\ members = Opened(file)
  BY DEF Settled
<1>2. 0 \in DOMAIN file /\ Elements \in Nat /\ FirstFree \in Nat /\ file[0].full = FALSE
  BY <1>1, HeadCell DEF FileOK, Headed, Elements, FirstFree
<1> QED BY <1>1, <1>2 DEF Opened, Members, Elements, FirstFree

\* What growPage writes, when its offsets fit.
LEMMA GrowthIs ==
    ASSUME Settled, NEW n \in Nat, n = Elements, NEW lim \in Nat, lim = FirstFree, Full(n),
           NEW B \in Nat, B = LastBlock(file), NEW a \in Nat, a = lim + Grow + 1,
           a + ItemSize * Grow < Word
    PROVE  /\ GrowPage.index = lim /\ GrowPage.free = a
           /\ Growth(file, n, a, lim, GrowPage.writes)
<1> DEFINE z == ItemSize * Grow
<1>0. Grow \in Nat /\ z \in Nat /\ Word \in Nat
  BY FilepageConstants
<1>1. /\ FileOK(file, n, lim) /\ members.elements = n /\ members.firstFree = lim
      /\ members.lastIndex = B /\ members.full = FALSE
  BY SettledFacts
<1>a. a + z < Word
  OBVIOUS
<1> HIDE DEF z
<1>2. Wrap(lim + Grow) = lim + Grow /\ Wrap(lim + Grow + 1) = a /\ Wrap(a + z) = a + z
  <2>1. lim + Grow \in Nat /\ lim + Grow < Word /\ lim + Grow + 1 = a /\ a < Word
        /\ a + z \in Nat
    BY <1>0, <1>a
  <2> QED BY <1>a, <2>1, WrapFacts
<1>3. GrowPage.index = lim /\ GrowPage.free = a
  BY <1>1, <1>2 DEF GrowPage
<1> DEFINE w1 == <<lim + Grow, Pointer(0)>>
           w2 == <<B + Grow, Pointer(lim)>>
           w3 == <<B + Grow + 1 + (a + z), Zero>>
           w4 == <<0, Header(n, a, FALSE)>>
           P == GrowPage.writes
<1>4. P = <<w1, w2, w3, w4>>
  BY <1>1, <1>2 DEF GrowPage, NextEmpty, z
<1>5. B \in Nat /\ 1 <= B /\ B + Grow < lim /\ ~Live(file, n, B + Grow)
  BY <1>1, NextSlot DEF IndexStart
<1>6. w1 \in Nat \X Cell /\ w2 \in Nat \X Cell /\ w3 \in Nat \X Cell /\ w4 \in Nat \X Cell
  <2>1. lim + Grow \in Nat /\ B + Grow \in Nat /\ B + Grow + 1 + (a + z) \in Nat
    BY <1>0
  <2>2. Pointer(0) \in Cell /\ Pointer(lim) \in Cell /\ Zero \in Cell
    BY DEF Pointer, Cell
  <2>3. Header(n, a, FALSE) \in Cell
    BY HeadCell
  <2> QED BY <2>1, <2>2, <2>3
<1>7. /\ w1[1] # 0 /\ ~Live(file, n, w1[1]) /\ w2[1] # 0 /\ ~Live(file, n, w2[1])
      /\ w3[1] # 0 /\ ~Live(file, n, w3[1]) /\ w3[1] # B + Grow /\ w4[1] # B + Grow
  <2>1. ASSUME NEW x \in Nat, lim <= x PROVE ~Live(file, n, x)
    BY <1>1, <2>1, LiveBelow
  <2>2. lim + Grow \in Nat /\ lim <= lim + Grow /\ lim + Grow # 0 /\ B + Grow # 0
    BY <1>0, <1>5
  <2>3. /\ B + Grow + 1 + (a + z) \in Nat /\ lim <= B + Grow + 1 + (a + z)
        /\ B + Grow + 1 + (a + z) # B + Grow /\ B + Grow + 1 + (a + z) # 0
    BY <1>0, <1>5
  <2>4. ~Live(file, n, lim + Grow) /\ ~Live(file, n, B + Grow + 1 + (a + z))
    BY <2>1, <2>2, <2>3
  <2>5. w1[1] = lim + Grow /\ w2[1] = B + Grow /\ w3[1] = B + Grow + 1 + (a + z) /\ w4[1] = 0
    OBVIOUS
  <2> HIDE DEF w1, w2, w3, w4
  <2> QED BY <1>5, <2>2, <2>3, <2>4, <2>5
<1>8. w4 = <<0, Header(n, a, FALSE)>> /\ w2 = <<B + Grow, Pointer(lim)>>
  OBVIOUS
<1> HIDE DEF w1, w2, w3, w4, P
<1>9. /\ P \in Seq(Nat \X Cell) /\ Len(P) = 4
      /\ P[1] = w1 /\ P[2] = w2 /\ P[3] = w3 /\ P[4] = w4
  BY <1>4, <1>6
<1>10. \A i \in 1..Len(P) : i \in {1, 2, 3, 4}
  BY <1>9
<1>11. Growth(file, n, a, lim, P)
  BY <1>7, <1>8, <1>9, <1>10 DEF Growth
<1> QED BY <1>3, <1>11 DEF P

\* storeItem takes a settled page to one with a store under way.
LEMMA StoreStep ==
    ASSUME PageType, Settled, Fits, NEW m \in Name, NEW v \in Value, StoreItem(m, v)
    PROVE  pending' \in Seq(Nat \X Cell) /\ \E a, lim \in Nat : Storing(m, v, a, lim)'
<1>0. /\ Elements \in Nat /\ FirstFree \in Nat /\ 0 \in DOMAIN file
      /\ FileOK(file, Elements, FirstFree)
      /\ members.elements = Elements /\ members.firstFree = FirstFree
      /\ members.lastIndex = LastBlock(file) /\ members.full = FALSE
      /\ members.contents = Load(file)
  BY SettledFacts
<1>1. PICK n \in Nat : n = Elements
  BY <1>0
<1>2. PICK lim \in Nat : lim = FirstFree
  BY <1>0
<1>3. FileOK(file, n, lim)
  BY <1>0, <1>1, <1>2
<1>4. LastBlock(file) \in Nat
  BY <1>3, NextSlot
<1>5. PICK B \in Nat : B = LastBlock(file)
  BY <1>4
<1> DEFINE s == Size[v]
           z == ItemSize * Grow
           place == IF NeedsBlock THEN GrowPage ELSE Stay
           index == IF Full(n) THEN lim ELSE B
           a == IF Full(n) THEN lim + Grow + 1 ELSE lim
<1>6. s \in Nat /\ s > 0 /\ z \in Nat /\ Grow \in Nat /\ Word \in Nat
  BY FilepageConstants
<1>7. lim + Grow + 1 + z + s < Word
  BY <1>0, <1>2 DEF Fits
<1>8. NeedsBlock <=> Full(n)
  BY <1>0, <1>1 DEF NeedsBlock, Full
<1> HIDE DEF s, z
<1>9. a \in Nat /\ index \in Nat /\ a + s < Word /\ a + s \in Nat
  BY <1>6, <1>7
<1>10. place.index = index /\ place.free = a /\ Growth(file, n, a, index, place.writes)
  <2>1. CASE Full(n)
    <3>1. lim + Grow + 1 \in Nat /\ (lim + Grow + 1) + z < Word
      BY <1>6, <1>7
    <3>2. /\ GrowPage.index = lim /\ GrowPage.free = lim + Grow + 1
          /\ Growth(file, n, lim + Grow + 1, lim, GrowPage.writes)
      BY <1>1, <1>2, <1>5, <2>1, <3>1, GrowthIs DEF z
    <3> QED BY <1>8, <2>1, <3>2
  <2>2. CASE ~Full(n)
    <3>1. Stay.index = B /\ Stay.free = lim /\ Stay.writes = <<>>
      BY <1>0, <1>2, <1>5 DEF Stay
    <3>2. Growth(file, n, lim, B, <<>>)
      BY <2>2 DEF Growth
    <3> QED BY <1>8, <2>2, <3>1, <3>2
  <2> QED BY <2>1, <2>2
<1>11. /\ request' = <<m, v>> /\ file' = file
       /\ pending' = Queue(place.writes, <<place.index + (members.elements % Grow), Item(m, v, place.free)>>,
                           [k \in 1..Size[v] |-> <<place.free + k - 1, Data(v, k)>>],
                           <<0, Header(members.elements + 1, Wrap(place.free + Size[v]),
                                       members.full \/ ShouldClose(Wrap(place.free + Size[v])))>>)
       /\ members' = Members(members.elements + 1, Wrap(place.free + Size[v]), place.index,
                             members.full \/ ShouldClose(Wrap(place.free + Size[v])),
                             {c \in members.contents : c.name # m} \cup {Item(m, v, place.free)})
  BY DEF StoreItem, Queue, disk
<1> HIDE DEF place, index, a
<1>12. Wrap(a + s) = a + s /\ ShouldClose(a + s) = FALSE
  BY <1>9, WrapFacts
<1>13. (members.full \/ ShouldClose(a + s)) = FALSE
  BY <1>0, <1>12
<1> DEFINE P == place.writes
           Q == Queue(P, <<index + (n % Grow), Item(m, v, a)>>,
                      [k \in 1..Size[v] |-> <<a + k - 1, Data(v, k)>>],
                      <<0, Header(n + 1, a + Size[v], FALSE)>>)
<1>14. /\ pending' = Q
       /\ members' = Members(n + 1, a + Size[v], index, FALSE,
                             {c \in Load(file) : c.name # m} \cup {Item(m, v, a)})
  <2>1. members.elements = n /\ members.contents = Load(file)
    BY <1>0, <1>1
  <2>2. Wrap(place.free + Size[v]) = a + Size[v] /\ place.free = a /\ place.index = index
    BY <1>10, <1>12 DEF s
  <2>3. (members.full \/ ShouldClose(Wrap(place.free + Size[v]))) = FALSE
    BY <1>13, <2>2 DEF s
  <2> QED BY <1>11, <2>1, <2>2, <2>3
<1>15. P \in Seq(Nat \X Cell)
  BY <1>10 DEF Growth
<1> HIDE DEF P
<1>16. Laid(Q, P, n, m, v, a, index)
  BY <1>9, <1>15, StoreLaid
<1> HIDE DEF Q
<1>17. IF Full(n) THEN lim = index /\ a = lim + Grow + 1 ELSE lim = a /\ index = LastBlock(file)
  BY <1>5 DEF index, a
<1>18. Growth(file, n, a, index, P)
  BY <1>10 DEF P
<1>19. /\ Q \in Seq(Nat \X Cell) /\ Q # <<>>
       /\ Q[Len(Q)] = <<0, Header(n + 1, a + Size[v], FALSE)>>
       /\ \A j \in 1..(Len(Q) - 1) : \/ Q[j][1] # 0 /\ ~Live(file, n, Q[j][1])
                                     \/ Q[j] = <<0, Header(n, a, FALSE)>>
       /\ Due(file, Q, index + (n % Grow), Item(m, v, a))
       /\ \A k \in 1..Size[v] : Due(file, Q, a + k - 1, Data(v, k))
       /\ Full(n) => Due(file, Q, LastBlock(file) + Grow, Pointer(index))
  BY <1>3, <1>9, <1>16, <1>17, <1>18, StoreDue
<1>20. members'.lastIndex = index
  BY <1>14 DEF Members
<1>21. /\ Elements' = n /\ FirstFree' = lim /\ file' = file /\ lim <= lim /\ lim <= a
       /\ request' = <<m, v>> /\ pending' = Q
  BY <1>1, <1>2, <1>6, <1>11, <1>14, <1>17 DEF Elements, FirstFree
<1>22. members' = Members(n + 1, a + Size[v], members'.lastIndex, FALSE,
                             {c \in Load(file) : c.name # m} \cup {Item(m, v, a)})
  BY <1>14, <1>20
<1>23. Storing(m, v, a, lim)'
  BY <1>3, <1>17, <1>19, <1>20, <1>21, <1>22 DEF Storing
<1> QED BY <1>9, <1>19, <1>21, <1>23

-----------------------------------------------------------------------------
(* The invariant. *)

LEMMA PageInit == Init => PageInv
<1> SUFFICES ASSUME Init PROVE PageInv
  OBVIOUS
<1>1. file = <<>> /\ pending = <<>> /\ page = "closed" /\ members = NoMembers /\ request = None
  BY DEF Init
<1>2. DOMAIN <<>> = {}
  OBVIOUS
<1>3. PageType
  BY <1>1, <1>2 DEF PageType
<1> QED BY <1>1, <1>3 DEF PageInv

LEMMA CreateStep == ASSUME PageInv, Create PROVE PageInv'
<1> DEFINE free == IndexStart + Grow + 1
           w1 == <<0, Header(0, free, FALSE)>>
           w2 == <<IndexStart + Grow, Pointer(NextEmpty)>>
           w3 == <<free + ItemSize * Grow, Zero>>
<1>0. PageType /\ page = "closed" /\ ~exists /\ request = None
  BY DEF PageInv, Create
<1>1. /\ exists' = TRUE /\ page' = "open" /\ file' = file /\ request' = request
      /\ members' = Members(0, free, IndexStart, FALSE, {})
  BY DEF Create
<1>2. pending' = <<w1, w2, w3>>
  BY DEF Create
<1>3. file = <<>>
  BY <1>0 DEF PageType
<1>4. w1 \in Nat \X Cell /\ w2 \in Nat \X Cell /\ w3 \in Nat \X Cell /\ w2[1] # 0 /\ w3[1] # 0
  <2>1. Grow \in Nat /\ ItemSize * Grow \in Nat
    BY FilepageConstants
  <2>2. /\ free \in Nat /\ IndexStart + Grow \in Nat /\ IndexStart + Grow # 0
        /\ free + ItemSize * Grow \in Nat /\ free + ItemSize * Grow # 0
    BY <2>1 DEF IndexStart
  <2>3. Header(0, free, FALSE) \in Cell
    BY <2>2, HeadCell
  <2>4. Pointer(NextEmpty) \in Cell /\ Zero \in Cell
    BY DEF Pointer, NextEmpty, Cell
  <2> HIDE DEF free
  <2> QED BY <2>2, <2>3, <2>4
<1>5. w1 = <<0, Header(0, free, FALSE)>>
  OBVIOUS
<1> HIDE DEF w1, w2, w3
<1>6. /\ pending' \in Seq(Nat \X Cell) /\ Len(pending') = 3 /\ pending' # <<>>
      /\ pending'[1] = w1 /\ pending'[2] = w2 /\ pending'[3] = w3
  BY <1>2, <1>4
<1>7. \A j \in 2..Len(pending') : pending'[j][1] # 0
  <2>1. \A j \in 2..Len(pending') : j = 2 \/ j = 3
    BY <1>6
  <2> QED BY <1>4, <1>6, <2>1
<1>8. Fresh'
  BY <1>0, <1>1, <1>3, <1>5, <1>6, <1>7 DEF Fresh
<1>9. PageType'
  BY <1>0, <1>1, <1>6 DEF PageType
<1> QED BY <1>1, <1>8, <1>9 DEF PageInv

LEMMA OpenStep == ASSUME PageInv, Open PROVE PageInv'
<1>0. PageType /\ page = "closed" /\ pending = <<>> /\ request = None /\ members = NoMembers
  BY DEF PageInv, Open
<1>1. file' = file /\ exists' = exists /\ pending' = pending /\ request' = request /\ exists
  BY DEF Open, disk
<1>2. PageType'
  BY <1>0, <1>1 DEF PageType, Open
<1>3. CASE file = <<>>
  <2>1. Read(file, 0).kind # "header"
    <3>1. 0 \notin DOMAIN file
      BY <1>3
    <3> QED BY <3>1 DEF Read, Zero
  <2>2. page' = "broken" /\ members' = members
    BY <2>1 DEF Open
  <2> QED BY <1>0, <1>1, <1>2, <1>3, <2>2 DEF PageInv
<1>4. CASE FileOK(file, Elements, FirstFree)
  <2>1. Read(file, 0).kind = "header"
    BY <1>4 DEF FileOK, Headed, Read
  <2>2. page' = "open" /\ members' = Opened(file)
    BY <2>1 DEF Open
  <2>3. Elements' = Elements /\ FirstFree' = FirstFree
    BY <1>1 DEF Elements, FirstFree
  <2>4. \A j \in 1..Len(<<>>) : FALSE
    OBVIOUS
  <2>5. Settled'
    BY <1>0, <1>1, <1>4, <2>2, <2>3, <2>4 DEF Settled
  <2> QED BY <1>2, <2>2, <2>5 DEF PageInv
<1> QED BY <1>0, <1>3, <1>4 DEF PageInv

\* Between operations an open page is settled.
LEMMA IdleSettled == ASSUME PageInv, page = "open", pending = <<>> PROVE Settled
  BY DEF PageInv, Fresh, Storing

LEMMA StoreItemStep ==
    ASSUME PageInv, Fits, NEW m \in Name, NEW v \in Value, StoreItem(m, v)
    PROVE  PageInv'
<1>0. PageType /\ Settled /\ page = "open"
  BY IdleSettled DEF PageInv, StoreItem
<1>1. pending' \in Seq(Nat \X Cell) /\ \E a, lim \in Nat : Storing(m, v, a, lim)'
  BY <1>0, StoreStep
<1>2. file' = file /\ exists' = exists /\ page' = page
  BY DEF StoreItem, disk
<1>3. PageType'
  BY <1>0, <1>1, <1>2 DEF PageType
<1> QED BY <1>0, <1>1, <1>2, <1>3 DEF PageInv

LEMMA WriteStep == ASSUME PageInv, Write PROVE PageInv'
<1>0. PageType /\ page = "open"
  BY DEF PageInv, Write
<1>1. page' = page /\ exists' = exists
  BY DEF Write
<1>2. PageType'
  <2>1. /\ pending' \in Seq(Nat \X Cell)
        /\ DOMAIN file' \subseteq Nat /\ \A a \in DOMAIN file' : file'[a] \in Cell
    BY <1>0, Written
  <2> QED BY <1>0, <1>1, <2>1 DEF PageType
<1>3. CASE Fresh
  <2>1. Settled'
    BY <1>0, <1>3, WriteFresh
  <2> QED BY <1>0, <1>1, <1>2, <2>1 DEF PageInv
<1>4. CASE Settled
  <2>1. Settled'
    BY <1>0, <1>4, WriteSettled
  <2> QED BY <1>0, <1>1, <1>2, <2>1 DEF PageInv
<1>5. ASSUME NEW m \in Name, NEW v \in Value, NEW a \in Nat, NEW lim \in Nat, Storing(m, v, a, lim)
      PROVE  PageInv'
  <2>1. CASE Len(pending) = 1
    <3>1. Settled'
      BY <1>0, <1>5, <2>1, WriteLast
    <3> QED BY <1>0, <1>1, <1>2, <3>1 DEF PageInv
  <2>2. CASE Len(pending) # 1
    <3>1. Storing(m, v, a, lim)'
      BY <1>0, <1>5, <2>2, WriteStoring
    <3> QED BY <1>0, <1>1, <1>2, <3>1 DEF PageInv
  <2> QED BY <2>1, <2>2
<1> QED BY <1>0, <1>3, <1>4, <1>5 DEF PageInv

\* At any time, the file is empty or a page that open() can take.
LEMMA FileTaken ==
    ASSUME PageInv
    PROVE  \/ file = <<>> /\ ~HasHeader
           \/ /\ FileOK(file, Elements, FirstFree) /\ HasHeader /\ file # <<>>
              /\ Elements \in Nat /\ FirstFree \in Nat
<1>1. ASSUME file = <<>> PROVE ~HasHeader
  <2>1. 0 \notin DOMAIN file
    BY <1>1
  <2> QED BY <2>1 DEF HasHeader, Read, Zero
<1>2. ASSUME FileOK(file, Elements, FirstFree)
      PROVE  HasHeader /\ Elements \in Nat /\ FirstFree \in Nat
  <2>1. Headed(file, Elements)
    BY <1>2 DEF FileOK
  <2>2. HasHeader
    BY <2>1 DEF HasHeader, Headed, Read
  <2> QED BY <2>1, <2>2, HeadCell DEF Headed, Elements, FirstFree
<1>3. ASSUME NEW m \in Name, NEW v \in Value, NEW a \in Nat, NEW lim \in Nat, Storing(m, v, a, lim)
      PROVE  FileOK(file, Elements, FirstFree)
  <2>1. FileOK(file, Elements, lim) /\ lim <= FirstFree
    BY <1>3 DEF Storing
  <2>2. Elements \in Nat /\ FirstFree \in Nat
    BY <1>3, StoringNats
  <2> QED BY <2>1, <2>2, Wider
<1>4. file = <<>> \/ FileOK(file, Elements, FirstFree)
  BY <1>3 DEF PageInv, PageType, Fresh, Settled
<1> QED BY <1>1, <1>2, <1>4

LEMMA ExitStep == ASSUME PageInv, Exit PROVE PageInv'
<1>1. /\ page' = "closed" /\ members' = NoMembers /\ pending' = <<>> /\ request' = None
      /\ file' = file /\ exists' = exists
  BY DEF Exit, disk
<1>2. PageType'
  <2>1. <<>> \in Seq(Nat \X Cell)
    OBVIOUS
  <2> QED BY <1>1, <2>1 DEF PageInv, PageType
<1>3. file' = <<>> \/ FileOK(file', Elements', FirstFree')
  BY <1>1, FileTaken DEF Elements, FirstFree
<1> QED BY <1>1, <1>2, <1>3 DEF PageInv

LEMMA PageStep == ASSUME PageInv, Fits, [Next]_vars PROVE PageInv'
<1>1. CASE Create
  BY <1>1, CreateStep
<1>2. CASE Open
  BY <1>2, OpenStep
<1>3. ASSUME NEW n \in Name, NEW v \in Value, StoreItem(n, v) PROVE PageInv'
  BY <1>3, StoreItemStep
<1>4. CASE Write
  BY <1>4, WriteStep
<1>5. ASSUME file' = file, exists' = exists, pending' = pending, page' = page, members' = members,
             request' = request
      PROVE  PageInv'
  <2>1. PageType'
    BY <1>5 DEF PageInv, PageType
  <2>2. Elements' = Elements /\ FirstFree' = FirstFree
    BY <1>5 DEF Elements, FirstFree
  <2>3. Fresh => Fresh'
    BY <1>5 DEF Fresh
  <2>4. Settled => Settled'
    BY <1>5, <2>2 DEF Settled
  <2>5. ASSUME NEW m, NEW v, NEW a, NEW lim, Storing(m, v, a, lim) PROVE Storing(m, v, a, lim)'
    BY <1>5, <2>2, <2>5 DEF Storing
  <2> QED BY <1>5, <2>1, <2>2, <2>3, <2>4, <2>5 DEF PageInv
<1>6. ASSUME NEW n \in Name, RetrieveItem(n) PROVE PageInv'
  BY <1>5, <1>6 DEF RetrieveItem, disk
<1>7. CASE Exit
  BY <1>7, ExitStep
<1>8. CASE UNCHANGED vars
  BY <1>5, <1>8 DEF vars, disk
<1> QED BY <1>1, <1>2, <1>3, <1>4, <1>6, <1>7, <1>8 DEF Next

-----------------------------------------------------------------------------
(* The offsets. *)

LEMMA BoundGrows ==
    ASSUME NEW u \in Nat
    PROVE  /\ \A k \in Nat : Bound(u, k) \in Nat /\ Bound(u, k + 1) = Bound(u, k) + (Grow + 1 + u)
           /\ \A j, k \in Nat : j <= k => Bound(u, j) <= Bound(u, k)
           /\ Bound(u, 0) = IndexStart + Grow + 1
<1> DEFINE d == Grow + 1 + u
<1>0. Grow \in Nat /\ d \in Nat
  BY FilepageConstants
<1>a. \A k \in Nat : Bound(u, k) = IndexStart + Grow + 1 + k * d
  BY DEF Bound
<1> HIDE DEF d
<1>1. ASSUME NEW k \in Nat PROVE Bound(u, k) \in Nat /\ Bound(u, k + 1) = Bound(u, k) + d
  <2>1. k * d \in Nat /\ (k + 1) * d = k * d + d
    BY <1>0
  <2>2. k + 1 \in Nat
    OBVIOUS
  <2>3. Bound(u, k) = IndexStart + Grow + 1 + k * d /\ Bound(u, k + 1) = IndexStart + Grow + 1 + (k + 1) * d
    BY <1>a, <2>2
  <2> QED BY <1>0, <2>1, <2>3 DEF IndexStart
<1>2. ASSUME NEW j \in Nat, NEW k \in Nat, j <= k PROVE Bound(u, j) <= Bound(u, k)
  <2>a. k - j \in Nat
    BY <1>2
  <2> DEFINE x == (k - j) * d
             y == k * d
             w == j * d
  <2>b. x \in Nat
    BY <1>0, <2>a
  <2>c. y = w + x
    BY <1>0
  <2>1. y \in Nat /\ w \in Nat
    BY <1>0
  <2> HIDE DEF x, y, w
  <2>d. w <= y
    BY <2>b, <2>c, <2>1
  <2>2. j * d <= k * d /\ j * d \in Nat /\ k * d \in Nat
    BY <2>1, <2>d DEF w, y
  <2> QED BY <1>0, <1>a, <2>2 DEF IndexStart
<1>3. Bound(u, 0) = IndexStart + Grow + 1
  BY <1>0, <1>a DEF IndexStart
<1> QED BY <1>1, <1>2, <1>3 DEF d

LEMMA BoundFits ==
    ASSUME NEW u \in Nat, \A w \in Value : Size[w] <= u, PageInv, PageBound(u),
           Bound(u, MaxItems + MaxOpens + 1) + ItemSize * Grow < Word
    PROVE  Fits
<1> DEFINE z == ItemSize * Grow
           M == MaxItems + MaxOpens
<1>0. Grow \in Nat /\ z \in Nat /\ MaxItems \in Nat /\ MaxOpens \in Nat /\ M \in Nat /\ Word \in Nat
  BY FilepageConstants
<1>1. /\ Bound(u, M + 1) = Bound(u, M) + (Grow + 1 + u) /\ Bound(u, M) \in Nat
      /\ \A j \in Nat : j <= M => Bound(u, j) \in Nat /\ Bound(u, j) <= Bound(u, M)
  <2>1. M \in Nat
    BY <1>0
  <2> HIDE DEF M
  <2>2. /\ \A k \in Nat : Bound(u, k) \in Nat /\ Bound(u, k + 1) = Bound(u, k) + (Grow + 1 + u)
        /\ \A j, k \in Nat : j <= k => Bound(u, j) <= Bound(u, k)
    BY BoundGrows
  <2> QED BY <2>1, <2>2
<1>2. Bound(u, M + 1) + z < Word
  OBVIOUS
<1>3. members.firstFree \in Nat /\ members.firstFree <= Bound(u, M)
  <2>1. CASE page = "open"
    <3>1. /\ opens \in 0..MaxOpens /\ opens >= 1 /\ members.elements \in 0..MaxItems
          /\ members.firstFree \in Nat /\ members.firstFree <= Bound(u, members.elements + opens - 1)
      BY <2>1 DEF PageBound
    <3>2. members.elements + opens - 1 \in Nat /\ members.elements + opens - 1 <= M
      BY <1>0, <3>1
    <3>3. Bound(u, members.elements + opens - 1) \in Nat /\ Bound(u, members.elements + opens - 1) <= Bound(u, M)
      BY <1>1, <3>2
    <3> QED BY <1>1, <3>1, <3>3
  <2>2. CASE page # "open"
    <3>1. members.firstFree = 0
      BY <2>2 DEF PageInv, NoMembers, Members
    <3> QED BY <1>1, <3>1
  <2> QED BY <2>1, <2>2
<1> HIDE DEF M
<1>4. ASSUME NEW v \in Value PROVE members.firstFree + Grow + 1 + z + Size[v] < Word
  <2>1. Size[v] \in Nat /\ Size[v] <= u
    BY FilepageConstants
  <2>2. Bound(u, M) + Grow + 1 + u + z < Word
    BY <1>0, <1>1, <1>2
  <2> HIDE DEF z
  <2> QED BY <1>0, <1>1, <1>3, <2>1, <2>2
<1> QED BY <1>4 DEF Fits

LEMMA BoundStep ==
    ASSUME NEW u \in Nat, \A w \in Value : Size[w] <= u, PageInv, PageInv', PageBound(u), Fits,
           [Next]_vars
    PROVE  PageBound(u)'
<1>0. MaxItems \in Nat /\ MaxOpens \in Nat /\ Grow \in Nat /\ opens \in 0..MaxOpens
  BY FilepageConstants DEF PageBound
<1>1. CASE Create
  <2>1. /\ opens' = opens + 1 /\ opens' \in 0..MaxOpens /\ opens' >= 1 /\ page' = "open"
        /\ members' = Members(0, IndexStart + Grow + 1, IndexStart, FALSE, {})
    BY <1>0, <1>1 DEF Create
  <2>2. members'.elements = 0 /\ members'.firstFree = IndexStart + Grow + 1
    BY <2>1 DEF Members
  <2>3. members'.firstFree \in Nat /\ members'.firstFree <= Bound(u, opens)
    <3>1. Bound(u, 0) = IndexStart + Grow + 1 /\ Bound(u, 0) <= Bound(u, opens)
      BY <1>0, BoundGrows
    <3> QED BY <1>0, <2>2, <3>1 DEF IndexStart
  <2>4. members'.elements + opens' - 1 = opens
    <3>1. opens' = opens + 1 /\ members'.elements = 0
      BY <2>1, <2>2
    <3> QED BY <1>0, <3>1
  <2>5. opens' \in 0..MaxOpens /\ opens' >= 1 /\ page' = "open" /\ members'.elements \in 0..MaxItems
    <3>1. opens' \in 0..MaxOpens /\ opens' >= 1 /\ page' = "open" /\ members'.elements = 0
      BY <2>1, <2>2
    <3>2. 0 \in 0..MaxItems
      BY <1>0
    <3> QED BY <3>1, <3>2
  <2> QED BY <2>3, <2>4, <2>5 DEF PageBound
<1>2. CASE Open
  <2>1. opens' = opens + 1 /\ opens' \in 0..MaxOpens /\ opens' >= 1 /\ file' = file /\ page = "closed"
    BY <1>0, <1>2 DEF Open, disk
  <2>2. CASE HasHeader
    <3>1. page' = "open" /\ members' = Opened(file)
      BY <1>2, <2>2 DEF Open, HasHeader
    <3>2. file # <<>> /\ FirstFree \in Nat
      BY <2>2, FileTaken
    <3>3. Elements \in 0..MaxItems /\ FirstFree <= Bound(u, Elements + opens)
      BY <2>1, <3>2 DEF PageBound
    <3>4. members'.elements = Elements /\ members'.firstFree = FirstFree
      BY <3>1 DEF Opened, Members, Elements, FirstFree
    <3>5. members'.elements + opens' - 1 = Elements + opens
      BY <1>0, <2>1, <3>3, <3>4
    <3> QED BY <2>1, <3>1, <3>2, <3>3, <3>4, <3>5 DEF PageBound
  <2>3. CASE ~HasHeader
    <3>1. page' = "broken"
      BY <1>2, <2>3 DEF Open, HasHeader
    <3>2. file' = <<>>
      BY <3>1 DEF PageInv
    <3> QED BY <2>1, <3>1, <3>2 DEF PageBound
  <2> QED BY <2>2, <2>3
<1>3. ASSUME NEW m \in Name, NEW v \in Value, StoreItem(m, v) PROVE PageBound(u)'
  <2>1. /\ page = "open" /\ members.elements < MaxItems /\ page' = page /\ opens' = opens
        /\ pending = <<>> /\ file' = file
    BY <1>3 DEF StoreItem, disk
  <2>2. PageType /\ Settled
    BY <2>1, IdleSettled DEF PageInv
  <2>3. PICK a, lim \in Nat : Storing(m, v, a, lim)'
    BY <1>3, <2>2, StoreStep
  <2>4. /\ Elements \in Nat /\ FirstFree \in Nat
        /\ members.elements = Elements /\ members.firstFree = FirstFree
    BY <2>2, SettledFacts
  <2>5. Elements' = Elements /\ FirstFree' = FirstFree
    BY <2>1 DEF Elements, FirstFree
  <2>6. /\ members'.elements = Elements + 1 /\ members'.firstFree = a + Size[v]
        /\ a \in {lim, lim + Grow + 1} /\ lim <= FirstFree
    BY <2>3, <2>5 DEF Storing, Members
  <2>7. Size[v] \in Nat /\ Size[v] <= u
    BY FilepageConstants
  <2>8. opens >= 1 /\ Elements \in 0..MaxItems /\ FirstFree <= Bound(u, Elements + opens - 1)
    BY <2>1, <2>4 DEF PageBound
  <2>9. PICK k \in Nat : k = Elements + opens - 1
    BY <1>0, <2>4, <2>8
  <2>10. Bound(u, k) \in Nat /\ Bound(u, k + 1) = Bound(u, k) + (Grow + 1 + u)
    BY BoundGrows
  <2>11. members'.firstFree \in Nat /\ members'.firstFree <= Bound(u, k + 1)
    <3>1. FirstFree <= Bound(u, k)
      BY <2>8, <2>9
    <3> QED BY <1>0, <2>4, <2>6, <2>7, <2>10, <3>1
  <2>12. members'.elements + opens' - 1 = k + 1 /\ members'.elements \in 0..MaxItems
    BY <1>0, <2>1, <2>4, <2>6, <2>9
  <2> QED BY <1>0, <2>1, <2>8, <2>11, <2>12 DEF PageBound
<1>4. CASE Write
  <2>1. page = "open"
    BY <1>4 DEF PageInv, Write
  <2>2. page' = page /\ opens' = opens /\ members' = members
    BY <1>4 DEF Write
  <2> QED BY <2>1, <2>2 DEF PageBound
<1>5. ASSUME file' = file, page' = page, members' = members, opens' = opens PROVE PageBound(u)'
  BY <1>5 DEF PageBound, Elements, FirstFree
<1>6. ASSUME NEW m \in Name, RetrieveItem(m) PROVE PageBound(u)'
  BY <1>5, <1>6 DEF RetrieveItem, disk
<1>7. CASE Exit
  <2>1. page' = "closed" /\ opens' = opens /\ file' = file
    BY <1>7 DEF Exit, disk
  <2>2. Elements' = Elements /\ FirstFree' = FirstFree
    BY <2>1 DEF Elements, FirstFree
  <2>3. ASSUME page = "open", file # <<>>
        PROVE  /\ Elements \in Nat /\ FirstFree \in Nat
               /\ \/ Elements = members.elements /\ FirstFree = members.firstFree
                  \/ Elements + 1 = members.elements /\ FirstFree <= members.firstFree
    <3>1. CASE Settled
      BY <3>1, SettledFacts
    <3>2. ASSUME NEW m \in Name, NEW v \in Value, NEW a \in Nat, NEW lim \in Nat, Storing(m, v, a, lim)
          PROVE  /\ Elements \in Nat /\ FirstFree \in Nat
                 /\ Elements + 1 = members.elements /\ FirstFree <= members.firstFree
      <4>1. Elements \in Nat /\ FirstFree \in Nat
        BY <3>2, StoringNats
      <4>2. members.elements = Elements + 1 /\ members.firstFree = a + Size[v] /\ FirstFree <= a
        BY <3>2 DEF Storing, Members
      <4>3. Size[v] \in Nat
        BY FilepageConstants
      <4> QED BY <4>1, <4>2, <4>3
    <3>3. ~Fresh
      BY <2>3 DEF Fresh
    <3> QED BY <2>3, <3>1, <3>2, <3>3 DEF PageInv
  <2>4. ASSUME page = "open", file # <<>>
        PROVE  Elements \in 0..MaxItems /\ FirstFree <= Bound(u, Elements + opens)
    <3>1. /\ opens >= 1 /\ members.elements \in 0..MaxItems
          /\ members.firstFree \in Nat /\ members.firstFree <= Bound(u, members.elements + opens - 1)
      BY <2>4 DEF PageBound
    <3>2. PICK j \in Nat : j = members.elements + opens - 1
      BY <1>0, <3>1
    <3>3. PICK k \in Nat : k = Elements + opens
      BY <1>0, <2>3, <2>4
    <3>a. Elements \in Nat /\ (Elements = members.elements \/ Elements + 1 = members.elements)
      BY <2>3, <2>4
    <3>4. j <= k /\ Elements \in 0..MaxItems
      BY <1>0, <3>1, <3>2, <3>3, <3>a
    <3>5. Bound(u, j) <= Bound(u, k) /\ Bound(u, j) \in Nat /\ Bound(u, k) \in Nat
      BY <3>4, BoundGrows
    <3>6. FirstFree \in Nat /\ FirstFree <= members.firstFree /\ members.firstFree <= Bound(u, j)
      BY <2>3, <2>4, <3>1, <3>2
    <3>7. FirstFree <= Bound(u, k)
      BY <3>1, <3>5, <3>6
    <3> QED BY <3>3, <3>4, <3>7
  <2>5. page # "open" /\ file # <<>> => Elements \in 0..MaxItems /\ FirstFree <= Bound(u, Elements + opens)
    BY DEF PageBound
  <2> QED BY <1>0, <2>1, <2>2, <2>4, <2>5 DEF PageBound
<1>8. CASE UNCHANGED vars
  BY <1>5, <1>8 DEF vars, disk
<1> QED BY <1>1, <1>2, <1>3, <1>4, <1>6, <1>7, <1>8 DEF Next

-----------------------------------------------------------------------------
(* The theorems. *)

LEMMA PageSafe == Room /\ Spec => []PageInv
<1> SUFFICES ASSUME Room PROVE Spec => []PageInv
  OBVIOUS
<1>1. PICK v \in Value :
         /\ \A w \in Value : Size[w] <= Size[v]
         /\ Bound(Size[v], MaxItems + MaxOpens + 1) + ItemSize * Grow < Word
  BY DEF Room
<1> DEFINE u == Size[v]
           Inv == PageInv /\ PageBound(u)
<1>2. u \in Nat /\ \A w \in Value : Size[w] <= u
  BY <1>1, FilepageConstants
<1>3. Init => Inv
  <2> SUFFICES ASSUME Init PROVE Inv
    OBVIOUS
  <2>1. opens = 0 /\ page = "closed" /\ file = <<>> /\ 0 \in 0..MaxOpens
    BY FilepageConstants DEF Init
  <2>2. PageBound(u)
    BY <2>1 DEF PageBound
  <2> QED BY <2>2, PageInit
<1>4. Inv /\ [Next]_vars => Inv'
  <2> SUFFICES ASSUME Inv, [Next]_vars PROVE Inv'
    OBVIOUS
  <2> HIDE DEF u
  <2>1. Fits
    BY <1>1, <1>2, BoundFits DEF u
  <2>2. PageInv'
    BY <2>1, PageStep
  <2>3. PageBound(u)'
    BY <1>2, <2>1, <2>2, BoundStep
  <2> QED BY <2>2, <2>3
<1>5. Inv => PageInv
  OBVIOUS
<1> HIDE DEF Inv
<1> QED BY <1>3, <1>4, <1>5, PTL DEF Spec

\* A process that opens the page finds the members of the process that wrote it: the
\* header, the chain of blocks and the items on disk are those in memory, for any
\* names and values and any size of blocks, on pages that stay below the limit.
THEOREM PageReopens == Room /\ Spec => []ReopenIsInvisible
<1>1. PageInv => ReopenIsInvisible
  <2> SUFFICES ASSUME PageInv, page = "open", pending = <<>> PROVE HasHeader /\ members = Opened(file)
    BY DEF ReopenIsInvisible
  <2>1. Settled
    BY IdleSettled
  <2>2. Headed(file, Elements) /\ members = Opened(file)
    BY <2>1 DEF Settled, FileOK
  <2> QED BY <2>2 DEF HasHeader, Headed, Read
<1> QED BY <1>1, PageSafe, PTL

LEMMA LiveBelowFree ==
    ASSUME NEW n \in Nat, n = Elements, FileOK(file, n, FirstFree)
    PROVE  LiveIsBelowFree
<1>0. Grow \in Nat /\ \A i \in 0..(n - 1) : i \div Grow \in 0..LastOf(n)
  BY LastFacts, FilepageConstants
<1>1. FirstFree \in Nat /\ file[0].elements = n
  BY HeadCell DEF FileOK, Headed, FirstFree
<1> DEFINE walk == Block(file)
           blocks == {walk[i \div Grow] : i \in 0..(file[0].elements - 1)}
           free == FirstFree
           c == Load(file)
<1>2. ASSUME NEW b \in blocks PROVE \E k \in 0..LastOf(n) : b = Block(file)[k]
  <2>1. PICK i \in 0..(n - 1) : b = walk[i \div Grow]
    BY <1>1
  <2> QED BY <1>0, <2>1
<1>3. ASSUME NEW b \in blocks PROVE b \in Nat /\ b + Grow < free
  BY <1>2, <1>3 DEF FileOK, Chained
<1>4. ASSUME NEW e \in c PROVE \E i \in 0..(n - 1) : e = ItemAt(file, i)
  BY <1>1, LoadDef
<1>5. ASSUME NEW e \in c PROVE e.item \in Nat /\ e.size \in Nat /\ e.item + e.size <= free
  <2>1. Whole(file, e, free)
    BY Loaded
  <2> QED BY <2>1, FilepageConstants DEF Whole, Item
<1> HIDE DEF blocks, c, free
<1>6. ASSUME NEW x \in Nat, NEW y \in Nat, NEW z \in Nat, NEW w \in Nat, x + y <= z \/ z + w <= x
      PROVE  x..(x + y - 1) \cap z..(z + w - 1) = {}
  <2>1. ASSUME NEW q \in x..(x + y - 1), q \in z..(z + w - 1) PROVE FALSE
    BY <1>6, <2>1
  <2> QED BY <2>1
<1>7. ASSUME NEW e \in c, NEW o \in c \ {e}
      PROVE  e.item..(e.item + e.size - 1) \cap o.item..(o.item + o.size - 1) = {}
  <2>1. PICK i \in 0..(n - 1) : e = ItemAt(file, i)
    BY <1>4
  <2>2. PICK j \in 0..(n - 1) : o = ItemAt(file, j)
    BY <1>4
  <2>3. i < j \/ j < i
    BY <2>1, <2>2
  <2>4. e.item + e.size <= o.item \/ o.item + o.size <= e.item
    BY <2>1, <2>2, <2>3 DEF FileOK, Placed
  <2>5. e.item \in Nat /\ e.size \in Nat /\ o.item \in Nat /\ o.size \in Nat
    BY <1>5
  <2> QED BY <1>6, <2>4, <2>5
<1>8. ASSUME NEW e \in c, NEW b \in blocks
      PROVE  e.item..(e.item + e.size - 1) \cap b..(b + Grow) = {}
  <2>1. PICK i \in 0..(n - 1) : e = ItemAt(file, i)
    BY <1>4
  <2>2. PICK k \in 0..LastOf(n) : b = Block(file)[k]
    BY <1>2
  <2>3. e.item + e.size <= b \/ b + Grow < e.item
    BY <2>1, <2>2 DEF FileOK, Placed
  <2>4. e.item \in Nat /\ e.size \in Nat /\ b \in Nat
    BY <1>3, <1>5
  <2>5. e.item + e.size <= b \/ b + (Grow + 1) <= e.item
    BY <1>0, <2>3, <2>4
  <2>6. e.item..(e.item + e.size - 1) \cap b..(b + (Grow + 1) - 1) = {}
    BY <1>0, <1>6, <2>4, <2>5
  <2>7. b + (Grow + 1) - 1 = b + Grow
    BY <1>0, <2>4
  <2> QED BY <2>6, <2>7
<1>9. /\ \A b \in blocks : b + Grow < free
      /\ \A e \in c : /\ e.item + e.size <= free
                      /\ \A o \in c \ {e} : e.item..(e.item + e.size - 1) \cap o.item..(o.item + o.size - 1) = {}
                      /\ \A b \in blocks : e.item..(e.item + e.size - 1) \cap b..(b + Grow) = {}
  BY <1>3, <1>5, <1>7, <1>8
<1> QED BY <1>9 DEF LiveIsBelowFree, blocks, c, free, FirstFree

\* Wherever a death cuts a store, the blocks and items that open() finds lie below the
\* first free cell of the header, so no later store writes over them, and do not touch
\* each other.
THEOREM PageKeepsLive == Room /\ Spec => []LiveIsBelowFree
<1>1. PageInv => LiveIsBelowFree
  <2> SUFFICES ASSUME PageInv PROVE LiveIsBelowFree
    OBVIOUS
  <2>1. CASE ~HasHeader
    BY <2>1 DEF LiveIsBelowFree
  <2>2. CASE HasHeader
    <3>1. FileOK(file, Elements, FirstFree) /\ Elements \in Nat
      BY <2>2, FileTaken
    <3> QED BY <3>1, LiveBelowFree
  <2> QED BY <2>1, <2>2
<1> QED BY <1>1, PageSafe, PTL

-----------------------------------------------------------------------------
(* The refinement. *)

LEMMA FoundIs ==
    /\ HasHeader => Found = [x \in Name |-> Fetch(file, Load(file), x)]
    /\ ~HasHeader => Found = [x \in Name |-> None]
<1>1. HasHeader => Found = [x \in Name |-> Fetch(file, Load(file), x)]
  BY DEF Found
<1>2. ~HasHeader => Found = [x \in Name |-> Fetch(file, {}, x)]
  BY DEF Found
<1>3. \A x : Fetch(file, {}, x) = None
  BY FetchNone
<1> QED BY <1>1, <1>2, <1>3

\* One cell is a stuttering step of the map, except the last one of a store.
LEMMA WriteRefines ==
    ASSUME PageInv, PageInv', Write
    PROVE  Large!Commit \/ UNCHANGED <<Found, request, answer>>
<1>0. PageType /\ page = "open" /\ answer' = answer /\ page' = "open"
  BY DEF PageInv, Write
<1>1. HasHeader => Found = [x \in Name |-> Fetch(file, Load(file), x)]
  BY FoundIs
<1>2. ~HasHeader => Found = [x \in Name |-> None]
  BY FoundIs
<1>3. Settled' \/ (\E m \in Name, v \in Value, a, lim \in Nat : Storing(m, v, a, lim)') => HasHeader'
  <2>1. Settled' => \E n : Headed(file', n)
    BY DEF Settled, FileOK
  <2>2. ASSUME NEW m \in Name, NEW v \in Value, NEW a \in Nat, NEW lim \in Nat, Storing(m, v, a, lim)'
        PROVE  \E n : Headed(file', n)
    BY <2>2 DEF Storing, FileOK
  <2>3. (\E n : Headed(file', n)) => HasHeader'
    BY DEF Headed, HasHeader, Read
  <2> QED BY <2>1, <2>2, <2>3
<1>4. HasHeader' => Found' = [x \in Name |-> Fetch(file', Load(file'), x)]
  BY DEF Found
<1>5. CASE Fresh
  <2>1. Settled' /\ Load(file') = {}
    BY <1>0, <1>5, WriteFresh
  <2>2. ~HasHeader
    <3>1. 0 \notin DOMAIN file
      BY <1>5 DEF Fresh
    <3> QED BY <3>1 DEF HasHeader, Read, Zero
  <2>3. \A x : Fetch(file', {}, x) = None
    BY FetchNone
  <2>4. Found' = Found
    BY <1>2, <1>3, <1>4, <2>1, <2>2, <2>3
  <2>5. request' = request
    BY <1>5, <2>1 DEF Fresh, Settled
  <2> QED BY <1>0, <2>4, <2>5
<1>6. CASE Settled
  <2>1. Settled' /\ \A x : Fetch(file', Load(file'), x) = Fetch(file, Load(file), x)
    BY <1>0, <1>6, WriteSettled
  <2>2. HasHeader
    BY <1>6 DEF Settled, FileOK, Headed, HasHeader, Read
  <2>3. Found' = Found
    BY <1>1, <1>3, <1>4, <2>1, <2>2
  <2>4. request' = request
    BY <1>6, <2>1 DEF Settled
  <2> QED BY <1>0, <2>3, <2>4
<1>7. ASSUME NEW m \in Name, NEW v \in Value, NEW a \in Nat, NEW lim \in Nat, Storing(m, v, a, lim)
      PROVE  Large!Commit \/ UNCHANGED <<Found, request, answer>>
  <2>0. HasHeader /\ request = <<m, v>>
    BY <1>7 DEF Storing, FileOK, Headed, HasHeader, Read
  <2>1. CASE Len(pending) = 1
    <3>1. /\ Settled'
          /\ \A x : Fetch(file', Load(file'), x) = IF x = m THEN v ELSE Fetch(file, Load(file), x)
      BY <1>0, <1>7, <2>1, WriteLast
    <3>2. request # None
      BY <2>0, FilepageConstants
    <3>3. request[1] = m /\ request[2] = v
      BY <2>0
    <3>4. Found' = [x \in Name |-> IF x = m THEN v ELSE Fetch(file, Load(file), x)]
      BY <1>3, <1>4, <3>1
    <3>5. Found' = [Found EXCEPT ![m] = v]
      BY <1>1, <2>0, <3>4
    <3>6. request' = None
      BY <3>1 DEF Settled
    <3> QED BY <1>0, <3>2, <3>3, <3>5, <3>6 DEF Large!Commit
  <2>2. CASE Len(pending) # 1
    <3>1. Storing(m, v, a, lim)' /\ \A x : Fetch(file', Load(file'), x) = Fetch(file, Load(file), x)
      BY <1>0, <1>7, <2>2, WriteStoring
    <3>2. Found' = Found
      BY <1>1, <1>3, <1>4, <2>0, <3>1
    <3>3. request' = request
      BY <2>2 DEF Write
    <3> QED BY <1>0, <3>2, <3>3
  <2> QED BY <2>1, <2>2
<1> QED BY <1>0, <1>5, <1>6, <1>7 DEF PageInv

LEMMA PageRefines ==
    ASSUME PageInv, PageInv', [Next]_vars
    PROVE  [Large!Next]_<<Found, request, answer>>
<1>1. file' = file => Found' = Found
  BY DEF Found, HasHeader
<1>2. CASE Create
  <2>1. file' = file /\ request' = request /\ answer' = None
    BY <1>2 DEF Create
  <2>2. Large!Forget
    BY <1>1, <2>1 DEF Large!Forget
  <2> QED BY <2>2 DEF Large!Next
<1>3. CASE Open
  <2>1. file' = file /\ request' = request /\ answer' = None
    BY <1>3 DEF Open, disk
  <2>2. Large!Forget
    BY <1>1, <2>1 DEF Large!Forget
  <2> QED BY <2>2 DEF Large!Next
<1>4. ASSUME NEW n \in Name, NEW v \in Value, StoreItem(n, v) PROVE Large!Next
  <2>1. file' = file /\ request' = <<n, v>> /\ answer' = None /\ page = "open" /\ pending = <<>>
    BY <1>4 DEF StoreItem, disk
  <2>2. request = None
    BY <2>1, IdleSettled DEF Settled
  <2>3. Large!Request(n, v)
    BY <1>1, <2>1, <2>2 DEF Large!Request
  <2> QED BY <2>3 DEF Large!Next
<1>5. CASE Write
  BY <1>5, WriteRefines DEF Large!Next
<1>6. ASSUME NEW n \in Name, RetrieveItem(n) PROVE Large!Next
  <2>1. /\ file' = file /\ request' = request /\ page # "closed" /\ pending = <<>>
        /\ answer' = <<n, Fetch(file, members.contents, n)>>
    BY <1>6 DEF RetrieveItem, disk
  <2>2. request = None /\ Fetch(file, members.contents, n) = Found[n]
    <3>1. CASE page = "open"
      <4>1. Settled
        BY <2>1, <3>1, IdleSettled
      <4>2. members.contents = Load(file) /\ request = None
        BY <4>1, SettledFacts DEF Settled
      <4>3. HasHeader
        BY <4>1 DEF Settled, FileOK, Headed, HasHeader, Read
      <4> QED BY <4>2, <4>3, FoundIs
    <3>2. CASE page = "broken"
      <4>1. file = <<>> /\ members.contents = {} /\ request = None
        BY <3>2 DEF PageInv, NoMembers, Members
      <4>2. ~HasHeader
        BY <4>1, FileTaken DEF FileOK, Headed
      <4>3. Fetch(file, members.contents, n) = None
        BY <4>1, FetchNone
      <4> QED BY <4>1, <4>2, <4>3, FoundIs
    <3> QED BY <2>1, <3>1, <3>2 DEF PageInv, PageType
  <2>3. Large!Retrieve(n)
    BY <1>1, <2>1, <2>2 DEF Large!Retrieve
  <2> QED BY <2>3 DEF Large!Next
<1>7. CASE Exit
  <2>1. file' = file /\ request' = None /\ answer' = None
    BY <1>7 DEF Exit, disk
  <2>2. CASE request = None
    BY <1>1, <2>1, <2>2 DEF Large!Forget, Large!Next
  <2>3. CASE request # None
    BY <1>1, <2>1, <2>3 DEF Large!Lose, Large!Next
  <2> QED BY <2>2, <2>3
<1>8. CASE UNCHANGED vars
  BY <1>1, <1>8 DEF vars, disk
<1> QED BY <1>2, <1>3, <1>4, <1>5, <1>6, <1>7, <1>8 DEF Next

\* A page is a map whose stores are atomic: a store takes effect as a whole with the
\* last header it writes, or not at all when the process dies before; growth, reopening
\* and death lose and mix up nothing; retrieveItem returns what the map holds.
THEOREM PageImplements == Room /\ Spec => ImplementsLargeStore
<1>1. Init => Large!Init
  <2> SUFFICES ASSUME Init PROVE Large!Init
    OBVIOUS
  <2>1. ~HasHeader
    <3>1. 0 \notin DOMAIN file
      BY DEF Init
    <3> QED BY <3>1 DEF HasHeader, Read, Zero
  <2> QED BY <2>1, FoundIs DEF Init, Large!Init
<1>2. PageInv /\ PageInv' /\ [Next]_vars => [Large!Next]_<<Found, request, answer>>
  BY PageRefines
<1> QED BY <1>1, <1>2, PageSafe, PTL DEF Spec, ImplementsLargeStore, Large!Spec

-----------------------------------------------------------------------------
(* The limit of a page, without the hypothesis of room. *)

NotFull(c) == c.kind = "header" => c.firstFree \in Nat /\ c.full = FALSE

NotFullInv ==
    /\ members.firstFree \in Nat /\ members.full = FALSE
    /\ \A a \in DOMAIN file : NotFull(file[a])
    /\ \E S : pending \in Seq(S) /\ \A w \in S : NotFull(w[2])

LEMMA NotFullStore ==
    ASSUME NotFullInv, NEW m, NEW v \in Value, StoreItem(m, v)
    PROVE  NotFullInv'
<1> DEFINE place == IF NeedsBlock THEN GrowPage ELSE Stay
           free == Wrap(place.free + Size[v])
           x == <<place.index + (members.elements % Grow), Item(m, v, place.free)>>
           D == [k \in 1..Size[v] |-> <<place.free + k - 1, Data(v, k)>>]
           y == <<0, Header(members.elements + 1, free, FALSE)>>
           P == place.writes
<1>0. members.firstFree \in Nat /\ members.full = FALSE /\ Size[v] \in Nat /\ Grow \in Nat
  BY FilepageConstants DEF NotFullInv
<1>1. place.free \in Nat
  <2>1. members.firstFree + Grow \in Nat
    BY <1>0
  <2>2. Wrap(members.firstFree + Grow) + 1 \in Nat
    BY <2>1, WrapFacts
  <2>3. GrowPage.free \in Nat
    BY <2>2, WrapFacts DEF GrowPage
  <2>4. Stay.free \in Nat
    BY <1>0 DEF Stay
  <2> QED BY <2>3, <2>4
<1>2. \E S : P \in Seq(S) /\ \A w \in S : NotFull(w[2])
  <2>1. CASE NeedsBlock
    <3> DEFINE w1 == <<Wrap(members.firstFree + Grow), Pointer(NextEmpty)>>
               w2 == <<members.lastIndex + Grow, Pointer(members.firstFree)>>
               w3 == <<members.lastIndex + Grow + 1 + Wrap(GrowPage.free + ItemSize * Grow), Zero>>
               w4 == <<0, Header(members.elements, GrowPage.free, members.full)>>
    <3>1. P = <<w1, w2, w3, w4>>
      BY <2>1 DEF GrowPage
    <3>2. GrowPage.free \in Nat
      BY <1>1, <2>1
    <3>3. NotFull(w1[2]) /\ NotFull(w2[2]) /\ NotFull(w3[2])
      BY DEF NotFull, Pointer, Zero
    <3>4. NotFull(w4[2])
      BY <1>0, <3>2 DEF NotFull, Header
    <3> HIDE DEF w1, w2, w3, w4, P
    <3>5. P \in Seq({w1, w2, w3, w4})
      BY <3>1
    <3> QED BY <3>3, <3>4, <3>5
  <2>2. CASE ~NeedsBlock
    <3>1. P = <<>>
      BY <2>2 DEF Stay
    <3>2. <<>> \in Seq({})
      OBVIOUS
    <3> DEFINE T == {}
    <3>3. P \in Seq(T) /\ \A w \in T : NotFull(w[2])
      BY <3>1, <3>2
    <3> HIDE DEF T, P
    <3> QED BY <3>3
  <2> QED BY <2>1, <2>2
<1>3. free \in Nat /\ ShouldClose(free) = FALSE
  <2>1. place.free + Size[v] \in Nat
    BY <1>0, <1>1
  <2> HIDE DEF place
  <2> QED BY <2>1, WrapFacts
<1>4. (members.full \/ ShouldClose(free)) = FALSE
  BY <1>0, <1>3
<1>5. /\ pending' = Queue(P, x, D, <<0, Header(members.elements + 1, free, members.full \/ ShouldClose(free))>>)
      /\ members' = Members(members.elements + 1, free, place.index, members.full \/ ShouldClose(free),
                            {c \in members.contents : c.name # m} \cup {Item(m, v, place.free)})
      /\ file' = file
  BY DEF StoreItem, Queue, disk
<1>6. NotFull(x[2]) /\ NotFull(y[2]) /\ \A k \in 1..Size[v] : NotFull(D[k][2])
  <2>1. NotFull(x[2])
    BY DEF NotFull, Item
  <2>2. NotFull(y[2])
    BY <1>3 DEF NotFull, Header
  <2>3. \A k \in 1..Size[v] : NotFull(D[k][2])
    BY DEF NotFull, Data
  <2> QED BY <2>1, <2>2, <2>3
<1>7. D \in [1..Size[v] -> {D[k] : k \in 1..Size[v]}]
  OBVIOUS
<1> HIDE DEF place, free, x, D, P
<1>8. pending' = Queue(P, x, D, y)
  BY <1>4, <1>5
<1> HIDE DEF y
<1>9. PICK S : P \in Seq(S) /\ \A w \in S : NotFull(w[2])
  BY <1>2
<1> DEFINE T == S \cup {x, y} \cup {D[k] : k \in 1..Size[v]}
<1>10. \A w \in T : NotFull(w[2])
  BY <1>6, <1>9
<1>11. x \in T /\ y \in T /\ D \in [1..Size[v] -> T]
  BY <1>7
<1>a. S \subseteq T
  OBVIOUS
<1> HIDE DEF T
<1>12. P \in Seq(T)
  BY <1>9, <1>a
<1>13. Queue(P, x, D, y) \in Seq(T)
  BY <1>0, <1>11, <1>12, StoreSeq
<1>14. members'.firstFree \in Nat /\ members'.full = FALSE
  BY <1>3, <1>4, <1>5 DEF Members
<1> QED BY <1>5, <1>8, <1>10, <1>13, <1>14 DEF NotFullInv

LEMMA NotFullStep == ASSUME NotFullInv, [Next]_vars PROVE NotFullInv'
<1>0. /\ members.firstFree \in Nat /\ members.full = FALSE
      /\ \A a \in DOMAIN file : NotFull(file[a])
  BY DEF NotFullInv
<1>1. PICK S : pending \in Seq(S) /\ \A w \in S : NotFull(w[2])
  BY DEF NotFullInv
<1>2. CASE Create
  <2> DEFINE free == IndexStart + Grow + 1
             w1 == <<0, Header(0, free, FALSE)>>
             w2 == <<IndexStart + Grow, Pointer(NextEmpty)>>
             w3 == <<free + ItemSize * Grow, Zero>>
  <2>1. pending' = <<w1, w2, w3>> /\ file' = file /\ members' = Members(0, free, IndexStart, FALSE, {})
    BY <1>2 DEF Create
  <2>2. free \in Nat
    BY FilepageConstants DEF IndexStart
  <2>3. NotFull(w1[2])
    BY <2>2 DEF NotFull, Header
  <2>4. NotFull(w2[2]) /\ NotFull(w3[2])
    BY DEF NotFull, Pointer, Zero
  <2> HIDE DEF w1, w2, w3, free
  <2>5. <<w1, w2, w3>> \in Seq({w1, w2, w3})
    OBVIOUS
  <2>6. members'.firstFree \in Nat /\ members'.full = FALSE
    BY <2>1, <2>2 DEF Members
  <2>7. \E T : pending' \in Seq(T) /\ \A w \in T : NotFull(w[2])
    <3> DEFINE T == {w1, w2, w3}
    <3>1. pending' \in Seq(T) /\ \A w \in T : NotFull(w[2])
      BY <2>1, <2>3, <2>4, <2>5
    <3> HIDE DEF T
    <3> QED BY <3>1
  <2> QED BY <1>0, <2>1, <2>6, <2>7 DEF NotFullInv
<1>3. CASE Open
  <2>1. file' = file /\ pending' = pending
    BY <1>3 DEF Open, disk
  <2>2. CASE Read(file, 0).kind = "header"
    <3>1. members' = Opened(file)
      BY <1>3, <2>2 DEF Open
    <3>2. NotFull(Read(file, 0)) /\ 0 \in DOMAIN file
      BY <1>0, <2>2 DEF Read, Zero
    <3>3. file[0].firstFree \in Nat /\ file[0].full = FALSE
      BY <2>2, <3>2 DEF NotFull, Read
    <3>4. members'.firstFree \in Nat /\ members'.full = FALSE
      BY <3>1, <3>3 DEF Opened, Members
    <3> QED BY <1>0, <1>1, <2>1, <3>4 DEF NotFullInv
  <2>3. CASE Read(file, 0).kind # "header"
    <3>1. members' = members
      BY <1>3, <2>3 DEF Open
    <3> QED BY <1>0, <1>1, <2>1, <3>1 DEF NotFullInv
  <2> QED BY <2>2, <2>3
<1>4. ASSUME NEW n \in Name, NEW v \in Value, StoreItem(n, v) PROVE NotFullInv'
  BY <1>4, NotFullStore
<1>5. CASE Write
  <2>1. Head(pending) \in S /\ Tail(pending) \in Seq(S)
    BY <1>1, <1>5 DEF Write
  <2>2. pending' = Tail(pending) /\ members' = members
    BY <1>5 DEF Write
  <2>3. \A a \in DOMAIN file' : NotFull(file'[a])
    <3> DEFINE w == Head(pending)
    <3>1. file' = [a \in DOMAIN file \cup {w[1]} |-> IF a = w[1] THEN w[2] ELSE file[a]]
      BY <1>5 DEF Write
    <3>2. NotFull(w[2])
      BY <1>1, <2>1
    <3> HIDE DEF w
    <3> QED BY <1>0, <3>1, <3>2
  <2> QED BY <1>0, <1>1, <2>1, <2>2, <2>3 DEF NotFullInv
<1>6. ASSUME NEW n \in Name, RetrieveItem(n) PROVE NotFullInv'
  BY <1>0, <1>1, <1>6 DEF RetrieveItem, disk, NotFullInv
<1>7. CASE Exit
  <2>1. members' = NoMembers /\ pending' = <<>> /\ file' = file
    BY <1>7 DEF Exit, disk
  <2>2. <<>> \in Seq({})
    OBVIOUS
  <2>3. members'.firstFree \in Nat /\ members'.full = FALSE
    BY <2>1 DEF NoMembers, Members
  <2>4. \E T : pending' \in Seq(T) /\ \A w \in T : NotFull(w[2])
    BY <2>1, <2>2
  <2> QED BY <1>0, <2>1, <2>3, <2>4 DEF NotFullInv
<1>8. CASE UNCHANGED vars
  BY <1>0, <1>1, <1>8 DEF vars, disk, NotFullInv
<1> QED BY <1>2, <1>3, <1>4, <1>5, <1>6, <1>7, <1>8 DEF Next

\* Whatever the width of an offset and however much is stored, a page is never marked
\* full: the sum that shouldClose compares with UINT_MAX is unsigned and never exceeds
\* it.  The growth of a page is not stopped at the limit that Room keeps away from.
THEOREM PageNeverFull == Spec => [](members.full = FALSE)
<1>1. Init => NotFullInv
  <2> SUFFICES ASSUME Init PROVE NotFullInv
    OBVIOUS
  <2>1. members = NoMembers /\ file = <<>> /\ pending = <<>>
    BY DEF Init
  <2>2. members.firstFree \in Nat /\ members.full = FALSE
    BY <2>1 DEF NoMembers, Members
  <2>3. <<>> \in Seq({}) /\ DOMAIN file = {}
    BY <2>1
  <2> QED BY <2>1, <2>2, <2>3 DEF NotFullInv
<1>2. NotFullInv /\ [Next]_vars => NotFullInv'
  BY NotFullStep
<1>3. NotFullInv => members.full = FALSE
  BY DEF NotFullInv
<1> QED BY <1>1, <1>2, <1>3, PTL DEF Spec
=============================================================================
