------------------------------ MODULE Filepage ------------------------------
(***************************************************************************)
(* A page of cynder's large file store (src/cynder/filepage.cpp): a header, *)
(* index blocks of Grow items chained by pointers, and the data of the     *)
(* items, all in one file.                                                 *)
(*                                                                         *)
(* The unit is a cell: the header, an index item and a pointer take one    *)
(* cell each, a value takes Size[v] cells.  What an operation writes goes  *)
(* through `pending`, cell by cell and in the order of the code: stdio     *)
(* hands its buffer on at every fseek, so the death of the process cuts    *)
(* the sequence anywhere.  Names are the 36 characters of a QUID, as       *)
(* DataIndex::put makes sure, so name[36] holds them exactly.              *)
(***************************************************************************)
EXTENDS Integers, Sequences

CONSTANTS
    Name, Value, None,
    Size,       \* cells of a value
    Grow,       \* m_Grow: items of an index block, 16 in the code
    ItemSize,   \* m_ItemSize: the cells of 8 MiB
    Word,       \* UINT_MAX + 1: offsets are unsigned int
    MaxItems,   \* bound: items stored
    MaxOpens    \* bound: processes that open the page

\* `m_Elements > 1` guards the growth of a page, so a block holds 2 or more.
ASSUME FilepageConstants ==
    /\ Size \in [Value -> Nat \ {0}]
    /\ Grow \in Nat \ {0, 1}
    /\ ItemSize \in Nat \ {0}
    /\ Word \in Nat \ {0} /\ {MaxItems, MaxOpens} \subseteq Nat
    /\ None \notin Name \X Value

VARIABLES
    file,       \* the cells on disk that were ever written
    exists,     \* file_exist
    pending,    \* writes not yet made, as <<position, cell>>
    page,       \* "closed", "open", or "broken": opened without its magic
    members,    \* the members m_... of the object
    request, answer, opens

disk == <<file, exists>>
vars == <<disk, members, pending, page, request, answer, opens>>

IndexStart == 1     \* sizeof(pageHeader)
Wrap(a) == a % Word

Zero == [kind |-> "zero", to |-> 0]     \* zeros are a pointer to 0, too
Header(e, f, b) == [kind |-> "header", elements |-> e, firstFree |-> f, full |-> b]
Item(n, v, a) == [kind |-> "item", name |-> n, size |-> Size[v], item |-> a]
Pointer(a) == [kind |-> "next", to |-> a]
Data(v, k) == [kind |-> "data", value |-> v, part |-> k]

\* fread at a position; what was never written reads as zeros.
Read(f, a) == IF a \in DOMAIN f THEN f[a] ELSE Zero

-----------------------------------------------------------------------------
\* The walk over the index blocks of open(): Block(f)[k] is the k-th block.
Block(f) ==
    LET b[k \in Nat] == IF k = 0 THEN IndexStart ELSE Read(f, b[k - 1] + Grow).to
    IN  b

\* The loop of open().  The last item of a name wins, as each one overwrites
\* contents[name]; contents is the set of index items that are in it.
Load(f) ==
    LET walk == Block(f)
        read == {<<i, Read(f, walk[i \div Grow] + (i % Grow))>> : i \in 0..(f[0].elements - 1)}
    IN  {p[2] : p \in {q \in read : \A r \in read : r[2].name = q[2].name => r[1] <= q[1]}}

\* retrieveItem: the value in the cells that the item of a name points to.
Fetch(f, c, n) ==
    LET holds(e, v) ==
            /\ e.size = Size[v]
            /\ \A k \in 1..Size[v] : Read(f, e.item + k - 1) = Data(v, k)
        values == UNION {{v \in Value : holds(e, v)} : e \in {e \in c : e.name = n}}
    IN  IF \A e \in c : e.name # n THEN None
        ELSE IF values = {} THEN "garbage" ELSE CHOOSE v \in values : TRUE

-----------------------------------------------------------------------------
\* m_Elements, m_FirstFree, m_LastIndex, m_pageFull and contents.
Members(e, f, l, b, c) ==
    [elements |-> e, firstFree |-> f, lastIndex |-> l, full |-> b, contents |-> c]

NoMembers == Members(0, 0, 0, FALSE, {})     \* before a page is opened

Init ==
    /\ file = <<>> /\ exists = FALSE /\ pending = <<>>
    /\ page = "closed" /\ members = NoMembers
    /\ request = None /\ answer = None /\ opens = 0

NextEmpty == 0      \* INDEX_NEXT_EMPTY, which nothing compares with

\* Filepage() without a file, and create().
Create ==
    LET free == IndexStart + Grow + 1
    IN  /\ page = "closed" /\ ~exists /\ opens < MaxOpens
        /\ exists' = TRUE /\ page' = "open" /\ opens' = opens + 1
        /\ pending' = << <<0, Header(0, free, FALSE)>>,
                         <<IndexStart + Grow, Pointer(NextEmpty)>>,
                         <<free + ItemSize * Grow, Zero>> >>
        /\ members' = Members(0, free, IndexStart, FALSE, {})
        /\ answer' = None
        /\ UNCHANGED <<file, request>>

\* Mutant: the block after the last item that was read.
LastBlockNext(f) == Block(f)[f[0].elements \div Grow]

\* Where open() leaves m_LastIndex: at the block of the last item it read.
LastBlock(f) ==
    Block(f)[IF f[0].elements = 0 THEN 0 ELSE (f[0].elements - 1) \div Grow]

\* The members open() reads from the file.
Opened(f) ==
    Members(f[0].elements, f[0].firstFree, LastBlock(f), f[0].full, Load(f))

\* Filepage() on an existing file, and open().
Open ==
    /\ page = "closed" /\ exists /\ opens < MaxOpens
    /\ opens' = opens + 1
    /\ IF Read(file, 0).kind = "header"
       THEN /\ page' = "open"
            /\ members' = Opened(file)
       ELSE /\ page' = "broken"
            /\ UNCHANGED members
    /\ answer' = None
    /\ UNCHANGED <<disk, pending, request>>

\* Mutant: the pointer at the end of the block is not counted.
GrowPageShort ==
    LET index == members.firstFree
        link == members.lastIndex + Grow
        free == Wrap(index + Grow)
    IN  [index |-> index,
         free |-> free,
         writes |-> << <<Wrap(index + Grow), Pointer(NextEmpty)>>,
                       <<link, Pointer(index)>>,
                       <<link + 1 + Wrap(free + ItemSize * Grow), Zero>>,
                       <<0, Header(members.elements, free, members.full)>> >>]

\* growPage: the block it adds, what it writes, and m_FirstFree after it.
GrowPage ==
    LET index == members.firstFree
        link == members.lastIndex + Grow
        free == Wrap(Wrap(index + Grow) + 1)
    IN  [index |-> index,
         free |-> free,
         writes |-> << <<Wrap(index + Grow), Pointer(NextEmpty)>>,
                       <<link, Pointer(index)>>,
                       <<link + 1 + Wrap(free + ItemSize * Grow), Zero>>,
                       <<0, Header(members.elements, free, members.full)>> >>]

Stay == [index |-> members.lastIndex, free |-> members.firstFree, writes |-> <<>>]

NeedsBlock == members.elements % Grow = 0 /\ members.elements > 1

\* shouldClose: the sum is unsigned too.
ShouldClose(free) == Wrap(free + ItemSize) > Word - 1

\* Mutant: the header is written before the data.
StoreHeaderFirst(n, v) ==
    LET place == IF NeedsBlock THEN GrowPage ELSE Stay
        entry == Item(n, v, place.free)
        free == Wrap(place.free + Size[v])
        full == members.full \/ ShouldClose(free)
        contents == {c \in members.contents : c.name # n} \cup {entry}
    IN  /\ page = "open" /\ pending = <<>> /\ members.elements < MaxItems
        /\ request' = <<n, v>>
        /\ pending' = place.writes
              \o << <<place.index + (members.elements % Grow), entry>>,
                    <<0, Header(members.elements + 1, free, full)>> >>
              \o [k \in 1..Size[v] |-> <<place.free + k - 1, Data(v, k)>>]
        /\ members' = Members(members.elements + 1, free, place.index, full, contents)
        /\ answer' = None
        /\ UNCHANGED <<disk, page, opens>>

\* storeItem: the index item, the data, then the header.  On a broken page it
\* divides by m_Grow, which nothing has set: in zeroed memory the process dies
\* (Exit), and other contents of that memory are left out.
StoreItem(n, v) ==
    LET place == IF NeedsBlock THEN GrowPage ELSE Stay
        entry == Item(n, v, place.free)
        free == Wrap(place.free + Size[v])
        full == members.full \/ ShouldClose(free)
        contents == {c \in members.contents : c.name # n} \cup {entry}
    IN  /\ page = "open" /\ pending = <<>> /\ members.elements < MaxItems
        /\ request' = <<n, v>>
        /\ pending' = place.writes
              \o << <<place.index + (members.elements % Grow), entry>> >>
              \o [k \in 1..Size[v] |-> <<place.free + k - 1, Data(v, k)>>]
              \o << <<0, Header(members.elements + 1, free, full)>> >>
        /\ members' = Members(members.elements + 1, free, place.index, full, contents)
        /\ answer' = None
        /\ UNCHANGED <<disk, page, opens>>

\* One cell reaches the file; the operation ends with the last one.
Write ==
    LET w == Head(pending)
    IN  /\ pending # <<>>
        /\ file' = [a \in DOMAIN file \cup {w[1]} |-> IF a = w[1] THEN w[2] ELSE file[a]]
        /\ pending' = Tail(pending)
        /\ request' = IF Len(pending) = 1 THEN None ELSE request
        /\ UNCHANGED <<exists, members, page, answer, opens>>

RetrieveItem(n) ==
    /\ page # "closed" /\ pending = <<>>
    /\ answer' = <<n, Fetch(file, members.contents, n)>>
    /\ UNCHANGED <<disk, members, pending, page, request, opens>>

\* The process ends, killed or not: nothing closes the pages.
Exit ==
    /\ page # "closed"
    /\ page' = "closed" /\ members' = NoMembers
    /\ pending' = <<>> /\ request' = None
    /\ answer' = None
    /\ UNCHANGED <<disk, opens>>

Next ==
    \/ Create
    \/ Open
    \/ \E n \in Name, v \in Value : StoreItem(n, v)
    \/ Write
    \/ \E n \in Name : RetrieveItem(n)
    \/ Exit

Spec == Init /\ [][Next]_vars

-----------------------------------------------------------------------------
HasHeader == Read(file, 0).kind = "header"

\* Between operations a process that opened the page now would have exactly the
\* members of the process that wrote it: the header, the chain of index blocks
\* and the items on disk are those in memory (open against storeItem, growPage).
ReopenIsInvisible ==
    page = "open" /\ pending = <<>> => HasHeader /\ members = Opened(file)

\* Whatever a process wrote before it died, the index blocks and the items that
\* open() finds lie below the first free cell of the header, so that no later
\* store writes over them, and they do not touch each other.
LiveIsBelowFree ==
    HasHeader =>
        LET walk == Block(file)
            blocks == {walk[i \div Grow] : i \in 0..(file[0].elements - 1)}
            cellsOf(e) == e.item..(e.item + e.size - 1)
            free == file[0].firstFree
            c == Load(file)
        IN  /\ \A b \in blocks : b + Grow < free
            /\ \A e \in c :
                  /\ e.item + e.size <= free
                  /\ \A o \in c \ {e} : cellsOf(e) \cap cellsOf(o) = {}
                  /\ \A b \in blocks : cellsOf(e) \cap b..(b + Grow) = {}

\* The map that a process would find on disk.
Found ==
    LET c == IF HasHeader THEN Load(file) ELSE {}
    IN  [n \in Name |-> Fetch(file, c, n)]

Large == INSTANCE LargeStore WITH store <- Found

\* A page is a map: a store takes effect as a whole with the last header it
\* writes, or not at all when the process dies before; nothing that was stored
\* is lost or mixed up by growth, reopening or death, and retrieveItem returns
\* what the map holds.
ImplementsLargeStore == Large!Spec
=============================================================================
