---------------------------- MODULE CynderProofs ----------------------------
(***************************************************************************)
(* Proofs about Cynder: what a worker's files hold between requests, for   *)
(* any records, contents and meta, with deaths and database errors between *)
(* any two writes.                                                         *)
(***************************************************************************)
EXTENDS Cynder, SetLemmas, SequenceTheorems, TLAPS

-----------------------------------------------------------------------------
(* What traverseMeta visits. *)

\* What FlattenSeq computes: h[i] is the concatenation of the first i sequences.
\* It is a recursive function: its approximations up to m exist for every m, and
\* it agrees with them, both by the least counterexample.
FirstOnes(s, h) == \A i \in 1..Len(s) : h[i] = IF i = 1 THEN s[i] ELSE h[i - 1] \o s[i]

LEMMA FlattenIs ==
    ASSUME NEW S, NEW s \in Seq(Seq(S))
    PROVE  \E h \in [1..Len(s) -> Seq(S)] :
              FirstOnes(s, h) /\ FlattenSeq(s) = IF Len(s) = 0 THEN <<>> ELSE h[Len(s)]
<1> DEFINE n == Len(s)
           Good(f, m) == \A i \in 1..m : f[i] = IF i = 1 THEN s[i] ELSE f[i - 1] \o s[i]
           Built(m) == \E f \in [1..m -> Seq(S)] : Good(f, m)
           has == {m \in Nat : m <= n => Built(m)}
<1>1. n \in Nat /\ \A i \in 1..n : s[i] \in Seq(S)
  OBVIOUS
<1> HIDE DEF n
<1>2. 0 \in has
  <2>1. [i \in 1..0 |-> <<>>] \in [1..0 -> Seq(S)] /\ Good([i \in 1..0 |-> <<>>], 0)
    OBVIOUS
  <2> QED BY <2>1
<1>3. ASSUME NEW m \in has PROVE m + 1 \in has
  <2> HIDE DEF Built
  <2> SUFFICES ASSUME m + 1 <= n PROVE Built(m + 1)
    OBVIOUS
  <2>0. Built(m)
    BY <1>1
  <2> USE DEF Built
  <2>1. PICK f \in [1..m -> Seq(S)] : Good(f, m)
    BY <2>0
  <2> DEFINE x == IF m + 1 = 1 THEN s[m + 1] ELSE f[m] \o s[m + 1]
             g == [i \in 1..(m + 1) |-> IF i = m + 1 THEN x ELSE f[i]]
  <2>2. m \in Nat /\ s[m + 1] \in Seq(S)
    BY <1>1, <1>3
  <2>3. x \in Seq(S)
    BY <2>1, <2>2
  <2>4. g \in [1..(m + 1) -> Seq(S)]
    BY <2>1, <2>2, <2>3
  <2>5. Good(g, m + 1)
    <3> SUFFICES ASSUME NEW i \in 1..(m + 1) PROVE g[i] = IF i = 1 THEN s[i] ELSE g[i - 1] \o s[i]
      OBVIOUS
    <3>1. i # 1 => i - 1 \in 1..m /\ g[i - 1] = f[i - 1]
      BY <2>2
    <3>2. CASE i = m + 1
      BY <2>2, <3>1, <3>2
    <3>3. CASE i # m + 1
      <4>1. i \in 1..m /\ g[i] = f[i]
        BY <2>2, <3>3
      <4> QED BY <2>1, <3>1, <4>1
    <3> QED BY <3>2, <3>3
  <2> QED BY <2>4, <2>5
<1> HIDE DEF Built
<1>4. Built(n)
  <2> DEFINE not == Nat \ has
  <2> SUFFICES ASSUME not # {} PROVE FALSE
    BY <1>1
  <2> HIDE DEF has
  <2>1. PICK k \in not : \A y \in not : k <= y
    BY MinOfNats
  <2>2. k # 0 /\ k - 1 \in Nat /\ k - 1 \notin not
    BY <1>2, <2>1
  <2>3. k - 1 \in has
    BY <2>2
  <2>4. (k - 1) + 1 \in has
    BY <1>3, <2>3
  <2> QED BY <2>1, <2>4
<1>5. PICK h \in [1..n -> Seq(S)] : Good(h, n)
  BY <1>4 DEF Built
<1> DEFINE F(f) == [i \in 1..n |-> IF i = 1 THEN s[i] ELSE f[i - 1] \o s[i]]
<1>6. h = F(h)
  BY <1>5
<1> DEFINE flatten == CHOOSE f : f = F(f)
<1>7. flatten = F(flatten)
  BY <1>6
<1>8. FlattenSeq(s) = IF n = 0 THEN s ELSE flatten[n]
  BY DEF FlattenSeq, n
<1> HIDE DEF has, Good, flatten
<1>9. \A i \in 1..n : flatten[i] = h[i]
  <2> DEFINE bad == {i \in 1..n : flatten[i] # h[i]}
  <2> SUFFICES ASSUME bad # {} PROVE FALSE
    OBVIOUS
  <2>1. bad \in SUBSET Nat
    OBVIOUS
  <2>2. PICK k \in bad : \A y \in bad : k <= y
    BY <2>1, MinOfNats
  <2>3. k \in 1..n /\ flatten[k] # h[k]
    OBVIOUS
  <2>4. k # 1 => flatten[k - 1] = h[k - 1]
    <3>1. k # 1 => k - 1 \in 1..n /\ k - 1 \notin bad
      BY <1>1, <2>2, <2>3
    <3> QED BY <3>1
  <2>5. flatten[k] = IF k = 1 THEN s[k] ELSE flatten[k - 1] \o s[k]
    BY <1>7, <2>3
  <2>6. h[k] = IF k = 1 THEN s[k] ELSE h[k - 1] \o s[k]
    BY <1>6, <2>3
  <2> QED BY <2>3, <2>4, <2>5, <2>6
<1>10. n = 0 => s = <<>>
  BY DEF n
<1>11. n # 0 => n \in 1..n
  BY <1>1
<1>12. FlattenSeq(s) = IF n = 0 THEN <<>> ELSE h[n]
  BY <1>8, <1>9, <1>10, <1>11
<1>13. FirstOnes(s, h)
  BY <1>5 DEF FirstOnes, Good, n
<1> QED BY <1>5, <1>12, <1>13 DEF n

\* The result of flattening some sequences of S is one.
LEMMA FlattenType ==
    ASSUME NEW S, NEW s \in Seq(Seq(S))
    PROVE  FlattenSeq(s) \in Seq(S)
<1>1. PICK h \in [1..Len(s) -> Seq(S)] : FlattenSeq(s) = IF Len(s) = 0 THEN <<>> ELSE h[Len(s)]
  BY FlattenIs
<1>2. Len(s) # 0 => Len(s) \in 1..Len(s)
  OBVIOUS
<1> DEFINE n == Len(s)
<1> HIDE DEF n
<1>3. n # 0 => h[n] \in Seq(S)
  BY <1>1, <1>2 DEF n
<1>4. <<>> \in Seq(S)
  OBVIOUS
<1> QED BY <1>1, <1>3, <1>4 DEF n

\* It has the elements of all of them, and no others.
LEMMA FlattenRange ==
    ASSUME NEW S, NEW s \in Seq(Seq(S)), NEW x
    PROVE  x \in Range(FlattenSeq(s)) <=> \E i \in 1..Len(s) : x \in Range(s[i])
<1> DEFINE n == Len(s)
<1>1. PICK h \in [1..n -> Seq(S)] :
          FirstOnes(s, h) /\ FlattenSeq(s) = IF n = 0 THEN <<>> ELSE h[n]
  BY FlattenIs
<1>2. n \in Nat /\ \A i \in 1..n : s[i] \in Seq(S)
  OBVIOUS
<1>3. \A i \in 1..n : h[i] = IF i = 1 THEN s[i] ELSE h[i - 1] \o s[i]
  BY <1>1 DEF FirstOnes
<1> HIDE DEF n
<1> DEFINE Has(m) == x \in Range(h[m]) <=> \E i \in 1..m : x \in Range(s[i])
           good == {m \in Nat : m \in 1..n => Has(m)}
<1>4. 0 \in good
  BY <1>2
<1>5. ASSUME NEW m \in Nat, m \in good PROVE m + 1 \in good
  <2> SUFFICES ASSUME m + 1 \in 1..n PROVE Has(m + 1)
    OBVIOUS
  <2>1. CASE m = 0
    <3>1. 1 \in 1..n /\ m + 1 = 1 /\ 1..1 = {1}
      BY <2>1
    <3>2. h[1] = s[1]
      BY <1>3, <3>1
    <3> QED BY <3>1, <3>2
  <2>2. CASE m # 0
    <3>a. m \in 1..n /\ m + 1 # 1 /\ (m + 1) - 1 = m
      BY <1>2, <2>2
    <3>b. h[m + 1] = h[m] \o s[m + 1]
      BY <1>3, <3>a
    <3>1. m \in 1..n /\ h[m + 1] = h[m] \o s[m + 1] /\ h[m] \in Seq(S) /\ s[m + 1] \in Seq(S)
      BY <1>1, <1>2, <3>a, <3>b
    <3>2. Range(h[m + 1]) = Range(h[m]) \cup Range(s[m + 1])
      BY <3>1, RangeConcatenation
    <3>3. Has(m)
      BY <1>5, <3>1
    <3>4. 1..(m + 1) = 1..m \cup {m + 1}
      OBVIOUS
    <3> HIDE DEF good
    <3> QED BY <3>2, <3>3, <3>4
  <2> QED BY <2>1, <2>2
<1> HIDE DEF good
<1>6. \A m \in Nat : m \in good
  BY <1>4, <1>5, AllNats
<1>7. CASE n = 0
  <2>1. FlattenSeq(s) = <<>> /\ 1..n = {}
    BY <1>1, <1>7
  <2>2. Range(<<>>) = {}
    BY DEF Range
  <2> QED BY <2>1, <2>2 DEF n
<1>8. CASE n # 0
  <2>1. n \in 1..n
    BY <1>2, <1>8
  <2>2. Has(n)
    BY <1>2, <1>6, <2>1 DEF good
  <2> QED BY <1>1, <1>8, <2>2 DEF n
<1> QED BY <1>7, <1>8

\* An entry of the leaves of a record is one of its meta, from either side.
LEMMA LeavesType ==
    ASSUME NEW q \in Quid, NEW from \in {"client", "master"}
    PROVE  /\ Leaves(q, from) \in Seq(Entry)
           /\ \A e \in Range(Leaves(q, from)) :
                  e \in Entry /\ lower[e.key] \in STRING /\ e.value \in Term
<1> DEFINE meta == Meta[q]
           copy == CopyMeta(meta)
<1>1. meta \in Seq(Seq(Entry) \ {<<>>}) /\ meta \in Seq(Seq(Entry))
  BY CynderConstants
<1>2. Len(meta) \in Nat /\ DOMAIN meta = 1..Len(meta)
  BY <1>1
<1>3. \A i \in 1..Len(meta) : meta[i] \in Seq(Entry) /\ meta[i] # <<>>
  BY <1>1
<1>4. \A g \in Seq(Entry) : g # <<>> => Last(g) \in Entry /\ Last(g) \in Range(g)
  BY DEF Last, Range
<1> HIDE DEF meta
<1>5. /\ copy \in Seq(Seq(Entry)) /\ Len(copy) = Len(meta)
      /\ \A i \in 1..Len(meta) : copy[i] = <<Last(meta[i])>>
  <2>1. \A i \in 1..Len(meta) : <<Last(meta[i])>> \in Seq(Entry)
    BY <1>3, <1>4
  <2>2. copy = [i \in 1..Len(meta) |-> <<Last(meta[i])>>]
    BY <1>2 DEF CopyMeta
  <2> HIDE DEF copy
  <2> QED BY <1>2, <2>1, <2>2
<1> HIDE DEF copy
<1>6. Leaves(q, from) = FlattenSeq(IF from = "master" THEN copy ELSE meta)
  BY DEF Leaves, copy, meta
<1>7. Leaves(q, from) \in Seq(Entry) /\ FlattenSeq(meta) \in Seq(Entry)
  BY <1>1, <1>5, <1>6, FlattenType
<1>8. ASSUME NEW e \in Range(FlattenSeq(copy)) PROVE e \in Range(FlattenSeq(meta))
  <2>1. PICK i \in 1..Len(meta) : e \in Range(copy[i])
    BY <1>5, <1>8, FlattenRange
  <2>2. Range(<<Last(meta[i])>>) = {Last(meta[i])}
    BY DEF Range
  <2>3. e \in Range(meta[i])
    BY <1>3, <1>4, <1>5, <2>1, <2>2
  <2> QED BY <1>1, <2>3, FlattenRange
<1>9. Range(Leaves(q, from)) \subseteq Range(FlattenSeq(meta))
  BY <1>6, <1>8
<1>10. \A e \in Range(FlattenSeq(meta)) : e \in Entry /\ lower[e.key] \in STRING /\ e.value \in Term
  <2>1. Range(FlattenSeq(meta)) \subseteq Entry
    BY <1>7, RangeOfSeq
  <2>2. Range(FlattenSeq(meta)) \subseteq Entries
    BY DEF Entries, meta
  <2>3. \A e \in Entries : lower[e.key] \in STRING /\ e.value \in Term
    BY CynderConstants DEF Term
  <2> QED BY <2>1, <2>2, <2>3
<1> QED BY <1>7, <1>9, <1>10

\* A write to one of the additional indexes.
IndexStep == {"uki", "fti"} \X STRING

LEMMA IndexStepsType ==
    ASSUME NEW r, r.quid \in Quid, r.from \in {"client", "master"}
    PROVE  IndexSteps(r) \in Seq(IndexStep)
<1> DEFINE leaves == Leaves(r.quid, r.from)
           steps == [i \in DOMAIN leaves |->
                       IF lower[leaves[i].key] \in Keyword
                       THEN << <<"uki", lower[leaves[i].key]>>, <<"fti", leaves[i].value>> >> ELSE <<>>]
<1>1. leaves \in Seq(Entry) /\ \A e \in Range(leaves) : lower[e.key] \in STRING
  BY LeavesType
<1> HIDE DEF leaves
<1>2. /\ Len(leaves) \in Nat /\ DOMAIN leaves = 1..Len(leaves)
      /\ \A i \in 1..Len(leaves) : leaves[i] \in Entry /\ lower[leaves[i].key] \in STRING
  BY <1>1 DEF Range
<1>3. \A e \in Entry, k \in STRING : << <<"uki", k>>, <<"fti", e.value>> >> \in Seq(IndexStep)
  BY DEF Entry, IndexStep
<1>4. ASSUME NEW i \in 1..Len(leaves) PROVE steps[i] \in Seq(IndexStep)
  <2>1. << <<"uki", lower[leaves[i].key]>>, <<"fti", leaves[i].value>> >> \in Seq(IndexStep)
    BY <1>2, <1>3
  <2>2. <<>> \in Seq(IndexStep)
    OBVIOUS
  <2> QED BY <1>2, <2>1, <2>2
<1>5. steps \in Seq(Seq(IndexStep))
  BY <1>2, <1>4
<1>6. IndexSteps(r) = FlattenSeq(steps)
  BY DEF IndexSteps, leaves
<1> QED BY <1>5, <1>6, FlattenType

\* How far a request that writes has come, by what is left of it.
AtIndex(t) == t \in Seq(IndexStep)
AtRecord(t) == t # <<>> /\ Head(t) = <<"ari">> /\ AtIndex(Tail(t))
AtData(t) == t # <<>> /\ Head(t) = <<"adi">> /\ AtRecord(Tail(t))
AtLarge(t) == t # <<>> /\ Head(t) = <<"lfb">> /\ AtData(Tail(t))

LEMMA HeadTail ==
    ASSUME NEW S, NEW s \in Seq(S), NEW x
    PROVE  <<x>> \o s # <<>> /\ Head(<<x>> \o s) = x /\ Tail(<<x>> \o s) = s
  OBVIOUS

LEMMA RequestFields ==
    ASSUME NEW r \in Requests \cup FromMaster
    PROVE  /\ r.action \in {"INSERT", "UPDATE", "DELETE", "SELECT", "SEARCH"}
           /\ r.action # "SEARCH" => r.quid \in Quid
           /\ r.action \in {"INSERT", "UPDATE"} => r.content \in Content
           /\ r.from \in {"client", "master"} /\ r.form \in Form
           /\ r # None
  BY RequestConstants DEF Requests, FromMaster, Form

\* A write that no put carries out.
Dropping(r) == r.action \in {"INSERT", "UPDATE"} /\ r.form = "malformed"

LEMMA StepsStage ==
    ASSUME NEW r \in Requests \cup FromMaster
    PROVE  /\ Dropping(r) => Steps(r) = <<>>
           /\ r.action \in {"INSERT", "UPDATE"} /\ ~Dropping(r) =>
                  IF r.content \in Large THEN AtLarge(Steps(r)) ELSE AtData(Steps(r))
           /\ r.action = "DELETE" => AtData(Steps(r))
           /\ ~Writes(r) => Steps(r) = << <<"read">> >>
<1>0. CASE Dropping(r)
  BY <1>0 DEF Dropping, Steps, StoreSteps, Writes
<1>1. CASE r.action \in {"INSERT", "UPDATE"} /\ ~Dropping(r)
  <2> DEFINE s == IndexSteps(r)
             A == <<"adi">>
             B == <<"ari">>
             C == <<"lfb">>
  <2>1. s \in Seq(IndexStep)
    BY <1>1, RequestFields, IndexStepsType
  <2> HIDE DEF s, A, B, C
  <2> DEFINE T == IndexStep \cup {A, B, C}
  <2>a. s \in Seq(T) /\ <<A>> \in Seq(T) /\ <<B>> \in Seq(T) /\ <<C>> \in Seq(T) /\ <<A, B>> \in Seq(T)
    BY <2>1
  <2> HIDE DEF T
  <2>b. <<B>> \o s \in Seq(T) /\ <<A>> \o (<<B>> \o s) \in Seq(T)
    BY <2>a
  <2>c. <<A, B>> = <<A>> \o <<B>>
    <3>1. Len(<<A, B>>) = 2 /\ Len(<<A>> \o <<B>>) = 2
      BY <2>a, ConcatProperties
    <3>2. (<<A>> \o <<B>>)[1] = A /\ (<<A>> \o <<B>>)[2] = B
      BY <2>a, ConcatProperties
    <3> DEFINE u == <<A, B>>
               v == <<A>> \o <<B>>
    <3>3. u[1] = A /\ u[2] = B /\ u \in Seq(T) /\ v \in Seq(T)
      BY <2>a, ConcatProperties
    <3> HIDE DEF u, v
    <3>4. \A i \in 1..Len(u) : u[i] = v[i]
      <4>1. 1..2 = {1, 2}
        OBVIOUS
      <4>2. Len(u) = 2 /\ v[1] = A /\ v[2] = B
        BY <3>1, <3>2 DEF u, v
      <4> QED BY <3>3, <4>1, <4>2
    <3>5. Len(u) = Len(v)
      BY <3>1 DEF u, v
    <3>6. u = v
      BY <3>3, <3>4, <3>5, SeqEqual
    <3> QED BY <3>6 DEF u, v
  <2>d. <<A, B>> \o s = <<A>> \o (<<B>> \o s)
    BY <2>a, <2>c, ConcatAssociative
  <2>e. <<C>> \o <<A, B>> \o s = <<C>> \o (<<A, B>> \o s)
    BY <2>a, ConcatAssociative
  <2>f. <<>> \o <<A, B>> = <<A, B>>
    BY <2>a
  <2>2. /\ <<>> \o <<A, B>> \o s = <<A>> \o (<<B>> \o s)
        /\ <<C>> \o <<A, B>> \o s = <<C>> \o (<<A>> \o (<<B>> \o s))
    BY <2>d, <2>e, <2>f
  <2>3. AtRecord(<<B>> \o s)
    BY <2>1, HeadTail DEF AtRecord, AtIndex, B
  <2>4. AtData(<<A>> \o (<<B>> \o s))
    BY <2>b, <2>3, HeadTail DEF AtData, A
  <2>5. AtLarge(<<C>> \o (<<A>> \o (<<B>> \o s)))
    BY <2>b, <2>4, HeadTail DEF AtLarge, C
  <2>6. Steps(r) = (IF r.content \in Large THEN <<C>> ELSE <<>>) \o <<A, B>> \o s
    BY <1>1 DEF Dropping, Steps, StoreSteps, s, A, B, C
  <2> QED BY <1>1, <2>2, <2>4, <2>5, <2>6 DEF Writes
<1>2. CASE r.action = "DELETE"
  <2> DEFINE A == <<"adi">>
             B == <<"ari">>
  <2>1. Steps(r) = <<A, B>>
    BY <1>2 DEF Steps
  <2> HIDE DEF A, B
  <2>2. Head(<<A, B>>) = A /\ Tail(<<A, B>>) = <<B>> /\ Head(<<B>>) = B /\ Tail(<<B>>) = <<>>
        /\ <<A, B>> # <<>> /\ <<B>> # <<>> /\ <<>> \in Seq(IndexStep)
    OBVIOUS
  <2>3. AtData(<<A, B>>)
    BY <2>2 DEF AtData, AtRecord, AtIndex, A, B
  <2> QED BY <1>2, <2>1, <2>3 DEF Writes, Dropping
<1>3. CASE ~Writes(r)
  BY <1>3 DEF Steps, Writes, Dropping
<1> QED BY <1>0, <1>1, <1>2, <1>3, RequestFields DEF Writes

\* What the next step of a request is, at each of the stages.
LEMMA NextStep ==
    ASSUME NEW t
    PROVE  /\ AtLarge(t) => t # <<>> /\ Head(t)[1] = "lfb" /\ AtData(Tail(t))
           /\ AtData(t) => t # <<>> /\ Head(t)[1] = "adi" /\ AtRecord(Tail(t))
           /\ AtRecord(t) => t # <<>> /\ Head(t)[1] = "ari" /\ AtIndex(Tail(t))
           /\ AtIndex(t) /\ t # <<>> => /\ Head(t)[1] \in {"uki", "fti"} /\ Head(t)[2] \in STRING
                                        /\ AtIndex(Tail(t))
           /\ AtIndex(<<>>)
  BY DEF AtLarge, AtData, AtRecord, AtIndex, IndexStep

-----------------------------------------------------------------------------
(* The files and the request in service. *)

Db == [adi : [Quid -> Content \cup {"lfb", None}], ari : [Quid -> BOOLEAN],
       uki : [Term -> Seq(Quid)], fti : [Term -> Seq(Quid)]]

\* Some step of the request in service is a write.
Working == req # None /\ Writes(req) /\ ~Dropping(req)

\* The version count never moves, so every worker uses the same files.
FilesType ==
    /\ db \in [0..(MaxRestarts + 1) -> Db]
    /\ lfb \in [Quid -> Content \cup {None}]
    /\ count \in {0, None} /\ num \in {0, None}
ServiceType ==
    /\ req \in Requests \cup FromMaster \cup {None}
    /\ num = None => req = None
    /\ req = None => todo = <<>> /\ result = "SUCCESS"
    /\ ~Working => todo \in {<<>>, << <<"read">> >>}
    /\ Working => AtLarge(todo) \/ AtData(todo) \/ AtRecord(todo) \/ AtIndex(todo)
    /\ Working /\ todo # <<>> => result = "SUCCESS"
    /\ Working /\ AtLarge(todo) => req.action # "DELETE" /\ req.content \in Large
HistoryType ==
    /\ accepted \in [Quid -> Content \cup {None}]
    /\ cut \subseteq Quid /\ clobbered \subseteq Quid

Adi == db[0].adi
Ari == db[0].ari
Uki == db[0].uki
Fti == db[0].fti

\* What SELECT would find, and what a record must be like between requests.
Stored(q) ==
    IF Ari[q] /\ Adi[q] # None THEN IF Adi[q] = "lfb" THEN lfb[q] ELSE Adi[q] ELSE None
Whole(q) == Ari[q] <=> Adi[q] # None
Settled(q) ==
    /\ q \notin cut => Whole(q)
    /\ q \notin Excepted => Stored(q) = accepted[q]

\* The content of a record is c, here or in the large file store.
Holds(q, c) == IF c \in Large THEN Adi[q] = "lfb" /\ lfb[q] = c ELSE Adi[q] = c

\* An entry for the large file store leads there.
LargePresent == \A q \in Quid : Adi[q] = "lfb" => lfb[q] # None

\* Records that no request is writing.
Others == \A q \in Quid : (Working => q # req.quid) => Settled(q)

\* The record that one is writing, before adi.put or adi.remove: an UPDATE may
\* have replaced its large content already ...
BeforeData(q) ==
    /\ q \notin cut => Whole(q)
    /\ (req.action = "UPDATE" /\ req.content \in Large)
          \/ (q \notin Excepted => Stored(q) = accepted[q])
    /\ req.action # "DELETE" /\ req.content \in Large => lfb[q] = req.content
\* ... between that and ari.put or ari.remove, which fails only for a record that
\* an earlier request has left in pieces ...
BeforeRecord(q) ==
    /\ IF req.action = "DELETE" THEN Adi[q] = None ELSE Holds(q, req.content)
    /\ q \notin cut => /\ req.action = "INSERT" => ~Ari[q]
                       /\ req.action = "DELETE" => Ari[q]
\* ... and after it, or after a refusal.
AfterRecord(q) ==
    q \notin cut =>
        IF result # "SUCCESS" THEN Settled(q)
        ELSE IF req.action = "DELETE" THEN Adi[q] = None /\ ~Ari[q]
        ELSE Holds(q, req.content) /\ Ari[q]
Current ==
    Working =>
        /\ AtLarge(todo) => Settled(req.quid)
        /\ AtData(todo) => BeforeData(req.quid)
        /\ AtRecord(todo) => BeforeRecord(req.quid)
        /\ AtIndex(todo) => AfterRecord(req.quid)

RecordInv ==
    /\ FilesType /\ ServiceType /\ HistoryType
    /\ LargePresent /\ Others /\ Current

LEMMA RecordInit == Init => RecordInv
<1> SUFFICES ASSUME Init PROVE RecordInv
  OBVIOUS
<1>1. Empty \in Db
  BY DEF Empty, Db
<1>2. 0 \in 0..(MaxRestarts + 1)
  BY CynderConstants
<1>3. FilesType
  BY <1>1 DEF Init, FilesType
<1>4. db[0] = Empty /\ Adi = [q \in Quid |-> None] /\ Ari = [q \in Quid |-> FALSE]
  BY <1>2 DEF Init, Adi, Ari, Empty
<1>5. ~Working /\ ServiceType
  BY DEF Init, Working, ServiceType
<1>6. HistoryType
  BY DEF Init, HistoryType
<1>7. LargePresent
  BY <1>4, CynderConstants DEF LargePresent
<1>8. Others
  BY <1>4 DEF Init, Others, Excepted, Settled, Whole, Stored
<1> QED BY <1>3, <1>5, <1>6, <1>7, <1>8 DEF RecordInv, Current

\* The types of the two indexes of records, and of the request.
LEMMA Types ==
    ASSUME RecordInv
    PROVE  /\ db[0] \in Db /\ Adi \in [Quid -> Content \cup {"lfb", None}] /\ Ari \in [Quid -> BOOLEAN]
           /\ lfb \in [Quid -> Content \cup {None}] /\ accepted \in [Quid -> Content \cup {None}]
           /\ num # None => num = 0 /\ Open = db[0]
           /\ Working => req \in Requests \cup FromMaster /\ req.quid \in Quid
<1>1. 0 \in 0..(MaxRestarts + 1)
  BY CynderConstants
<1>2. db[0] \in Db
  BY <1>1 DEF RecordInv, FilesType
<1>3. Adi \in [Quid -> Content \cup {"lfb", None}] /\ Ari \in [Quid -> BOOLEAN]
  BY <1>2 DEF Db, Adi, Ari
<1>4. Working => req \in Requests \cup FromMaster /\ req.quid \in Quid
  BY RequestFields DEF RecordInv, ServiceType, Working, Writes
<1> QED BY <1>2, <1>3, <1>4 DEF RecordInv, FilesType, HistoryType, Open

\* One put or remove: what becomes of the files.
LEMMA PutAdi ==
    ASSUME RecordInv, num = 0, NEW q \in Quid, NEW v \in Content \cup {"lfb", None},
           db' = [db EXCEPT ![num]["adi"][q] = v]
    PROVE  /\ db' \in [0..(MaxRestarts + 1) -> Db]
           /\ Adi' = [Adi EXCEPT ![q] = v] /\ Ari' = Ari /\ Uki' = Uki /\ Fti' = Fti
<1>1. 0 \in 0..(MaxRestarts + 1) /\ db \in [0..(MaxRestarts + 1) -> Db]
  BY CynderConstants DEF RecordInv, FilesType
<1>2. db[0] \in Db
  BY <1>1
<1>3. db' = [db EXCEPT ![0] = [db[0] EXCEPT !.adi = [db[0].adi EXCEPT ![q] = v]]]
  OBVIOUS
<1>4. [db[0] EXCEPT !.adi = [db[0].adi EXCEPT ![q] = v]] \in Db
  BY <1>2 DEF Db
<1>5. db'[0] = [db[0] EXCEPT !.adi = [db[0].adi EXCEPT ![q] = v]]
  BY <1>1, <1>3
<1>6. /\ db'[0].adi = [db[0].adi EXCEPT ![q] = v] /\ db'[0].ari = db[0].ari
      /\ db'[0].uki = db[0].uki /\ db'[0].fti = db[0].fti
  BY <1>2, <1>5 DEF Db
<1> QED BY <1>1, <1>3, <1>4, <1>6 DEF Adi, Ari, Uki, Fti

LEMMA PutAri ==
    ASSUME RecordInv, num = 0, NEW q \in Quid, NEW v \in BOOLEAN,
           db' = [db EXCEPT ![num]["ari"][q] = v]
    PROVE  /\ db' \in [0..(MaxRestarts + 1) -> Db]
           /\ Ari' = [Ari EXCEPT ![q] = v] /\ Adi' = Adi /\ Uki' = Uki /\ Fti' = Fti
<1>1. 0 \in 0..(MaxRestarts + 1) /\ db \in [0..(MaxRestarts + 1) -> Db]
  BY CynderConstants DEF RecordInv, FilesType
<1>2. db[0] \in Db
  BY <1>1
<1>3. db' = [db EXCEPT ![0] = [db[0] EXCEPT !.ari = [db[0].ari EXCEPT ![q] = v]]]
  OBVIOUS
<1>4. [db[0] EXCEPT !.ari = [db[0].ari EXCEPT ![q] = v]] \in Db
  BY <1>2 DEF Db
<1>5. db'[0] = [db[0] EXCEPT !.ari = [db[0].ari EXCEPT ![q] = v]]
  BY <1>1, <1>3
<1>6. /\ db'[0].ari = [db[0].ari EXCEPT ![q] = v] /\ db'[0].adi = db[0].adi
      /\ db'[0].uki = db[0].uki /\ db'[0].fti = db[0].fti
  BY <1>2, <1>5 DEF Db
<1> QED BY <1>1, <1>3, <1>4, <1>6 DEF Adi, Ari, Uki, Fti

LEMMA PutTerm ==
    ASSUME RecordInv, num = 0, NEW q \in Quid, NEW t, NEW index \in {"uki", "fti"},
           db' = [db EXCEPT ![num][index][t] = Append(@, q)]
    PROVE  /\ db' \in [0..(MaxRestarts + 1) -> Db] /\ Ari' = Ari /\ Adi' = Adi
           /\ index = "uki" => Uki' = [Uki EXCEPT ![t] = Append(Uki[t], q)] /\ Fti' = Fti
           /\ index = "fti" => Fti' = [Fti EXCEPT ![t] = Append(Fti[t], q)] /\ Uki' = Uki
<1>1. 0 \in 0..(MaxRestarts + 1) /\ db \in [0..(MaxRestarts + 1) -> Db]
  BY CynderConstants DEF RecordInv, FilesType
<1>2. db[0] \in Db
  BY <1>1
<1>a. ASSUME NEW f \in [Term -> Seq(Quid)] PROVE [f EXCEPT ![t] = Append(f[t], q)] \in [Term -> Seq(Quid)]
  <2>1. t \in Term => Append(f[t], q) \in Seq(Quid)
    OBVIOUS
  <2> QED BY <2>1
<1>3. CASE index = "uki"
  <2>1. db' = [db EXCEPT ![0] = [db[0] EXCEPT !.uki = [db[0].uki EXCEPT ![t] = Append(db[0].uki[t], q)]]]
    BY <1>3
  <2>2. [db[0] EXCEPT !.uki = [db[0].uki EXCEPT ![t] = Append(db[0].uki[t], q)]] \in Db
    BY <1>2, <1>a DEF Db
  <2>3. db'[0] = [db[0] EXCEPT !.uki = [db[0].uki EXCEPT ![t] = Append(db[0].uki[t], q)]]
    BY <1>1, <2>1
  <2>4. /\ db'[0].ari = db[0].ari /\ db'[0].adi = db[0].adi /\ db'[0].fti = db[0].fti
        /\ db'[0].uki = [db[0].uki EXCEPT ![t] = Append(db[0].uki[t], q)]
    BY <1>2, <2>3 DEF Db
  <2> QED BY <1>1, <1>3, <2>1, <2>2, <2>4 DEF Adi, Ari, Uki, Fti
<1>4. CASE index = "fti"
  <2>1. db' = [db EXCEPT ![0] = [db[0] EXCEPT !.fti = [db[0].fti EXCEPT ![t] = Append(db[0].fti[t], q)]]]
    BY <1>4
  <2>2. [db[0] EXCEPT !.fti = [db[0].fti EXCEPT ![t] = Append(db[0].fti[t], q)]] \in Db
    BY <1>2, <1>a DEF Db
  <2>3. db'[0] = [db[0] EXCEPT !.fti = [db[0].fti EXCEPT ![t] = Append(db[0].fti[t], q)]]
    BY <1>1, <2>1
  <2>4. /\ db'[0].ari = db[0].ari /\ db'[0].adi = db[0].adi /\ db'[0].uki = db[0].uki
        /\ db'[0].fti = [db[0].fti EXCEPT ![t] = Append(db[0].fti[t], q)]
    BY <1>2, <2>3 DEF Db
  <2> QED BY <1>1, <1>4, <2>1, <2>2, <2>4 DEF Adi, Ari, Uki, Fti
<1> QED BY <1>3, <1>4

LEMMA OneStage ==
    ASSUME NEW t
    PROVE  /\ AtLarge(t) => ~AtData(t) /\ ~AtRecord(t) /\ ~AtIndex(t)
           /\ AtData(t) => ~AtLarge(t) /\ ~AtRecord(t) /\ ~AtIndex(t)
           /\ AtRecord(t) => ~AtLarge(t) /\ ~AtData(t) /\ ~AtIndex(t)
           /\ AtIndex(t) => ~AtLarge(t) /\ ~AtData(t) /\ ~AtRecord(t)
<1>1. /\ AtLarge(t) => t # <<>> /\ Head(t)[1] = "lfb"
      /\ AtData(t) => t # <<>> /\ Head(t)[1] = "adi"
      /\ AtRecord(t) => t # <<>> /\ Head(t)[1] = "ari"
      /\ AtIndex(t) /\ t # <<>> => Head(t)[1] \in {"uki", "fti"}
  BY NextStep
<1> QED BY <1>1

\* Which request is at the step that is about to be taken.
LEMMA AtStep ==
    ASSUME RecordInv, todo # <<>>
    PROVE  /\ Head(todo)[1] = "lfb" => Working /\ AtLarge(todo) /\ req.action # "DELETE" /\ req.content \in Large
           /\ Head(todo)[1] = "adi" => Working /\ AtData(todo)
           /\ Head(todo)[1] = "ari" => Working /\ AtRecord(todo)
           /\ Head(todo)[1] \in {"uki", "fti"} => Working /\ AtIndex(todo)
           /\ Head(todo)[1] = "read" => ~Working
           /\ Working => result = "SUCCESS"
<1>1. ServiceType
  BY DEF RecordInv
<1>2. ~Working => Head(todo)[1] = "read"
  BY <1>1 DEF ServiceType
<1>3. /\ AtLarge(todo) => Head(todo)[1] = "lfb"
      /\ AtData(todo) => Head(todo)[1] = "adi"
      /\ AtRecord(todo) => Head(todo)[1] = "ari"
      /\ AtIndex(todo) => Head(todo)[1] \in {"uki", "fti"}
  BY NextStep
<1> QED BY <1>1, <1>2, <1>3 DEF ServiceType

\* A step of the request that writes q touches q alone.
LEMMA WriteStep ==
    ASSUME RecordInv, Working, NEW q \in Quid, req.quid = q, UNCHANGED <<req, num, count, dropped>>,
           db' \in [0..(MaxRestarts + 1) -> Db], lfb' \in [Quid -> Content \cup {None}],
           HistoryType',
           \A p \in Quid : p # q =>
               /\ Adi'[p] = Adi[p] /\ Ari'[p] = Ari[p] /\ lfb'[p] = lfb[p]
               /\ accepted'[p] = accepted[p]
               /\ (p \in cut' <=> p \in cut) /\ (p \in clobbered' <=> p \in clobbered),
           Adi'[q] = "lfb" => lfb'[q] # None,
           ServiceType', Current'
    PROVE  RecordInv'
<1>0. FilesType /\ LargePresent /\ Others
  BY DEF RecordInv
<1>1. FilesType'
  BY <1>0 DEF FilesType
<1>2. LargePresent'
  BY <1>0 DEF LargePresent
<1>3. \A p \in Quid : p # q /\ Settled(p) => Settled(p)'
  BY DEF Excepted, Settled, Whole, Stored
<1>4. Others'
  BY <1>0, <1>3 DEF Others, Working
<1> QED BY <1>1, <1>2, <1>4 DEF RecordInv

\* The request has gone on to the stage that is left of it in todo'.
LEMMA GoOn ==
    ASSUME RecordInv, Working, UNCHANGED <<req, num>>, result' = "SUCCESS" \/ todo' = <<>>,
           \/ AtData(todo') /\ BeforeData(req.quid)'
           \/ AtRecord(todo') /\ BeforeRecord(req.quid)'
           \/ AtIndex(todo') /\ AfterRecord(req.quid)'
    PROVE  ServiceType' /\ Current'
<1>1. ServiceType /\ Working'
  BY DEF RecordInv, Working
<1>2. ServiceType'
  BY <1>1, OneStage DEF ServiceType, Working
<1>3. Current'
  BY OneStage DEF Current
<1> QED BY <1>2, <1>3

LEMMA PutLargeKeeps == ASSUME RecordInv, PutLarge PROVE RecordInv'
<1>0. FilesType /\ ServiceType /\ HistoryType /\ LargePresent /\ Others /\ Current
  BY DEF RecordInv
<1>1. num # None /\ todo # <<>> /\ Head(todo)[1] = "lfb"
  BY DEF PutLarge, Doing
<1>2. Working /\ AtLarge(todo) /\ req.action # "DELETE" /\ req.content \in Large /\ result = "SUCCESS"
  BY <1>1, AtStep
<1>3. PICK q \in Quid : q = req.quid
  BY <1>2, Types
<1>4. /\ Adi \in [Quid -> Content \cup {"lfb", None}] /\ lfb \in [Quid -> Content \cup {None}]
      /\ num = 0 /\ Open = db[0] /\ req.content \in Content
  BY <1>1, <1>2, Types, CynderConstants
<1>5. Settled(q)
  BY <1>0, <1>2, <1>3 DEF Current
<1>6. /\ lfb' = [lfb EXCEPT ![q] = req.content]
      /\ clobbered' = IF req.action = "INSERT" /\ Adi[q] = "lfb" THEN clobbered \cup {q} ELSE clobbered
      /\ todo' = Tail(todo) /\ result' = result
      /\ UNCHANGED <<db, count, num, req, accepted, dropped, cut>> /\ Adi' = Adi /\ Ari' = Ari
  BY <1>3, <1>4 DEF PutLarge, Proceed, Adi, Ari
<1>7. AtData(todo')
  BY <1>2, <1>6, NextStep
<1>8. lfb'[q] = req.content /\ \A p \in Quid : p # q => lfb'[p] = lfb[p]
  BY <1>4, <1>6
<1>9. req.action \in {"INSERT", "UPDATE"}
  BY <1>2 DEF Working, Writes
<1>10. BeforeData(req.quid)'
  <2>1. q \notin cut => Whole(q)'
    BY <1>5, <1>6 DEF Excepted, Settled, Whole
  <2>2. req.action = "INSERT" /\ q \notin Excepted' => Stored(q)' = accepted[q]
    BY <1>5, <1>6, <1>8 DEF Excepted, Settled, Stored
  <2> QED BY <1>2, <1>3, <1>6, <1>8, <1>9, <2>1, <2>2 DEF Excepted, BeforeData
<1>11. ServiceType' /\ Current'
  BY <1>2, <1>6, <1>7, <1>10, GoOn
<1>12. HistoryType'
  BY <1>0, <1>6 DEF HistoryType
<1>13. Adi'[q] = "lfb" => lfb'[q] # None
  BY <1>4, <1>8, CynderConstants
<1>14. db' \in [0..(MaxRestarts + 1) -> Db] /\ lfb' \in [Quid -> Content \cup {None}]
  BY <1>0, <1>4, <1>6 DEF FilesType
<1> QED BY <1>2, <1>3, <1>6, <1>8, <1>11, <1>12, <1>13, <1>14, WriteStep

LEMMA PutDataKeeps == ASSUME RecordInv, PutData PROVE RecordInv'
<1>0. FilesType /\ ServiceType /\ HistoryType /\ LargePresent /\ Others /\ Current
  BY DEF RecordInv
<1>1. num # None /\ todo # <<>> /\ Head(todo)[1] = "adi" /\ req.action # "DELETE"
  BY DEF PutData, Doing
<1>2. Working /\ AtData(todo) /\ result = "SUCCESS" /\ req \in Requests \cup FromMaster
  BY <1>1, AtStep, Types
<1>3. PICK q \in Quid : q = req.quid
  BY <1>2, Types
<1>4. /\ Adi \in [Quid -> Content \cup {"lfb", None}] /\ num = 0 /\ Open = db[0]
      /\ req.action \in {"INSERT", "UPDATE"}
  BY <1>1, <1>2, Types DEF Working, Writes
<1>5. BeforeData(q) /\ req.content \in Content
  BY <1>0, <1>2, <1>3, <1>4, RequestFields DEF Current
<1>6. UNCHANGED <<lfb, count, num, req, accepted, dropped, cut>>
  BY DEF PutData
<1>7. CASE req.action = "INSERT" /\ Adi[q] # None
  <2>1. todo' = <<>> /\ result' = "DUPLICATE" /\ UNCHANGED <<db, clobbered>>
    BY <1>3, <1>4, <1>7 DEF PutData, Fail, Adi
  <2>2. Settled(q)' /\ Adi' = Adi /\ Ari' = Ari
    BY <1>5, <1>6, <1>7, <2>1 DEF Excepted, BeforeData, Excepted, Settled, Whole, Stored, Adi, Ari
  <2>3. AtIndex(todo') /\ AfterRecord(req.quid)'
    BY <1>3, <1>6, <2>1, <2>2, NextStep DEF AfterRecord
  <2>4. ServiceType' /\ Current'
    BY <1>2, <1>6, <2>1, <2>3, GoOn
  <2>5. HistoryType'
    BY <1>0, <1>6, <2>1 DEF HistoryType
  <2> QED BY <1>0, <1>2, <1>3, <1>6, <2>1, <2>2, <2>4, <2>5, WriteStep DEF FilesType, LargePresent
<1>8. CASE ~(req.action = "INSERT" /\ Adi[q] # None)
  <2> DEFINE v == IF req.content \in Large THEN "lfb" ELSE req.content
  <2>1. /\ db' = [db EXCEPT ![num]["adi"][q] = v] /\ clobbered' = clobbered \ {q}
        /\ todo' = Tail(todo) /\ result' = result
    BY <1>3, <1>4, <1>8 DEF PutData, Proceed, Put, Adi
  <2>2. v \in Content \cup {"lfb", None}
    BY <1>5
  <2> HIDE DEF v
  <2>3. db' \in [0..(MaxRestarts + 1) -> Db] /\ Adi' = [Adi EXCEPT ![q] = v] /\ Ari' = Ari
    BY <1>4, <2>1, <2>2, PutAdi
  <2>4. Adi'[q] = v /\ \A p \in Quid : p # q => Adi'[p] = Adi[p]
    BY <1>4, <2>3
  <2>5. req.content \in Large => lfb[q] = req.content
    BY <1>1, <1>5 DEF Excepted, BeforeData
  <2>6. Holds(q, req.content)'
    BY <1>6, <2>4, <2>5 DEF Holds, v
  <2>7. q \notin cut /\ req.action = "INSERT" => ~Ari[q]
    BY <1>5, <1>8 DEF Excepted, BeforeData, Whole
  <2>8. AtRecord(todo') /\ BeforeRecord(req.quid)'
    BY <1>1, <1>2, <1>3, <1>6, <2>1, <2>3, <2>6, <2>7, NextStep DEF BeforeRecord
  <2>9. ServiceType' /\ Current'
    BY <1>2, <1>6, <2>1, <2>8, GoOn
  <2>10. HistoryType'
    BY <1>0, <1>6, <2>1 DEF HistoryType
  <2>11. Adi'[q] = "lfb" => lfb'[q] # None
    BY <1>5, <1>6, <2>4, <2>5, CynderConstants DEF v
  <2>12. lfb' \in [Quid -> Content \cup {None}]
    BY <1>0, <1>6 DEF FilesType
  <2> QED BY <1>2, <1>3, <1>6, <2>1, <2>3, <2>4, <2>9, <2>10, <2>11, <2>12, WriteStep
<1> QED BY <1>7, <1>8

LEMMA PutRecordKeeps == ASSUME RecordInv, PutRecord PROVE RecordInv'
<1>0. FilesType /\ ServiceType /\ HistoryType /\ LargePresent /\ Others /\ Current
  BY DEF RecordInv
<1>1. num # None /\ todo # <<>> /\ Head(todo)[1] = "ari" /\ req.action # "DELETE"
  BY DEF PutRecord, Doing
<1>2. Working /\ AtRecord(todo) /\ result = "SUCCESS"
  BY <1>1, AtStep
<1>3. PICK q \in Quid : q = req.quid
  BY <1>2, Types
<1>4. Ari \in [Quid -> BOOLEAN] /\ num = 0 /\ Open = db[0]
  BY <1>1, Types
<1>5. BeforeRecord(q)
  BY <1>0, <1>2, <1>3 DEF Current
<1>6. UNCHANGED <<lfb, count, num, req, accepted, dropped, clobbered>>
  BY DEF PutRecord
<1>7. CASE req.action = "INSERT" /\ Ari[q]
  <2>1. todo' = <<>> /\ result' = "DUPLICATE" /\ UNCHANGED <<db, cut>>
    BY <1>3, <1>4, <1>7 DEF PutRecord, Fail, Ari
  <2>2. q \in cut /\ Adi' = Adi /\ Ari' = Ari
    BY <1>5, <1>7, <2>1 DEF BeforeRecord, Adi, Ari
  <2>3. AtIndex(todo') /\ AfterRecord(req.quid)'
    BY <1>3, <1>6, <2>1, <2>2, NextStep DEF AfterRecord
  <2>4. ServiceType' /\ Current'
    BY <1>2, <1>6, <2>1, <2>3, GoOn
  <2>5. HistoryType'
    BY <1>0, <1>6, <2>1 DEF HistoryType
  <2> QED BY <1>0, <1>2, <1>3, <1>6, <2>1, <2>2, <2>4, <2>5, WriteStep DEF FilesType, LargePresent
<1>8. CASE ~(req.action = "INSERT" /\ Ari[q])
  <2>1. /\ db' = [db EXCEPT ![num]["ari"][q] = TRUE] /\ cut' = cut \ {q}
        /\ todo' = Tail(todo) /\ result' = result
    BY <1>3, <1>4, <1>8 DEF PutRecord, Proceed, Put, Ari
  <2>2. db' \in [0..(MaxRestarts + 1) -> Db] /\ Ari' = [Ari EXCEPT ![q] = TRUE] /\ Adi' = Adi
    BY <1>4, <2>1, PutAri
  <2>3. Ari'[q] /\ \A p \in Quid : p # q => Ari'[p] = Ari[p]
    BY <1>4, <2>2
  <2>4. Holds(q, req.content)'
    BY <1>1, <1>5, <1>6, <2>2 DEF BeforeRecord, Holds
  <2>5. AtIndex(todo') /\ AfterRecord(req.quid)'
    BY <1>1, <1>2, <1>3, <1>6, <2>1, <2>3, <2>4, NextStep DEF AfterRecord
  <2>6. ServiceType' /\ Current'
    BY <1>2, <1>6, <2>1, <2>5, GoOn
  <2>7. HistoryType'
    BY <1>0, <1>6, <2>1 DEF HistoryType
  <2>8. Adi'[q] = "lfb" => lfb'[q] # None
    BY <1>0, <1>6, <2>2 DEF LargePresent
  <2>9. lfb' \in [Quid -> Content \cup {None}]
    BY <1>0, <1>6 DEF FilesType
  <2> QED BY <1>2, <1>3, <1>6, <2>1, <2>2, <2>3, <2>6, <2>7, <2>8, <2>9, WriteStep
<1> QED BY <1>7, <1>8

LEMMA PutIndexKeeps ==
    ASSUME RecordInv, NEW index \in {"uki", "fti"}, PutIndex(index)
    PROVE  RecordInv'
<1>0. FilesType /\ ServiceType /\ HistoryType /\ LargePresent /\ Others /\ Current
  BY DEF RecordInv
<1>1. num # None /\ todo # <<>> /\ Head(todo)[1] \in {"uki", "fti"}
  BY DEF PutIndex, Doing
<1>2. Working /\ AtIndex(todo) /\ result = "SUCCESS"
  BY <1>1, AtStep
<1>3. PICK q \in Quid : q = req.quid
  BY <1>2, Types
<1>4. num = 0
  BY <1>1, Types
<1>5. AfterRecord(q)
  BY <1>0, <1>2, <1>3 DEF Current
<1>6. /\ UNCHANGED <<lfb, count, num, req, accepted, dropped, cut, clobbered>>
      /\ todo' = Tail(todo) /\ result' = result
  BY DEF PutIndex, Proceed, history
<1>7. PICK t : db' = [db EXCEPT ![num][index][t] = Append(@, q)]
  BY <1>3 DEF PutIndex
<1>8. db' \in [0..(MaxRestarts + 1) -> Db] /\ Ari' = Ari /\ Adi' = Adi
  BY <1>4, <1>7, PutTerm
<1>9. AtIndex(todo')
  BY <1>1, <1>2, <1>6, NextStep
<1>10. AfterRecord(req.quid)'
  BY <1>3, <1>5, <1>6, <1>8 DEF AfterRecord, Excepted, Settled, Whole, Stored, Holds
<1>11. ServiceType' /\ Current'
  BY <1>2, <1>6, <1>9, <1>10, GoOn
<1>12. HistoryType' /\ lfb' \in [Quid -> Content \cup {None}]
  BY <1>0, <1>6 DEF HistoryType, FilesType
<1>13. Adi'[q] = "lfb" => lfb'[q] # None
  BY <1>0, <1>6, <1>8 DEF LargePresent
<1> QED BY <1>2, <1>3, <1>6, <1>8, <1>11, <1>12, <1>13, WriteStep

LEMMA RemoveDataKeeps == ASSUME RecordInv, RemoveData PROVE RecordInv'
<1>0. FilesType /\ ServiceType /\ HistoryType /\ LargePresent /\ Others /\ Current
  BY DEF RecordInv
<1>1. num # None /\ todo # <<>> /\ Head(todo)[1] = "adi" /\ req.action = "DELETE"
  BY DEF RemoveData, Doing
<1>2. Working /\ AtData(todo) /\ result = "SUCCESS"
  BY <1>1, AtStep
<1>3. PICK q \in Quid : q = req.quid
  BY <1>2, Types
<1>4. Adi \in [Quid -> Content \cup {"lfb", None}] /\ num = 0 /\ Open = db[0]
  BY <1>1, Types
<1>5. BeforeData(q)
  BY <1>0, <1>2, <1>3 DEF Current
<1>6. UNCHANGED <<lfb, count, num, req, accepted, dropped, cut>>
  BY DEF RemoveData
<1>7. CASE ~(Raw /\ Adi[q] # None)
  <2>1. todo' = <<>> /\ result' = "NOTFOUND" /\ UNCHANGED <<db, clobbered>>
    BY <1>3, <1>4, <1>7 DEF RemoveData, Fail, Adi
  <2>2. Settled(q)' /\ Adi' = Adi /\ Ari' = Ari
    BY <1>1, <1>5, <1>6, <2>1 DEF Excepted, BeforeData, Excepted, Settled, Whole, Stored, Adi, Ari
  <2>3. AtIndex(todo') /\ AfterRecord(req.quid)'
    BY <1>3, <1>6, <2>1, <2>2, NextStep DEF AfterRecord
  <2>4. ServiceType' /\ Current'
    BY <1>2, <1>6, <2>1, <2>3, GoOn
  <2>5. HistoryType'
    BY <1>0, <1>6, <2>1 DEF HistoryType
  <2> QED BY <1>0, <1>2, <1>3, <1>6, <2>1, <2>2, <2>4, <2>5, WriteStep DEF FilesType, LargePresent
<1>8. CASE Raw /\ Adi[q] # None
  <2>1. /\ db' = [db EXCEPT ![num]["adi"][q] = None] /\ clobbered' = clobbered \ {q}
        /\ todo' = Tail(todo) /\ result' = result
    BY <1>3, <1>4, <1>8 DEF RemoveData, Proceed, Put, Adi
  <2>2. db' \in [0..(MaxRestarts + 1) -> Db] /\ Adi' = [Adi EXCEPT ![q] = None] /\ Ari' = Ari
    BY <1>4, <2>1, PutAdi
  <2>3. Adi'[q] = None /\ \A p \in Quid : p # q => Adi'[p] = Adi[p]
    BY <1>4, <2>2
  <2>4. q \notin cut => Ari[q]
    BY <1>5, <1>8 DEF Excepted, BeforeData, Whole
  <2>5. AtRecord(todo') /\ BeforeRecord(req.quid)'
    BY <1>1, <1>2, <1>3, <1>6, <2>1, <2>2, <2>3, <2>4, NextStep DEF BeforeRecord
  <2>6. ServiceType' /\ Current'
    BY <1>2, <1>6, <2>1, <2>5, GoOn
  <2>7. HistoryType' /\ lfb' \in [Quid -> Content \cup {None}]
    BY <1>0, <1>6, <2>1 DEF HistoryType, FilesType
  <2>8. Adi'[q] # "lfb"
    BY <2>3, CynderConstants
  <2> QED BY <1>2, <1>3, <1>6, <2>1, <2>2, <2>3, <2>6, <2>7, <2>8, WriteStep
<1> QED BY <1>7, <1>8

LEMMA RemoveRecordKeeps == ASSUME RecordInv, RemoveRecord PROVE RecordInv'
<1>0. FilesType /\ ServiceType /\ HistoryType /\ LargePresent /\ Others /\ Current
  BY DEF RecordInv
<1>1. num # None /\ todo # <<>> /\ Head(todo)[1] = "ari" /\ req.action = "DELETE"
  BY DEF RemoveRecord, Doing
<1>2. Working /\ AtRecord(todo) /\ result = "SUCCESS"
  BY <1>1, AtStep
<1>3. PICK q \in Quid : q = req.quid
  BY <1>2, Types
<1>4. Ari \in [Quid -> BOOLEAN] /\ num = 0 /\ Open = db[0]
  BY <1>1, Types
<1>5. BeforeRecord(q)
  BY <1>0, <1>2, <1>3 DEF Current
<1>6. UNCHANGED <<lfb, count, num, req, accepted, dropped, clobbered>>
  BY DEF RemoveRecord
<1>7. CASE ~Ari[q]
  <2>1. todo' = <<>> /\ result' = "NOTFOUND" /\ UNCHANGED <<db, cut>>
    BY <1>3, <1>4, <1>7 DEF RemoveRecord, Fail, Ari
  <2>2. q \in cut /\ Adi' = Adi /\ Ari' = Ari
    BY <1>1, <1>5, <1>7, <2>1 DEF BeforeRecord, Adi, Ari
  <2>3. AtIndex(todo') /\ AfterRecord(req.quid)'
    BY <1>3, <1>6, <2>1, <2>2, NextStep DEF AfterRecord
  <2>4. ServiceType' /\ Current'
    BY <1>2, <1>6, <2>1, <2>3, GoOn
  <2>5. HistoryType'
    BY <1>0, <1>6, <2>1 DEF HistoryType
  <2> QED BY <1>0, <1>2, <1>3, <1>6, <2>1, <2>2, <2>4, <2>5, WriteStep DEF FilesType, LargePresent
<1>8. CASE Ari[q]
  <2>1. /\ db' = [db EXCEPT ![num]["ari"][q] = FALSE] /\ cut' = cut \ {q}
        /\ todo' = Tail(todo) /\ result' = result
    BY <1>3, <1>4, <1>8 DEF RemoveRecord, Proceed, Put, Ari
  <2>2. db' \in [0..(MaxRestarts + 1) -> Db] /\ Ari' = [Ari EXCEPT ![q] = FALSE] /\ Adi' = Adi
    BY <1>4, <2>1, PutAri
  <2>3. ~Ari'[q] /\ \A p \in Quid : p # q => Ari'[p] = Ari[p]
    BY <1>4, <2>2
  <2>4. Adi'[q] = None
    BY <1>1, <1>5, <2>2 DEF BeforeRecord
  <2>5. AtIndex(todo') /\ AfterRecord(req.quid)'
    BY <1>1, <1>2, <1>3, <1>6, <2>1, <2>3, <2>4, NextStep DEF AfterRecord
  <2>6. ServiceType' /\ Current'
    BY <1>2, <1>6, <2>1, <2>5, GoOn
  <2>7. HistoryType' /\ lfb' \in [Quid -> Content \cup {None}]
    BY <1>0, <1>6, <2>1 DEF HistoryType, FilesType
  <2>8. Adi'[q] # "lfb"
    BY <2>4, CynderConstants
  <2> QED BY <1>2, <1>3, <1>6, <2>1, <2>2, <2>3, <2>6, <2>7, <2>8, WriteStep
<1> QED BY <1>7, <1>8

\* A step that leaves the database files and the large file store alone.
LEMMA FilesStay ==
    ASSUME RecordInv, UNCHANGED <<db, lfb>>
    PROVE  /\ LargePresent' /\ Adi' = Adi /\ Ari' = Ari
           /\ \A q \in Quid : /\ Settled(q) /\ UNCHANGED <<accepted, dropped, cut, clobbered>> => Settled(q)'
                              /\ q \in cut' => Settled(q)'
<1>1. LargePresent /\ Adi' = Adi /\ Ari' = Ari
  BY DEF RecordInv, Adi, Ari
<1> QED BY <1>1 DEF LargePresent, Excepted, Settled, Whole, Stored

\* Between requests.
LEMMA IdleKeeps ==
    ASSUME RecordInv, UNCHANGED <<db, lfb, accepted, dropped, cut, clobbered, req, todo, result>>,
           count' \in {0, None}, num' \in {0, None}, num' = None => req = None
    PROVE  RecordInv'
<1>0. FilesType /\ ServiceType /\ HistoryType /\ Others /\ Current
  BY DEF RecordInv
<1>1. FilesType' /\ HistoryType'
  BY <1>0 DEF FilesType, HistoryType
<1>2. ServiceType'
  BY <1>0 DEF ServiceType, Working
<1>3. LargePresent' /\ Adi' = Adi /\ Ari' = Ari /\ \A q \in Quid : Settled(q) => Settled(q)'
  BY FilesStay
<1>4. Others'
  BY <1>0, <1>3 DEF Others, Working
<1>5. Current'
  BY <1>0, <1>3 DEF Current, Working, Excepted, Settled, Whole, Stored, BeforeData, BeforeRecord, AfterRecord, Holds
<1> QED BY <1>1, <1>2, <1>3, <1>4, <1>5 DEF RecordInv

LEMMA TakeKeeps == ASSUME RecordInv, NEW r \in Requests \cup FromMaster, Take(r) PROVE RecordInv'
<1>0. FilesType /\ ServiceType /\ HistoryType /\ Others
  BY DEF RecordInv
<1>1. /\ num # None /\ req = None /\ req' = r /\ todo' = Steps(r) /\ result' = "SUCCESS"
      /\ UNCHANGED <<db, lfb, count, num, accepted, dropped, cut, clobbered>>
  BY DEF Take, Idle, files, history
<1>2. \A q \in Quid : Settled(q)
  BY <1>0, <1>1 DEF Others, Working
<1>3. LargePresent' /\ Adi' = Adi /\ Ari' = Ari /\ \A q \in Quid : Settled(q)'
  BY <1>1, <1>2, FilesStay
<1>4. FilesType' /\ HistoryType' /\ Others'
  BY <1>0, <1>1, <1>3 DEF FilesType, HistoryType, Others
<1>5. r # None /\ (Working' <=> Writes(r) /\ ~Dropping(r))
  BY <1>1, RequestFields DEF Working
<1>6. CASE ~Writes(r) \/ Dropping(r)
  <2>1. todo' \in {<<>>, << <<"read">> >>}
    BY <1>1, <1>6, StepsStage
  <2>2. ServiceType' /\ Current'
    BY <1>1, <1>5, <1>6, <2>1 DEF ServiceType, Current
  <2> QED BY <1>3, <1>4, <2>2 DEF RecordInv
<1>7. CASE Writes(r) /\ ~Dropping(r)
  <2>1. r.quid \in Quid
    BY <1>7, RequestFields DEF Writes
  <2>2. CASE r.action \in {"INSERT", "UPDATE"} /\ r.content \in Large
    <3>1. AtLarge(todo')
      BY <1>1, <1>7, <2>2, StepsStage
    <3>2. ServiceType'
      BY <1>1, <1>5, <1>7, <2>2, <3>1, OneStage DEF ServiceType
    <3>3. Current'
      BY <1>1, <1>3, <2>1, <3>1, OneStage DEF Current
    <3> QED BY <1>3, <1>4, <3>2, <3>3 DEF RecordInv
  <2>3. CASE r.action = "DELETE" \/ r.content \notin Large
    <3>1. AtData(todo')
      BY <1>1, <1>7, <2>3, StepsStage DEF Writes
    <3>2. ServiceType'
      BY <1>1, <1>5, <1>7, <3>1, OneStage DEF ServiceType
    <3>3. BeforeData(r.quid)'
      BY <1>1, <1>3, <2>1, <2>3 DEF Excepted, BeforeData, Excepted, Settled
    <3>4. Current'
      BY <1>1, <3>1, <3>3, OneStage DEF Current, BeforeData, Whole, Stored, Adi, Ari
    <3> QED BY <1>3, <1>4, <3>2, <3>4 DEF RecordInv
  <2> QED BY <1>7, <2>2, <2>3 DEF Writes
<1> QED BY <1>6, <1>7

LEMMA QueryKeeps == ASSUME RecordInv, Query PROVE RecordInv'
<1>0. FilesType /\ ServiceType /\ HistoryType /\ Others
  BY DEF RecordInv
<1>1. /\ num # None /\ todo # <<>> /\ Head(todo)[1] = "read"
      /\ UNCHANGED <<db, lfb, count, num, req, accepted, dropped, cut, clobbered>>
      /\ todo' \in {<<>>, Tail(todo)}
  BY DEF Query, Doing, files, history, Fail, Proceed
<1>2. ~Working /\ todo = << <<"read">> >> /\ req # None
  BY <1>0, <1>1, AtStep DEF ServiceType
<1>3. todo' = <<>> /\ ~Working'
  BY <1>1, <1>2 DEF Working
<1>4. LargePresent' /\ \A q \in Quid : Settled(q) => Settled(q)'
  BY <1>1, FilesStay
<1>5. FilesType' /\ HistoryType' /\ Others'
  BY <1>0, <1>1, <1>2, <1>4 DEF FilesType, HistoryType, Others
<1>6. ServiceType' /\ Current'
  BY <1>0, <1>1, <1>2, <1>3 DEF ServiceType, Current
<1> QED BY <1>4, <1>5, <1>6 DEF RecordInv

\* What a cut leaves: the record is marked.
LEMMA CutKeeps ==
    ASSUME RecordInv, UNCHANGED <<db, lfb, count, accepted, dropped, clobbered>>, cut' = Cut
    PROVE  /\ LargePresent' /\ HistoryType'
           /\ \A q \in Quid : Settled(q)'
<1>0. HistoryType /\ Others
  BY DEF RecordInv
<1>1. LargePresent' /\ Adi' = Adi /\ Ari' = Ari /\ \A q \in Quid : q \in cut' => Settled(q)'
  BY FilesStay
<1>2. CASE Working
  <2>1. cut' = cut \cup {req.quid} /\ req.quid \in Quid
    BY <1>2, Types DEF Cut, Working
  <2>2. \A q \in Quid : q \notin cut' => Settled(q)
    BY <1>0, <2>1 DEF Others
  <2> QED BY <1>0, <1>1, <2>1, <2>2 DEF HistoryType, Excepted, Settled, Whole, Stored
<1>3. CASE ~Working
  <2>1. cut \subseteq cut' /\ cut' \subseteq Quid /\ \A q \in Quid : Settled(q)
    <3>1. req # None /\ Writes(req) => req.quid \in Quid
      BY RequestFields DEF RecordInv, ServiceType, Writes
    <3> QED BY <1>0, <1>3, <3>1 DEF Cut, Others, HistoryType
  <2> QED BY <1>0, <1>1, <2>1 DEF HistoryType, Excepted, Settled, Whole, Stored
<1> QED BY <1>2, <1>3

LEMMA DatabaseErrorKeeps == ASSUME RecordInv, DatabaseError PROVE RecordInv'
<1>0. FilesType /\ ServiceType
  BY DEF RecordInv
<1>1. /\ num # None /\ todo # <<>> /\ todo' = <<>> /\ cut' = Cut
      /\ UNCHANGED <<db, lfb, count, num, req, result, accepted, dropped, clobbered>>
  BY DEF DatabaseError, files
<1>2. LargePresent' /\ HistoryType' /\ \A q \in Quid : Settled(q)'
  BY <1>1, CutKeeps
<1>3. FilesType' /\ Others'
  BY <1>0, <1>1, <1>2 DEF FilesType, Others
<1>4. ServiceType'
  BY <1>0, <1>1, NextStep, OneStage DEF ServiceType, Working
<1>5. Current'
  <2>1. Working => req.quid \in cut'
    BY <1>1 DEF Working, Cut
  <2>2. AtIndex(todo')
    BY <1>1, NextStep
  <2> QED BY <1>1, <2>1, <2>2, OneStage DEF Current, Working, AfterRecord
<1> QED BY <1>2, <1>3, <1>4, <1>5 DEF RecordInv

LEMMA CrashKeeps == ASSUME RecordInv, Crash PROVE RecordInv'
<1>0. FilesType
  BY DEF RecordInv
<1>1. /\ num' = None /\ req' = None /\ todo' = <<>> /\ result' = "SUCCESS" /\ cut' = Cut
      /\ UNCHANGED <<db, lfb, count, accepted, dropped, clobbered>>
  BY DEF Crash, files
<1>2. LargePresent' /\ HistoryType' /\ \A q \in Quid : Settled(q)'
  BY <1>1, CutKeeps
<1>3. FilesType' /\ Others' /\ ServiceType' /\ Current'
  BY <1>0, <1>1, <1>2 DEF FilesType, Others, ServiceType, Current, Working
<1> QED BY <1>2, <1>3 DEF RecordInv

LEMMA ReplyKeeps == ASSUME RecordInv, Reply PROVE RecordInv'
<1>0. FilesType /\ ServiceType /\ HistoryType /\ LargePresent /\ Others /\ Current
  BY DEF RecordInv
<1>1. /\ req # None /\ todo = <<>> /\ req' = None /\ result' = "SUCCESS" /\ todo' = todo
      /\ UNCHANGED <<db, lfb, count, num, cut, clobbered>>
      /\ accepted' = IF req.action = "SEARCH" THEN accepted ELSE [accepted EXCEPT ![req.quid] = Accept]
      /\ dropped' = IF result # "SUCCESS" \/ ~Writes(req) THEN dropped
                    ELSE IF req.form = "malformed" THEN dropped \cup {req.quid} ELSE dropped \ {req.quid}
  BY DEF Reply, files
<1>2. LargePresent' /\ Adi' = Adi /\ Ari' = Ari
  BY <1>1, FilesStay
<1>3. /\ accepted \in [Quid -> Content \cup {None}]
      /\ req \in Requests \cup FromMaster
  BY <1>0, <1>1 DEF HistoryType, ServiceType
<1>4. CASE ~Writes(req)
  <2>1. accepted' = accepted /\ dropped' = dropped
    BY <1>1, <1>3, <1>4 DEF Accept
  <2>2. \A q \in Quid : Settled(q)
    BY <1>0, <1>4 DEF Others, Working
  <2>3. \A q \in Quid : Settled(q)'
    BY <1>1, <2>1, <2>2, FilesStay
  <2>4. HistoryType' /\ FilesType' /\ Others' /\ ServiceType' /\ Current'
    BY <1>0, <1>1, <2>1, <2>3 DEF HistoryType, FilesType, Others, ServiceType, Current, Working
  <2> QED BY <1>2, <2>4 DEF RecordInv
<1>5. CASE Writes(req)
  <2>1. req.action \in {"INSERT", "UPDATE", "DELETE"}
    BY <1>5 DEF Writes
  <2>2. PICK q \in Quid : q = req.quid
    BY <1>3, <2>1, RequestFields
  <2>3. accepted' = [accepted EXCEPT ![q] = Accept]
    BY <1>1, <2>1, <2>2
  <2>4. accepted'[q] = Accept /\ \A p \in Quid : p # q => accepted'[p] = accepted[p]
    BY <1>3, <2>3
  <2>5. req.action # "DELETE" => req.content \in Content
    BY <1>3, <2>1, RequestFields
  <2>6. Accept \in Content \cup {None}
    BY <1>3, <2>1, <2>2, <2>5 DEF Accept
  <2>7. ~Dropping(req) => AfterRecord(q)
    BY <1>0, <1>1, <1>5, <2>2, NextStep DEF Current, Working
  <2>8. Settled(q)'
    <3>0. CASE Dropping(req)
      <4>1. Settled(q)
        BY <1>0, <3>0 DEF Others, Working
      <4>2. result = "SUCCESS" => q \in dropped'
        BY <1>1, <1>5, <2>2, <3>0 DEF Dropping
      <4>3. result # "SUCCESS" => accepted'[q] = accepted[q] /\ dropped' = dropped
        BY <1>1, <2>2, <2>4 DEF Accept
      <4> QED BY <1>1, <1>2, <4>1, <4>2, <4>3 DEF Excepted, Settled, Whole, Stored
    <3> SUFFICES ASSUME q \notin cut, AfterRecord(q) PROVE Settled(q)'
      BY <1>1, <2>7, <3>0 DEF Excepted, Settled
    <3>1. CASE result # "SUCCESS"
      <4>1. accepted'[q] = accepted[q] /\ dropped' = dropped /\ Settled(q)
        BY <1>1, <2>2, <2>4, <3>1 DEF Accept, AfterRecord
      <4> QED BY <1>1, <1>2, <4>1 DEF Excepted, Settled, Whole, Stored
    <3>2. CASE result = "SUCCESS" /\ req.action = "DELETE"
      <4>1. accepted'[q] = None /\ Adi[q] = None /\ ~Ari[q]
        BY <1>5, <2>4, <3>2 DEF Accept, AfterRecord
      <4> QED BY <1>1, <1>2, <4>1 DEF Excepted, Settled, Whole, Stored
    <3>3. CASE result = "SUCCESS" /\ req.action # "DELETE"
      <4>1. accepted'[q] = req.content /\ Holds(q, req.content) /\ Ari[q]
        BY <1>5, <2>4, <3>3 DEF Accept, AfterRecord
      <4>2. req.content # None /\ req.content # "lfb" /\ "lfb" # None
        BY <2>5, <3>3, CynderConstants
      <4>3. Adi[q] # None /\ Stored(q) = req.content
        BY <4>1, <4>2 DEF Holds, Stored
      <4>4. Stored(q)' = Stored(q)
        BY <1>1, <1>2 DEF Stored
      <4> QED BY <1>1, <1>2, <4>1, <4>3, <4>4 DEF Excepted, Settled, Whole
    <3> QED BY <3>1, <3>2, <3>3
  <2>9. ASSUME NEW p \in Quid, p # q PROVE Settled(p)'
    <3>1. Settled(p) /\ (p \in dropped' <=> p \in dropped) /\ accepted'[p] = accepted[p]
      BY <1>0, <1>1, <2>2, <2>4, <2>9 DEF Others
    <3> QED BY <1>1, <1>2, <3>1 DEF Excepted, Settled, Whole, Stored
  <2>10. Others' /\ ServiceType' /\ Current' /\ FilesType'
    BY <1>0, <1>1, <2>8, <2>9 DEF FilesType, Others, ServiceType, Current, Working
  <2>11. HistoryType'
    BY <1>0, <1>1, <1>3, <2>3, <2>6 DEF HistoryType
  <2> QED BY <1>2, <2>10, <2>11 DEF RecordInv
<1> QED BY <1>4, <1>5

LEMMA RecordStep == RecordInv /\ [Next]_vars => RecordInv'
<1> SUFFICES ASSUME RecordInv, [Next]_vars PROVE RecordInv'
  OBVIOUS
<1>0. FilesType /\ ServiceType
  BY DEF RecordInv
<1>1. ASSUME NEW r \in Requests, TakeFromClient(r) PROVE RecordInv'
  BY <1>1, TakeKeeps DEF TakeFromClient
<1>2. CASE TakeMaster
  BY <1>2, TakeKeeps DEF TakeMaster, TakeFromMaster
<1>3. CASE MasterForward \/ UNCHANGED vars
  <2>1. UNCHANGED <<db, lfb, accepted, dropped, cut, clobbered, req, todo, result, count, num>>
    BY <1>3 DEF MasterForward, vars, files, service, history
  <2> QED BY <1>0, <2>1, IdleKeeps DEF FilesType, ServiceType
<1>4. CASE Work
  BY <1>4, PutLargeKeeps, PutDataKeeps, PutRecordKeeps, PutIndexKeeps, RemoveDataKeeps,
     RemoveRecordKeeps, QueryKeeps, ReplyKeeps DEF Work, PutKey, PutText
<1>5. CASE DatabaseError
  BY <1>5, DatabaseErrorKeeps
<1>6. CASE Exit
  <2>1. /\ req = None /\ num # None /\ num' = None /\ count' = num
        /\ UNCHANGED <<db, lfb, accepted, dropped, cut, clobbered, req, todo, result>>
    BY <1>6 DEF Exit, Idle, service, history
  <2> QED BY <1>0, <2>1, IdleKeeps DEF FilesType
<1>7. CASE Crash
  BY <1>7, CrashKeeps
<1>8. CASE Restart
  <2>1. /\ num = None /\ num' = IF count = None THEN 0 ELSE count
        /\ UNCHANGED <<db, lfb, count, accepted, dropped, cut, clobbered, req, todo, result>>
    BY <1>8 DEF Restart, files, service, history
  <2> QED BY <1>0, <2>1, IdleKeeps DEF FilesType, ServiceType
<1> QED BY <1>1, <1>2, <1>3, <1>4, <1>5, <1>6, <1>7, <1>8 DEF Next

LEMMA RecordAlways == Spec => []RecordInv
  BY RecordInit, RecordStep, PTL DEF Spec

\* A SELECT between requests finds what the last accepted INSERT or UPDATE stored,
\* for any records and contents, through any number of restarts; the exceptions
\* are the records that a cut request or a refused INSERT of a large content hit,
\* and those last written under a QUID that crop rejects.
THEOREM StoredIsLastAcceptedTheorem == Spec => []StoredIsLastAccepted
<1>1. RecordInv => StoredIsLastAccepted
  <2> SUFFICES ASSUME RecordInv, Idle, NEW q \in Quid, q \notin Excepted
               PROVE  Lookup(q) = accepted[q]
    BY DEF StoredIsLastAccepted, Select
  <2>1. Settled(q) /\ Open = db[0]
    BY Types DEF RecordInv, Others, Idle, Working
  <2> QED BY <2>1 DEF Excepted, Settled, Stored, Lookup, Restore, Adi, Ari
<1> QED BY <1>1, RecordAlways, PTL

\* DataIndex::get never follows an entry into the large file store that leads to
\* no item: Filebase::put comes before adi.put, and nothing removes an item.
THEOREM LargeContentPresentTheorem == Spec => []LargeContentPresent
<1>1. RecordInv => LargeContentPresent
  BY Types DEF RecordInv, LargePresent, LargeContentPresent, Adi
<1> QED BY <1>1, RecordAlways, PTL

\* Record and content come and go together unless a request was cut between them.
THEOREM RecordHasContentTheorem == Spec => []RecordHasContent
<1>1. RecordInv => RecordHasContent
  <2> SUFFICES ASSUME RecordInv, Idle, NEW q \in Quid, q \notin cut
               PROVE  Open.ari[q] <=> Open.adi[q] # None
    BY DEF RecordHasContent
  <2>1. Settled(q) /\ Open = db[0]
    BY Types DEF RecordInv, Others, Idle, Working
  <2> QED BY <2>1 DEF Excepted, Settled, Whole, Adi, Ari
<1> QED BY <1>1, RecordAlways, PTL

-----------------------------------------------------------------------------
(* SEARCH: what the additional indexes hold. *)

\* traverseMeta visits every leaf under a keyword, once for each index.
LEMMA IndexStepsHave ==
    ASSUME NEW r, r.quid \in Quid, r.from \in {"client", "master"},
           NEW e \in Range(Leaves(r.quid, r.from)), lower[e.key] \in Keyword
    PROVE  <<"uki", lower[e.key]>> \in Range(IndexSteps(r)) /\ <<"fti", e.value>> \in Range(IndexSteps(r))
<1> DEFINE leaves == Leaves(r.quid, r.from)
           pair(x) == << <<"uki", lower[x.key]>>, <<"fti", x.value>> >>
           steps == [i \in DOMAIN leaves |-> IF lower[leaves[i].key] \in Keyword THEN pair(leaves[i]) ELSE <<>>]
<1>1. leaves \in Seq(Entry) /\ \A x \in Range(leaves) : lower[x.key] \in STRING
  BY LeavesType
<1>2. e \in Range(leaves)
  OBVIOUS
<1> HIDE DEF leaves
<1>3. /\ Len(leaves) \in Nat /\ DOMAIN leaves = 1..Len(leaves)
      /\ \A i \in 1..Len(leaves) : leaves[i] \in Entry /\ lower[leaves[i].key] \in STRING
  BY <1>1 DEF Range
<1>4. PICK i \in 1..Len(leaves) : leaves[i] = e
  BY <1>2, <1>3 DEF Range
<1>5. \A x \in Entry : lower[x.key] \in STRING => pair(x) \in Seq(IndexStep)
  BY DEF Entry, IndexStep
<1>6. steps \in Seq(Seq(IndexStep)) /\ Len(steps) = Len(leaves)
  <2>1. \A j \in 1..Len(leaves) : steps[j] \in Seq(IndexStep)
    BY <1>3, <1>5
  <2> HIDE DEF pair
  <2> QED BY <1>3, <2>1
<1>7. steps[i] = pair(e)
  BY <1>3, <1>4
<1>8. Range(pair(e)) = {<<"uki", lower[e.key]>>, <<"fti", e.value>>}
  <2> DEFINE A == <<"uki", lower[e.key]>>
             B == <<"fti", e.value>>
  <2> HIDE DEF A, B
  <2>1. Range(<<A, B>>) = {A, B}
    <3>1. DOMAIN <<A, B>> = {1, 2} /\ <<A, B>>[1] = A /\ <<A, B>>[2] = B
      OBVIOUS
    <3> QED BY <3>1 DEF Range
  <2> QED BY <2>1 DEF A, B
<1>9. IndexSteps(r) = FlattenSeq(steps)
  BY DEF IndexSteps, leaves
<1> HIDE DEF steps, pair
<1> QED BY <1>4, <1>6, <1>7, <1>8, <1>9, FlattenRange

\* A step of any request.
Step == {<<"lfb">>, <<"adi">>, <<"ari">>, <<"read">>} \cup IndexStep

LEMMA StepsHave ==
    ASSUME NEW r \in Requests \cup FromMaster
    PROVE  /\ Steps(r) \in Seq(Step)
           /\ r.action \in {"INSERT", "UPDATE"} /\ ~Dropping(r) => Range(IndexSteps(r)) \subseteq Range(Steps(r))
<1> DEFINE A == <<"adi">>
           B == <<"ari">>
           C == <<"lfb">>
           D == <<"read">>
<1>1. A \in Step /\ B \in Step /\ C \in Step /\ D \in Step /\ IndexStep \subseteq Step
  BY DEF Step
<1>2. CASE r.action \in {"INSERT", "UPDATE"} /\ ~Dropping(r)
  <2> DEFINE s == IndexSteps(r)
             front == (IF r.content \in Large THEN <<C>> ELSE <<>>) \o <<A, B>>
  <2>1. s \in Seq(IndexStep)
    BY <1>2, RequestFields, IndexStepsType
  <2>2. Steps(r) = front \o s
    BY <1>2 DEF Dropping, Steps, StoreSteps
  <2> HIDE DEF A, B, C, s
  <2>3. s \in Seq(Step)
    BY <1>1, <2>1
  <2>4. front \in Seq(Step)
    <3>1. (IF r.content \in Large THEN <<C>> ELSE <<>>) \in Seq(Step) /\ <<A, B>> \in Seq(Step)
      BY <1>1
    <3> QED BY <3>1
  <2> HIDE DEF front
  <2>5. Range(front \o s) = Range(front) \cup Range(s) /\ front \o s \in Seq(Step)
    BY <2>3, <2>4, RangeConcatenation
  <2> QED BY <2>2, <2>5 DEF s
<1>3. CASE r.action \notin {"INSERT", "UPDATE"} \/ Dropping(r)
  <2>1. Steps(r) = <<A, B>> \/ Steps(r) = <<D>> \/ Steps(r) = <<>>
    BY <1>3, StepsStage DEF Steps
  <2> HIDE DEF A, B, D
  <2>2. <<A, B>> \in Seq(Step) /\ <<D>> \in Seq(Step) /\ <<>> \in Seq(Step)
    BY <1>1
  <2> QED BY <1>3, <2>1, <2>2
<1> QED BY <1>2, <1>3

\* The indexes list the record of q under every keyword of its meta, and under the
\* value there, as a request from `from` leaves it.
Source(q) == IF q \in copied THEN "master" ELSE "client"
Listed(q, from) ==
    \A e \in Range(Leaves(q, from)) :
        lower[e.key] \in Keyword => q \in Range(Uki[lower[e.key]]) /\ q \in Range(Fti[e.value])

\* Past ari.put or ari.remove, where a record that was cut before is whole again
\* and the indexes have not caught up.
Listing(q) == Working /\ req.quid = q /\ result = "SUCCESS" /\ AtIndex(todo)

\* Records that were accepted and neither cut nor thrown away are listed ...
RecordsListed ==
    \A q \in Quid :
        accepted[q] # None /\ q \notin cut \cup dropped /\ ~Listing(q) => Listed(q, Source(q))

\* ... and what a request has not yet listed, it still has to do.
ListsRest ==
    Working /\ req.action # "DELETE" /\ result = "SUCCESS" /\ (todo # <<>> \/ req.quid \notin cut) =>
        \A e \in Range(Leaves(req.quid, req.from)) :
            lower[e.key] \in Keyword =>
                /\ <<"uki", lower[e.key]>> \in Range(todo) \/ req.quid \in Range(Uki[lower[e.key]])
                /\ <<"fti", e.value>> \in Range(todo) \/ req.quid \in Range(Fti[e.value])

ListInv == todo \in Seq(Step) /\ RecordsListed /\ ListsRest

LEMMA ListInit == Init => ListInv
<1> SUFFICES ASSUME Init PROVE ListInv
  OBVIOUS
<1>1. todo \in Seq(Step) /\ ~Working /\ \A q \in Quid : accepted[q] = None
  BY DEF Init, Working
<1> QED BY <1>1 DEF ListInv, RecordsListed, ListsRest

\* Nothing is taken from an index.
Longer ==
    \A t \in Term : Range(Uki[t]) \subseteq Range(Uki'[t]) /\ Range(Fti[t]) \subseteq Range(Fti'[t])

LEMMA StaysListed ==
    ASSUME Longer, NEW q \in Quid, NEW from \in {"client", "master"}, Listed(q, from)
    PROVE  Listed(q, from)'
<1> SUFFICES ASSUME NEW e \in Range(Leaves(q, from)), lower[e.key] \in Keyword
             PROVE  q \in Range(Uki'[lower[e.key]]) /\ q \in Range(Fti'[e.value])
  BY DEF Listed
<1>1. lower[e.key] \in Term /\ e.value \in Term
  BY LeavesType DEF Term
<1> QED BY <1>1 DEF Listed, Longer

\* A record stays listed unless this step makes it one that was cut no more, or
\* ends the request that lists it.
LEMMA RecordsStayListed ==
    ASSUME RecordsListed, Longer, UNCHANGED <<accepted, copied, dropped>>,
           \A q \in Quid : q \notin cut' /\ ~Listing(q)' => q \notin cut /\ ~Listing(q)
    PROVE  RecordsListed'
<1> SUFFICES ASSUME NEW q \in Quid, accepted[q] # None, q \notin cut', q \notin dropped, ~Listing(q)'
             PROVE  Listed(q, Source(q))'
  BY DEF RecordsListed
<1>1. Source(q)' = Source(q) /\ Source(q) \in {"client", "master"}
  BY DEF Source
<1>2. Listed(q, Source(q))
  BY DEF RecordsListed
<1>3. PICK from \in {"client", "master"} : from = Source(q)
  BY <1>1
<1>4. Listed(q, from)'
  BY <1>2, <1>3, StaysListed
<1> QED BY <1>1, <1>3, <1>4

\* The rest of a sequence, without its first element.
LEMMA TailRange ==
    ASSUME NEW S, NEW s \in Seq(S), s # <<>>, NEW x \in Range(s), x # Head(s)
    PROVE  x \in Range(Tail(s))
<1>1. Len(s) \in Nat \ {0} /\ DOMAIN s = 1..Len(s)
  OBVIOUS
<1>2. PICK i \in 1..Len(s) : s[i] = x
  BY <1>1 DEF Range
<1>3. i # 1 /\ i - 1 \in 1..(Len(s) - 1)
  BY <1>1, <1>2
<1>4. DOMAIN Tail(s) = 1..(Len(s) - 1) /\ Tail(s)[i - 1] = s[i]
  BY <1>1, <1>3
<1> QED BY <1>2, <1>3, <1>4 DEF Range

\* A step of a request that writes, other than to the indexes.
LEMMA WriteLists ==
    ASSUME RecordInv, ListInv, Working, todo # <<>>, Head(todo)[1] \notin {"uki", "fti"},
           UNCHANGED <<req, result, accepted, copied, dropped>>, Uki' = Uki, Fti' = Fti,
           todo' = Tail(todo),
           \/ cut' = cut
           \/ cut' = cut \ {req.quid} /\ Head(todo)[1] = "ari"
    PROVE  ListInv'
<1>0. todo \in Seq(Step) /\ RecordsListed /\ ListsRest /\ result = "SUCCESS"
  BY AtStep DEF ListInv
<1>1. todo' \in Seq(Step) /\ Longer
  BY <1>0 DEF Longer
<1>2. ~AtIndex(todo) /\ (Head(todo)[1] = "ari" => AtIndex(todo'))
  BY AtStep, NextStep
<1>3. \A q \in Quid : q \notin cut' /\ ~Listing(q)' => q \notin cut /\ ~Listing(q)
  <2> SUFFICES ASSUME NEW q \in Quid, q \notin cut', ~Listing(q)', q \in cut PROVE FALSE
    BY <1>2 DEF Listing
  <2>1. q = req.quid /\ AtIndex(todo')
    BY <1>2
  <2> QED BY <1>0, <2>1 DEF Listing, Working
<1>4. RecordsListed'
  BY <1>0, <1>1, <1>3, RecordsStayListed
<1>5. ListsRest'
  <2> SUFFICES ASSUME Working', req'.action # "DELETE",
                      NEW e \in Range(Leaves(req.quid, req.from)), lower[e.key] \in Keyword
               PROVE  /\ <<"uki", lower[e.key]>> \in Range(todo') \/ req.quid \in Range(Uki[lower[e.key]])
                      /\ <<"fti", e.value>> \in Range(todo') \/ req.quid \in Range(Fti[e.value])
    BY DEF ListsRest
  <2>1. /\ <<"uki", lower[e.key]>> \in Range(todo) \/ req.quid \in Range(Uki[lower[e.key]])
        /\ <<"fti", e.value>> \in Range(todo) \/ req.quid \in Range(Fti[e.value])
    BY <1>0 DEF ListsRest
  <2>2. <<"uki", lower[e.key]>> # Head(todo) /\ <<"fti", e.value>> # Head(todo)
    OBVIOUS
  <2> QED BY <1>0, <2>1, <2>2, TailRange
<1> QED BY <1>1, <1>4, <1>5 DEF ListInv

\* The end of a request that was refused, or cut: the rest is dropped.
LEMMA DropLists ==
    ASSUME RecordInv, ListInv, UNCHANGED <<accepted, copied, dropped, db>>, todo' = <<>>,
           \/ req' = None
           \/ req' = req /\ (result' # "SUCCESS" \/ req.quid \in cut' \/ ~Working),
           cut \subseteq cut',
           Working /\ AtIndex(todo) => req.quid \in cut'
    PROVE  ListInv'
<1>0. RecordsListed
  BY DEF ListInv
<1>1. todo' \in Seq(Step) /\ Longer
  BY DEF Longer, Uki, Fti
<1>2. \A q \in Quid : q \notin cut' => q \notin cut /\ ~Listing(q)
  BY DEF Listing
<1>3. RecordsListed'
  BY <1>0, <1>1, <1>2, RecordsStayListed
<1>4. ListsRest'
  BY DEF ListsRest, Working
<1> QED BY <1>1, <1>3, <1>4 DEF ListInv

\* A duplicate is added at the end of its list.
LEMMA AppendLists ==
    ASSUME NEW f \in [Term -> Seq(Quid)], NEW q \in Quid, NEW t,
           NEW g, g = [f EXCEPT ![t] = Append(f[t], q)]
    PROVE  /\ \A k \in Term : Range(f[k]) \subseteq Range(g[k])
           /\ t \in Term => q \in Range(g[t])
<1>1. ASSUME NEW s \in Seq(Quid) PROVE Range(Append(s, q)) = Range(s) \cup {q}
  <2>1. Append(s, q) = s \o <<q>> /\ <<q>> \in Seq(Quid)
    OBVIOUS
  <2>2. Range(<<q>>) = {q}
    BY DEF Range
  <2>3. PICK u \in Seq(Quid) : u = <<q>>
    BY <2>1
  <2>4. Range(s \o u) = Range(s) \cup Range(u)
    BY RangeConcatenation
  <2> QED BY <2>1, <2>2, <2>3, <2>4
<1>2. \A k \in Term : f[k] \in Seq(Quid) /\ g[k] = IF k = t THEN Append(f[t], q) ELSE f[k]
  OBVIOUS
<1> QED BY <1>1, <1>2

LEMMA PutIndexLists ==
    ASSUME RecordInv, ListInv, NEW index \in {"uki", "fti"}, PutIndex(index)
    PROVE  ListInv'
<1>0. todo \in Seq(Step) /\ RecordsListed /\ ListsRest
  BY DEF ListInv
<1>1. num # None /\ todo # <<>> /\ Head(todo)[1] = index
  BY DEF PutIndex, Doing
<1>2. Working /\ AtIndex(todo) /\ result = "SUCCESS"
  BY <1>1, AtStep
<1>3. PICK q \in Quid : q = req.quid
  BY <1>2, Types
<1>4. num = 0 /\ Uki \in [Term -> Seq(Quid)] /\ Fti \in [Term -> Seq(Quid)]
  BY <1>1, Types DEF Db, Uki, Fti
<1>5. UNCHANGED <<req, result, accepted, copied, dropped, cut>> /\ todo' = Tail(todo)
  BY DEF PutIndex, Proceed, history
<1> DEFINE t == Head(todo)[2]
<1>6. db' = [db EXCEPT ![num][index][t] = Append(@, q)]
  BY <1>3 DEF PutIndex
<1>7. Head(todo) = <<index, t>>
  <2>1. Head(todo) \in IndexStep
    BY <1>1, <1>2 DEF AtIndex
  <2> QED BY <1>1, <2>1 DEF IndexStep
<1> HIDE DEF t
<1>8. /\ index = "uki" => Uki' = [Uki EXCEPT ![t] = Append(Uki[t], q)] /\ Fti' = Fti
      /\ index = "fti" => Fti' = [Fti EXCEPT ![t] = Append(Fti[t], q)] /\ Uki' = Uki
  BY <1>4, <1>6, PutTerm
<1>9. /\ Longer
      /\ t \in Term => /\ index = "uki" => q \in Range(Uki'[t])
                       /\ index = "fti" => q \in Range(Fti'[t])
  <2>1. CASE index = "uki"
    BY <1>4, <1>8, <2>1, AppendLists DEF Longer
  <2>2. CASE index = "fti"
    BY <1>4, <1>8, <2>2, AppendLists DEF Longer
  <2> QED BY <2>1, <2>2
<1>10. todo' \in Seq(Step) /\ AtIndex(todo')
  BY <1>0, <1>1, <1>2, <1>5, NextStep
<1>11. RecordsListed'
  BY <1>0, <1>2, <1>5, <1>9, <1>10, RecordsStayListed DEF Listing, Working
<1>12. ListsRest'
  <2> SUFFICES ASSUME req'.action # "DELETE",
                      NEW e \in Range(Leaves(req.quid, req.from)), lower[e.key] \in Keyword
               PROVE  /\ <<"uki", lower[e.key]>> \in Range(todo') \/ req.quid \in Range(Uki'[lower[e.key]])
                      /\ <<"fti", e.value>> \in Range(todo') \/ req.quid \in Range(Fti'[e.value])
    BY <1>5 DEF ListsRest
  <2>1. /\ <<"uki", lower[e.key]>> \in Range(todo) \/ q \in Range(Uki[lower[e.key]])
        /\ <<"fti", e.value>> \in Range(todo) \/ q \in Range(Fti[e.value])
    BY <1>0, <1>1, <1>2, <1>3, <1>5 DEF ListsRest
  <2>2. lower[e.key] \in Term /\ e.value \in Term
    <3>1. req.from \in {"client", "master"}
      BY <1>2, Types, RequestFields
    <3> QED BY <1>3, <3>1, LeavesType DEF Term
  <2>3. <<"uki", lower[e.key]>> \in Range(todo') \/ q \in Range(Uki'[lower[e.key]])
    <3>1. CASE q \in Range(Uki[lower[e.key]])
      BY <1>9, <2>2, <3>1 DEF Longer
    <3>2. CASE <<"uki", lower[e.key]>> \in Range(todo) /\ <<"uki", lower[e.key]>> # Head(todo)
      BY <1>0, <1>1, <1>5, <3>2, TailRange
    <3>3. CASE <<"uki", lower[e.key]>> = Head(todo)
      <4>1. index = "uki" /\ t = lower[e.key]
        BY <1>7, <3>3
      <4> QED BY <1>9, <2>2, <4>1
    <3> QED BY <2>1, <3>1, <3>2, <3>3
  <2>4. <<"fti", e.value>> \in Range(todo') \/ q \in Range(Fti'[e.value])
    <3>1. CASE q \in Range(Fti[e.value])
      BY <1>9, <2>2, <3>1 DEF Longer
    <3>2. CASE <<"fti", e.value>> \in Range(todo) /\ <<"fti", e.value>> # Head(todo)
      BY <1>0, <1>1, <1>5, <3>2, TailRange
    <3>3. CASE <<"fti", e.value>> = Head(todo)
      <4>1. index = "fti" /\ t = e.value
        BY <1>7, <3>3
      <4> QED BY <1>9, <2>2, <4>1
    <3> QED BY <2>1, <3>1, <3>2, <3>3
  <2> QED BY <1>3, <2>3, <2>4
<1> QED BY <1>10, <1>11, <1>12 DEF ListInv

LEMMA TakeLists ==
    ASSUME RecordInv, ListInv, NEW r \in Requests \cup FromMaster, Take(r)
    PROVE  ListInv'
<1>1. /\ req = None /\ req' = r /\ todo' = Steps(r)
      /\ UNCHANGED <<db, accepted, copied, dropped, cut>>
  BY DEF Take, Idle, files, history
<1>2. todo' \in Seq(Step) /\ Longer
  BY <1>1, StepsHave DEF Longer, Uki, Fti
<1>3. RecordsListed'
  <2>1. \A q \in Quid : ~Listing(q)
    BY <1>1 DEF Listing, Working
  <2> QED BY <1>1, <1>2, <2>1, RecordsStayListed DEF ListInv
<1>4. ListsRest'
  <2> SUFFICES ASSUME r.action \in {"INSERT", "UPDATE"}, ~Dropping(r),
                      NEW e \in Range(Leaves(r.quid, r.from)), lower[e.key] \in Keyword
               PROVE  <<"uki", lower[e.key]>> \in Range(Steps(r)) /\ <<"fti", e.value>> \in Range(Steps(r))
    BY <1>1 DEF ListsRest, Working, Writes
  <2>1. r.quid \in Quid /\ r.from \in {"client", "master"}
    BY RequestFields
  <2> QED BY <2>1, IndexStepsHave, StepsHave
<1> QED BY <1>2, <1>3, <1>4 DEF ListInv

LEMMA ReplyLists == ASSUME RecordInv, ListInv, Reply PROVE ListInv'
<1>0. todo \in Seq(Step) /\ RecordsListed /\ ListsRest /\ ServiceType
  BY DEF ListInv, RecordInv
<1>1. /\ req # None /\ todo = <<>> /\ req' = None /\ todo' = todo
      /\ UNCHANGED <<db, cut>>
      /\ accepted' = IF req.action = "SEARCH" THEN accepted ELSE [accepted EXCEPT ![req.quid] = Accept]
      /\ copied' = IF result # "SUCCESS" \/ ~Writes(req) THEN copied
                   ELSE IF req.from = "master" THEN copied \cup {req.quid} ELSE copied \ {req.quid}
      /\ dropped' = IF result # "SUCCESS" \/ ~Writes(req) THEN dropped
                    ELSE IF req.form = "malformed" THEN dropped \cup {req.quid} ELSE dropped \ {req.quid}
  BY DEF Reply, files
<1>2. ListsRest' /\ Longer /\ \A q \in Quid : ~Listing(q)'
  BY <1>1 DEF ListsRest, Longer, Uki, Fti, Listing, Working
<1>3. accepted \in [Quid -> Content \cup {None}] /\ req \in Requests \cup FromMaster
  BY <1>0, <1>1 DEF RecordInv, HistoryType, ServiceType
<1>4. CASE result # "SUCCESS" \/ ~Writes(req)
  <2>1. UNCHANGED <<accepted, copied, dropped>>
    BY <1>1, <1>3, <1>4 DEF Accept
  <2>2. \A q \in Quid : ~Listing(q)
    BY <1>4 DEF Listing, Working
  <2>3. RecordsListed'
    BY <1>0, <1>1, <1>2, <2>1, <2>2, RecordsStayListed
  <2> QED BY <1>0, <1>1, <1>2, <2>3 DEF ListInv
<1>5. CASE result = "SUCCESS" /\ Writes(req)
  <2>1. req.action \in {"INSERT", "UPDATE", "DELETE"}
    BY <1>5 DEF Writes
  <2>2. PICK q \in Quid : q = req.quid
    BY <1>3, <2>1, RequestFields
  <2>3. accepted'[q] = Accept /\ \A p \in Quid : p # q => accepted'[p] = accepted[p]
    BY <1>1, <1>3, <2>1, <2>2
  <2>4. req.from \in {"client", "master"}
    BY <1>3, RequestFields
  <2>5. Source(q)' = req.from /\ \A p \in Quid : p # q => Source(p)' = Source(p)
    BY <1>1, <1>5, <2>2, <2>4 DEF Source
  <2>6. ASSUME NEW p \in Quid, accepted'[p] # None, p \notin cut, p \notin dropped'
        PROVE  Listed(p, Source(p))'
    <3>1. CASE p # q
      <4>1. Listed(p, Source(p)) /\ Source(p) \in {"client", "master"}
        BY <1>0, <1>1, <2>2, <2>3, <2>6, <3>1 DEF RecordsListed, Listing, Source
      <4>2. PICK from \in {"client", "master"} : from = Source(p)
        BY <4>1
      <4>3. Listed(p, from)'
        BY <1>2, <4>1, <4>2, StaysListed
      <4> QED BY <2>5, <3>1, <4>2, <4>3
    <3>2. CASE p = q
      <4>1. req.action # "DELETE" /\ Working
        BY <1>1, <1>5, <2>2, <2>3, <2>6, <3>2 DEF Accept, Working, Dropping
      <4>2. Range(todo) = {}
        BY <1>1 DEF Range
      <4>3. PICK from \in {"client", "master"} : from = req.from
        BY <2>4
      <4>4. Listed(q, from)
        BY <1>0, <1>5, <2>2, <2>6, <3>2, <4>1, <4>2, <4>3 DEF ListsRest, Listed
      <4>5. Listed(q, from)'
        BY <1>2, <4>4, StaysListed
      <4> QED BY <2>5, <3>2, <4>3, <4>5
    <3> QED BY <3>1, <3>2
  <2>7. RecordsListed'
    BY <1>1, <2>6 DEF RecordsListed
  <2> QED BY <1>0, <1>1, <1>2, <2>7 DEF ListInv
<1> QED BY <1>4, <1>5

LEMMA PutLargeLists == ASSUME RecordInv, ListInv, PutLarge PROVE ListInv'
<1>1. num # None /\ todo # <<>> /\ Head(todo)[1] = "lfb"
  BY DEF PutLarge, Doing
<1>2. UNCHANGED <<db, req, result, accepted, copied, dropped, cut>> /\ todo' = Tail(todo)
  BY DEF PutLarge, Proceed
<1>3. Working /\ Uki' = Uki /\ Fti' = Fti
  BY <1>1, <1>2, AtStep DEF Uki, Fti
<1> QED BY <1>1, <1>2, <1>3, WriteLists

\* A put or remove of the content or of the record, done or refused.
LEMMA EngineLists ==
    ASSUME RecordInv, ListInv, NEW index \in {"adi", "ari"}, Doing(index),
           UNCHANGED <<req, accepted, copied, dropped>>,
           \/ /\ Uki' = Uki /\ Fti' = Fti /\ Proceed
              /\ cut' = cut \/ (cut' = cut \ {req.quid} /\ index = "ari")
           \/ /\ UNCHANGED <<db, cut>>
              /\ \E e \in {"DUPLICATE", "NOTFOUND"} : Fail(e)
    PROVE  ListInv'
<1>1. num # None /\ todo # <<>> /\ Head(todo)[1] = index
  BY DEF Doing
<1>2. Working /\ ~AtIndex(todo)
  BY <1>1, AtStep, NextStep
<1>3. CASE Uki' = Uki /\ Fti' = Fti /\ Proceed /\ (cut' = cut \/ (cut' = cut \ {req.quid} /\ index = "ari"))
  BY <1>1, <1>2, <1>3, WriteLists DEF Proceed
<1>4. CASE UNCHANGED <<db, cut>> /\ \E e \in {"DUPLICATE", "NOTFOUND"} : Fail(e)
  <2>1. todo' = <<>> /\ result' # "SUCCESS"
    BY <1>4 DEF Fail
  <2> QED BY <1>2, <1>4, <2>1, DropLists
<1> QED BY <1>3, <1>4

LEMMA PutDataLists == ASSUME RecordInv, ListInv, PutData PROVE ListInv'
<1>1. Doing("adi") /\ num # None /\ todo # <<>> /\ Head(todo)[1] = "adi" /\ req.action # "DELETE"
  BY DEF PutData, Doing
<1>2. Working /\ num = 0 /\ req.quid \in Quid /\ req.content \in Content
  BY <1>1, AtStep, Types, RequestFields DEF Working, Writes
<1>3. UNCHANGED <<req, accepted, copied, dropped, cut>>
  BY DEF PutData
<1> DEFINE v == IF req.content \in Large THEN "lfb" ELSE req.content
<1>4. CASE Put("adi", v) /\ Proceed
  <2>1. v \in Content \cup {"lfb", None} /\ db' = [db EXCEPT ![num]["adi"][req.quid] = v]
    BY <1>2, <1>4 DEF Put
  <2> HIDE DEF v
  <2>2. Uki' = Uki /\ Fti' = Fti
    BY <1>2, <2>1, PutAdi
  <2> QED BY <1>1, <1>3, <1>4, <2>2, EngineLists
<1>5. CASE Fail("DUPLICATE") /\ UNCHANGED db
  BY <1>1, <1>3, <1>5, EngineLists
<1> QED BY <1>4, <1>5 DEF PutData

LEMMA PutRecordLists == ASSUME RecordInv, ListInv, PutRecord PROVE ListInv'
<1>1. Doing("ari") /\ num # None /\ todo # <<>> /\ Head(todo)[1] = "ari"
  BY DEF PutRecord, Doing
<1>2. Working /\ num = 0 /\ req.quid \in Quid
  BY <1>1, AtStep, Types
<1>3. UNCHANGED <<req, accepted, copied, dropped>>
  BY DEF PutRecord
<1>4. CASE Put("ari", TRUE) /\ cut' = cut \ {req.quid} /\ Proceed
  <2>1. db' = [db EXCEPT ![num]["ari"][req.quid] = TRUE]
    BY <1>4 DEF Put
  <2>2. Uki' = Uki /\ Fti' = Fti
    BY <1>2, <2>1, PutAri
  <2> QED BY <1>1, <1>3, <1>4, <2>2, EngineLists
<1>5. CASE Fail("DUPLICATE") /\ UNCHANGED <<db, cut>>
  BY <1>1, <1>3, <1>5, EngineLists
<1> QED BY <1>4, <1>5 DEF PutRecord

LEMMA RemoveDataLists == ASSUME RecordInv, ListInv, RemoveData PROVE ListInv'
<1>1. Doing("adi") /\ num # None /\ todo # <<>> /\ Head(todo)[1] = "adi"
  BY DEF RemoveData, Doing
<1>2. Working /\ num = 0 /\ req.quid \in Quid
  BY <1>1, AtStep, Types
<1>3. UNCHANGED <<req, accepted, copied, dropped, cut>>
  BY DEF RemoveData
<1>4. CASE Put("adi", None) /\ Proceed
  <2>1. db' = [db EXCEPT ![num]["adi"][req.quid] = None]
    BY <1>4 DEF Put
  <2>2. Uki' = Uki /\ Fti' = Fti
    BY <1>2, <2>1, PutAdi
  <2> QED BY <1>1, <1>3, <1>4, <2>2, EngineLists
<1>5. CASE Fail("NOTFOUND") /\ UNCHANGED db
  BY <1>1, <1>3, <1>5, EngineLists
<1> QED BY <1>4, <1>5 DEF RemoveData

LEMMA RemoveRecordLists == ASSUME RecordInv, ListInv, RemoveRecord PROVE ListInv'
<1>1. Doing("ari") /\ num # None /\ todo # <<>> /\ Head(todo)[1] = "ari"
  BY DEF RemoveRecord, Doing
<1>2. Working /\ num = 0 /\ req.quid \in Quid
  BY <1>1, AtStep, Types
<1>3. UNCHANGED <<req, accepted, copied, dropped>>
  BY DEF RemoveRecord
<1>4. CASE Put("ari", FALSE) /\ cut' = cut \ {req.quid} /\ Proceed
  <2>1. db' = [db EXCEPT ![num]["ari"][req.quid] = FALSE]
    BY <1>4 DEF Put
  <2>2. Uki' = Uki /\ Fti' = Fti
    BY <1>2, <2>1, PutAri
  <2> QED BY <1>1, <1>3, <1>4, <2>2, EngineLists
<1>5. CASE Fail("NOTFOUND") /\ UNCHANGED <<db, cut>>
  BY <1>1, <1>3, <1>5, EngineLists
<1> QED BY <1>4, <1>5 DEF RemoveRecord

LEMMA QueryLists == ASSUME RecordInv, ListInv, Query PROVE ListInv'
<1>1. /\ todo # <<>> /\ Head(todo)[1] = "read" /\ UNCHANGED <<db, req, accepted, copied, dropped, cut>>
      /\ todo' \in {<<>>, Tail(todo)}
  BY DEF Query, Doing, files, history, Fail, Proceed
<1>2. ~Working /\ todo = << <<"read">> >>
  BY <1>1, AtStep DEF RecordInv, ServiceType
<1>3. todo' = <<>>
  BY <1>1, <1>2
<1> QED BY <1>1, <1>2, <1>3, DropLists

\* A cut request leaves its record marked.
LEMMA CutLists ==
    ASSUME RecordInv, ListInv, UNCHANGED <<db, accepted, copied, dropped>>, todo' = <<>>, cut' = Cut,
           req' \in {req, None}
    PROVE  ListInv'
<1>1. cut \subseteq cut' /\ (Working => req.quid \in cut')
  BY DEF Cut, Working
<1> QED BY <1>1, DropLists

LEMMA IdleLists ==
    ASSUME ListInv, UNCHANGED <<db, req, todo, result, accepted, copied, dropped, cut>>
    PROVE  ListInv'
<1>1. Longer /\ todo' \in Seq(Step) /\ \A q \in Quid : Listing(q)' <=> Listing(q)
  BY DEF Longer, Uki, Fti, ListInv, Listing, Working
<1>2. RecordsListed'
  BY <1>1, RecordsStayListed DEF ListInv
<1>3. ListsRest'
  BY DEF ListInv, ListsRest, Working, Uki, Fti
<1> QED BY <1>1, <1>2, <1>3 DEF ListInv

LEMMA ListStep == RecordInv /\ ListInv /\ [Next]_vars => ListInv'
<1> SUFFICES ASSUME RecordInv, ListInv, [Next]_vars PROVE ListInv'
  OBVIOUS
<1>1. ASSUME NEW r \in Requests, TakeFromClient(r) PROVE ListInv'
  BY <1>1, TakeLists DEF TakeFromClient
<1>2. CASE TakeMaster
  BY <1>2, TakeLists DEF TakeMaster, TakeFromMaster
<1>3. CASE MasterForward \/ Exit \/ Restart \/ UNCHANGED vars
  <2>1. UNCHANGED <<db, req, todo, result, accepted, copied, dropped, cut>>
    BY <1>3 DEF MasterForward, Exit, Restart, vars, files, service, history
  <2> QED BY <2>1, IdleLists
<1>4. CASE Work
  BY <1>4, PutLargeLists, PutDataLists, PutRecordLists, PutIndexLists, RemoveDataLists,
     RemoveRecordLists, QueryLists, ReplyLists DEF Work, PutKey, PutText
<1>5. CASE DatabaseError \/ Crash
  BY <1>5, CutLists DEF DatabaseError, Crash, files
<1> QED BY <1>1, <1>2, <1>3, <1>4, <1>5 DEF Next

LEMMA ListAlways == Spec => []ListInv
  BY RecordAlways, ListInit, ListStep, PTL DEF Spec

\* The elements of a concatenation, by their places.
LEMMA ConcatIs ==
    ASSUME NEW S, NEW s \in Seq(S), NEW t \in Seq(S)
    PROVE  /\ s \o t \in Seq(S) /\ DOMAIN (s \o t) = 1..(Len(s) + Len(t))
           /\ \A i \in 1..Len(s) : (s \o t)[i] = s[i]
           /\ \A i \in 1..Len(t) : (s \o t)[Len(s) + i] = t[i] /\ Len(s) + i \in 1..(Len(s) + Len(t))
  OBVIOUS

\* getMulti adds no QUID that the list has, and all of them when none comes twice.
LEMMA GetMultiIs ==
    ASSUME NEW list \in Seq(Quid), NEW dups \in Seq(Quid), IsInjective(list)
    PROVE  /\ GetMulti(list, dups) \in Seq(Quid) /\ IsInjective(GetMulti(list, dups))
           /\ IsInjective(list \o dups) => GetMulti(list, dups) = list \o dups
<1> DEFINE seen(i) == dups[i] \in Range(list) \cup {dups[j] : j \in 1..(i - 1)}
           stuck == Stuck(list, dups)
           n == IF stuck = {} THEN Len(dups) ELSE Min(stuck) - 1
           more == SubSeq(dups, 1, n)
<1>0. GetMulti(list, dups) = list \o more
  BY DEF GetMulti
<1>1. /\ Len(list) \in Nat /\ DOMAIN list = 1..Len(list)
      /\ Len(dups) \in Nat /\ DOMAIN dups = 1..Len(dups)
  OBVIOUS
<1>a. stuck = {i \in DOMAIN dups : seen(i)}
  BY DEF Stuck
<1> HIDE DEF seen, stuck
<1>2. n \in 0..Len(dups) /\ \A i \in 1..n : ~seen(i)
  <2>1. CASE stuck = {}
    BY <1>1, <1>a, <2>1
  <2>2. CASE stuck # {}
    <3>1. stuck \in SUBSET Nat
      BY <1>1, <1>a
    <3>2. Min(stuck) \in stuck /\ \A x \in stuck : Min(stuck) <= x
      BY <2>2, <3>1, MinOfNats
    <3>3. PICK m \in 1..Len(dups) : m = Min(stuck) /\ \A x \in stuck : m <= x
      BY <1>1, <1>a, <3>2
    <3>4. n = m - 1
      BY <2>2, <3>3
    <3>5. ASSUME NEW i \in 1..(m - 1) PROVE ~seen(i)
      <4>1. i \in DOMAIN dups /\ i < m
        BY <1>1, <3>3
      <4>2. i \notin stuck
        BY <3>1, <3>3, <4>1
      <4> QED BY <1>a, <4>1, <4>2
    <3> HIDE DEF n
    <3>6. n \in 0..Len(dups)
      BY <1>1, <3>3, <3>4
    <3> QED BY <3>4, <3>5, <3>6
  <2> QED BY <2>1, <2>2
<1> HIDE DEF n
<1>3. more \in Seq(Quid) /\ Len(more) = n /\ \A i \in 1..n : more[i] = dups[i]
  BY <1>1, <1>2
<1> HIDE DEF more
<1> DEFINE res == list \o more
<1>4. /\ res \in Seq(Quid) /\ DOMAIN res = 1..(Len(list) + n)
      /\ \A i \in 1..Len(list) : res[i] = list[i]
      /\ \A i \in 1..n : res[Len(list) + i] = dups[i]
  <2>1. \A i \in 1..Len(more) : res[Len(list) + i] = more[i]
    BY <1>3, ConcatIs
  <2>2. res \in Seq(Quid) /\ DOMAIN res = 1..(Len(list) + Len(more)) /\ \A i \in 1..Len(list) : res[i] = list[i]
    BY <1>3, ConcatIs
  <2> QED BY <1>3, <2>1, <2>2
<1> HIDE DEF res
<1>5. \A i \in 1..n : dups[i] \notin Range(list) /\ \A j \in 1..(i - 1) : dups[i] # dups[j]
  BY <1>2 DEF seen
<1>6. IsInjective(res)
  <2> SUFFICES ASSUME NEW i \in DOMAIN res, NEW j \in DOMAIN res, i < j, res[i] = res[j]
               PROVE  FALSE
    BY <1>1, <1>2, <1>4 DEF IsInjective
  <2> DEFINE l == Len(list)
  <2>1. i \in 1..(l + n) /\ j \in 1..(l + n) /\ l \in Nat /\ n \in Nat
    BY <1>1, <1>2, <1>4
  <2>2. CASE j <= l
    <3>1. i \in 1..l /\ j \in 1..l
      BY <2>1, <2>2
    <3> QED BY <1>1, <1>4, <2>1, <3>1 DEF IsInjective
  <2>3. CASE j > l
    <3>1. PICK b \in 1..n : j = l + b
      <4>1. j - l \in 1..n /\ j = l + (j - l)
        BY <2>1, <2>3
      <4> QED BY <4>1
    <3>2. res[j] = dups[b]
      BY <1>4, <3>1
    <3>3. CASE i <= l
      <4>1. i \in 1..l
        BY <2>1, <3>3
      <4>2. list[i] \in Range(list)
        BY <1>1, <4>1 DEF Range
      <4> QED BY <1>4, <1>5, <3>2, <4>1, <4>2
    <3>4. CASE i > l
      <4>1. i - l \in 1..n /\ i = l + (i - l) /\ i - l \in 1..(b - 1)
        BY <2>1, <3>1, <3>4
      <4>2. PICK a \in 1..(b - 1) : a \in 1..n /\ i = l + a
        BY <4>1
      <4>3. res[i] = dups[a]
        BY <1>4, <4>2
      <4> QED BY <1>5, <3>2, <4>2, <4>3
    <3> QED BY <2>1, <3>3, <3>4
  <2> QED BY <2>1, <2>2, <2>3
<1>7. ASSUME IsInjective(list \o dups) PROVE more = dups
  <2> DEFINE all == list \o dups
             l == Len(list)
  <2>1. /\ DOMAIN all = 1..(l + Len(dups))
        /\ \A i \in 1..l : all[i] = list[i]
        /\ \A i \in 1..Len(dups) : all[l + i] = dups[i] /\ l + i \in 1..(l + Len(dups))
    BY ConcatIs
  <2>2. IsInjective(all)
    BY <1>7
  <2> HIDE DEF all
  <2>3. ASSUME NEW i \in DOMAIN dups PROVE ~seen(i)
    <3>1. i \in 1..Len(dups) /\ all[l + i] = dups[i] /\ l + i \in DOMAIN all
      BY <1>1, <2>1
    <3>2. dups[i] \notin Range(list)
      <4> SUFFICES ASSUME NEW k \in 1..l, list[k] = dups[i] PROVE FALSE
        BY <1>1 DEF Range
      <4>1. k \in DOMAIN all /\ all[k] = all[l + i] /\ k # l + i
        BY <1>1, <2>1, <3>1
      <4> QED BY <2>2, <3>1, <4>1 DEF IsInjective
    <3>3. ASSUME NEW j \in 1..(i - 1) PROVE dups[i] # dups[j]
      <4>1. j \in 1..Len(dups) /\ l + j # l + i
        BY <1>1, <3>1
      <4>2. l + j \in DOMAIN all /\ all[l + j] = dups[j]
        BY <2>1, <4>1
      <4> QED BY <2>2, <3>1, <4>1, <4>2 DEF IsInjective
    <3> QED BY <3>2, <3>3 DEF seen
  <2>4. stuck = {}
    BY <1>a, <2>3
  <2>5. n = Len(dups)
    BY <2>4 DEF n
  <2>6. \A i \in 1..Len(dups) : more[i] = dups[i]
    BY <1>3, <2>5
  <2> QED BY <1>3, <2>5, <2>6, SeqEqual
<1> QED BY <1>0, <1>4, <1>6, <1>7 DEF res

\* Without a double under the term, SEARCH sees both lists in full.
LEMMA HitsAre ==
    ASSUME RecordInv, num # None, NEW t \in Term
    PROVE  /\ Hits(t) \in Seq(Quid) /\ IsInjective(Hits(t))
           /\ ~Doubled(t) => Range(Hits(t)) = Range(Uki[t]) \cup Range(Fti[t])
<1> DEFINE u == Uki[t]
           f == Fti[t]
           first == GetMulti(<<>>, u)
<1>1. Open = db[0] /\ u \in Seq(Quid) /\ f \in Seq(Quid)
  BY Types DEF Db, Uki, Fti
<1>2. Hits(t) = GetMulti(first, f)
  BY <1>1 DEF Hits, KeyHits, Uki, Fti
<1> HIDE DEF u, f
<1>3. <<>> \in Seq(Quid) /\ IsInjective(<<>>) /\ <<>> \o u = u
  BY <1>1 DEF IsInjective
<1>4. first \in Seq(Quid) /\ IsInjective(first) /\ (IsInjective(u) => first = u)
  BY <1>1, <1>3, GetMultiIs
<1> HIDE DEF first
<1>5. Hits(t) \in Seq(Quid) /\ IsInjective(Hits(t)) /\ (IsInjective(first \o f) => Hits(t) = first \o f)
  BY <1>1, <1>2, <1>4, GetMultiIs
<1>6. ASSUME ~Doubled(t) PROVE Range(Hits(t)) = Range(Uki[t]) \cup Range(Fti[t])
  <2> DEFINE all == u \o f
             n == Len(all)
  <2>1. n = Cardinality(Range(all))
    BY <1>1, <1>6 DEF Doubled, u, f, Uki, Fti
  <2>2. /\ all \in Seq(Quid) /\ DOMAIN all = 1..n /\ n \in Nat /\ n = Len(u) + Len(f)
        /\ \A i \in 1..Len(u) : all[i] = u[i]
    BY <1>1, ConcatIs
  <2> HIDE DEF all, n
  <2>3. all \in Surjection(1..n, Range(all))
    <3>1. all \in [1..n -> Range(all)]
      BY <2>2 DEF Range
    <3> QED BY <2>2, <3>1 DEF Surjection, Range
  <2>4. IsFiniteSet(1..n) /\ Cardinality(1..n) = n
    BY <2>2, FS_Interval
  <2>5. all \in Injection(1..n, Range(all))
    BY <2>1, <2>3, <2>4, FS_SurjSameCardinalityImpliesInj
  <2>6. IsInjective(all)
    BY <2>2, <2>5 DEF Injection, IsInjective
  <2>7. IsInjective(u)
    <3>1. DOMAIN u = 1..Len(u) /\ Len(u) \in Nat /\ Len(f) \in Nat /\ \A i \in 1..Len(u) : i \in 1..n
      BY <1>1, <2>2
    <3> QED BY <2>2, <2>6, <3>1 DEF IsInjective
  <2>8. Hits(t) = u \o f
    BY <1>4, <1>5, <2>6, <2>7 DEF all
  <2> QED BY <1>1, <2>8, RangeConcatenation DEF u, f
<1> QED BY <1>5, <1>6

\* SEARCH between requests finds each record whose keyword, or value under one, is
\* the term: once, with the content last accepted, and never one that is not there;
\* for any records, meta and keywords, through deaths, errors and restarts, as long
\* as no QUID is indexed twice under the term and the term is not the greatest key
\* of an index.
THEOREM SearchFindsAllTheorem == Spec => []SearchFindsAll
<1>1. RecordInv /\ ListInv => SearchFindsAll
  <2> SUFFICES ASSUME RecordInv, ListInv, Idle, NEW t \in Term
               PROVE  LET found == Search(t)
                          leaves(q) == Leaves(q, IF q \in copied THEN "master" ELSE "client")
                          match(q) == \E e \in Range(leaves(q)) :
                                         lower[e.key] \in Keyword /\ t \in {lower[e.key], e.value}
                      IN  /\ \A i, j \in DOMAIN found : found[i][1] = found[j][1] => i = j
                          /\ \A q \in Quid \ Excepted :
                                /\ <<q, accepted[q]>> \in Range(found) => accepted[q] # None
                                /\ match(q) /\ accepted[q] # None /\ ~Doubled(t) /\ ~Greatest(t)
                                      => <<q, accepted[q]>> \in Range(found)
    BY DEF SearchFindsAll
  <2> DEFINE found == Search(t)
             hits == Hits(t)
             at == IF Throws(t) THEN {} ELSE {i \in DOMAIN hits : Open.ari[hits[i]]}
  <2>1. num # None /\ Open = db[0] /\ ~Working /\ req = None
    BY Types DEF Idle, Working
  <2>2. /\ hits \in Seq(Quid) /\ IsInjective(hits)
        /\ ~Doubled(t) => Range(hits) = Range(Uki[t]) \cup Range(Fti[t])
    BY <2>1, HitsAre
  <2>3. found = [i \in at |-> <<hits[i], Lookup(hits[i])>>]
    <3>1. [i \in {} |-> <<hits[i], Lookup(hits[i])>>] = <<>>
      OBVIOUS
    <3> QED BY <3>1 DEF Search
  <2>g. ~Greatest(t) => ~Throws(t)
    BY DEF Greatest, Throws
  <2> HIDE DEF hits
  <2>4. DOMAIN found = at /\ \A i \in at : i \in DOMAIN hits /\ found[i] = <<hits[i], Lookup(hits[i])>>
    BY <2>3
  <2>5. \A i, j \in DOMAIN found : found[i][1] = found[j][1] => i = j
    BY <2>2, <2>4 DEF IsInjective
  <2>6. ASSUME NEW q \in Quid, q \notin Excepted
        PROVE  /\ <<q, accepted[q]>> \in Range(found) => accepted[q] # None
               /\ (\E e \in Range(Leaves(q, Source(q))) : lower[e.key] \in Keyword /\ t \in {lower[e.key], e.value})
                     /\ accepted[q] # None /\ ~Doubled(t) /\ ~Greatest(t) => <<q, accepted[q]>> \in Range(found)
    <3>1. Settled(q) /\ LargePresent
      BY <2>1, <2>6 DEF RecordInv, Others
    <3>2. (Ari[q] <=> Adi[q] # None) /\ Stored(q) = accepted[q] /\ Lookup(q) = accepted[q]
      BY <2>1, <2>6, <3>1 DEF Excepted, Settled, Whole, Stored, Lookup, Restore, Adi, Ari
    <3>3. ASSUME <<q, accepted[q]>> \in Range(found) PROVE accepted[q] # None
      <4>1. PICK i \in at : hits[i] = q
        BY <2>4, <3>3 DEF Range
      <4>2. Ari[q]
        BY <2>1, <4>1 DEF Ari
      <4> QED BY <3>1, <3>2, <4>2 DEF Stored, LargePresent
    <3>4. ASSUME NEW e \in Range(Leaves(q, Source(q))), lower[e.key] \in Keyword, t \in {lower[e.key], e.value},
                 accepted[q] # None, ~Doubled(t), ~Greatest(t)
          PROVE  <<q, accepted[q]>> \in Range(found)
      <4>1. Listed(q, Source(q))
        BY <2>1, <2>6, <3>4 DEF Excepted, ListInv, RecordsListed, Listing
      <4>2. q \in Range(Uki[t]) \cup Range(Fti[t])
        BY <3>4, <4>1 DEF Listed
      <4>3. PICK i \in DOMAIN hits : hits[i] = q
        BY <2>2, <3>4, <4>2 DEF Range
      <4>4. i \in at
        BY <2>1, <2>g, <3>2, <3>4, <4>3 DEF Stored, Ari
      <4>5. found[i] = <<q, accepted[q]>>
        BY <2>4, <3>2, <4>3, <4>4
      <4> QED BY <2>4, <4>4, <4>5 DEF Range
    <3> QED BY <3>3, <3>4
  <2> QED BY <2>5, <2>6 DEF Source
<1> QED BY <1>1, RecordAlways, ListAlways, PTL
=============================================================================
