---------------------------- MODULE IngestProofs ----------------------------
(***************************************************************************)
(* Proofs about the scraper and the extractor of Ingest, for any items,    *)
(* any ruleset with an unknown rule, any number of commits, signals,       *)
(* children and extractor processes.                                       *)
(***************************************************************************)
EXTENDS Ingest, SetLemmas, TLAPS

Msg == [item : {Item[i] : i \in DOMAIN Item}, quid : Nat]
Acting == {"act", "store", "storing", "queue", "queuing"}
ChildState == Acting \cup {"parse", "unanswered", "done", "died"}
ChildRec == [msg : Msg, id : Nat, boot : Nat, state : ChildState, todo : Seq(Action)]

ScraperTypes ==
    /\ pushed \in 0..Len(Item)
    /\ datastack \in Seq(DOMAIN Item)
    /\ commit \in Seq(DOMAIN Item) \cup {None}
    /\ complete \in Nat /\ nextQuid \in Nat
    /\ socket \in {"send", "recv", "stuck"}

ExtractorTypes ==
    /\ dataCounter \in Nat /\ boots \in Nat
    /\ children \in Seq(ChildRec)
    /\ wire = "sent" => message \in Msg

\* A child that is about to act has something to do.
HasWork ==
    \A c \in DOMAIN children :
        children[c].state \in Acting => children[c].todo # <<>>

TypeInv == ScraperTypes /\ ExtractorTypes /\ HasWork

LEMMA ConstantFacts ==
    /\ Item \in Seq({Item[i] : i \in DOMAIN Item}) /\ DOMAIN Item = 1..Len(Item) /\ Len(Item) \in Nat
    /\ None \notin Seq(DOMAIN Item) /\ FirstId \in Nat
  BY IngestConstants, ExtractorConstants

\* A rule is found for every item, if only the unknown one.
LEMMA MatchType ==
    ASSUME NEW type, NEW name
    PROVE  /\ Match(Rules, type, name) \in Seq(Action) \cup {None}
           /\ type = "unknown" => Match(Rules, type, name) \in Seq(Action)
<1> DEFINE of == {i \in DOMAIN Rules : Rules[i].type = type}
<1>1. of \in SUBSET Nat /\ DOMAIN Rules = 1..Len(Rules)
  BY ExtractorConstants
<1>2. of # {} => Min(of) \in DOMAIN Rules
  BY <1>1, MinOfNats
<1>3. \A i \in DOMAIN Rules : Rules[i].actions \in Seq(Action)
  BY ExtractorConstants
<1>4. type = "unknown" => of # {}
  BY ExtractorConstants DEF VerifyRules
<1> QED BY <1>2, <1>3, <1>4 DEF Match

LEMMA RuleActionsType ==
    ASSUME NEW d
    PROVE  RuleActions(Rules, d) \in Seq(Action)
<1> DEFINE t == Tries(Rules, d)
           hits == {i \in DOMAIN t : t[i] # None}
<1>1. DOMAIN t = 1..5 /\ \A i \in 1..5 : t[i] \in Seq(Action) \cup {None}
  BY MatchType DEF Tries
<1>2. t[5] \in Seq(Action)
  BY MatchType DEF Tries
<1>3. 5 \in hits /\ hits \in SUBSET Nat
  BY <1>1, <1>2, ExtractorConstants
<1>4. Min(hits) \in hits
  BY <1>3, MinOfNats
<1>5. RuleActions(Rules, d) = t[Min(hits)]
  BY DEF RuleActions
<1> HIDE DEF t
<1> QED BY <1>1, <1>4, <1>5

LEMMA GoFacts ==
    ASSUME NEW t \in Seq(Action)
    PROVE  /\ Go(t) \in {"act", "store", "queue", "done"}
           /\ Go(t) = "done" <=> t = <<>>
           /\ Go(t) = "store" => t # <<>> /\ Head(t) = "store"
           /\ Go(t) = "queue" => t # <<>> /\ Head(t) = "queue"
           /\ Go(t) = "act" => t # <<>> /\ Head(t) \notin {"store", "queue"}
  BY DEF Go

LEMMA ChildTypes ==
    ASSUME TypeInv, NEW c \in DOMAIN children
    PROVE  /\ children[c].id \in Nat /\ children[c].boot \in Nat /\ children[c].todo \in Seq(Action)
           /\ children[c].msg.quid \in Nat
<1>1. children[c] \in ChildRec
  BY DEF TypeInv, ExtractorTypes
<1>2. children[c].msg \in Msg
  BY <1>1 DEF ChildRec
<1> QED BY <1>1, <1>2 DEF ChildRec, Msg

\* What a step of a child leaves as it was.
SameChildren ==
    /\ Len(children') = Len(children) /\ DOMAIN children' = DOMAIN children
    /\ \A d \in DOMAIN children :
          children'[d].msg = children[d].msg /\ children'[d].id = children[d].id
              /\ children'[d].boot = children[d].boot

LEMMA BecomesFacts ==
    ASSUME TypeInv, NEW c \in DOMAIN children, NEW s \in ChildState, NEW t \in Seq(Action),
           Becomes(c, s, t), s \in Acting => t # <<>>
    PROVE  /\ children' \in Seq(ChildRec) /\ SameChildren /\ HasWork'
           /\ children'[c].state = s /\ children'[c].todo = t
           /\ \A d \in DOMAIN children : d # c => children'[d] = children[d]
<1> DEFINE x == [[children[c] EXCEPT !.state = s] EXCEPT !.todo = t]
<1>1. children \in Seq(ChildRec) /\ c \in 1..Len(children) /\ DOMAIN children = 1..Len(children)
  BY DEF TypeInv, ExtractorTypes
<1>2. children[c] \in ChildRec
  BY <1>1
<1>3. children' = [children EXCEPT ![c] = x]
  BY <1>1 DEF Becomes
<1>4. /\ x \in ChildRec /\ x.state = s /\ x.todo = t /\ x.msg = children[c].msg
      /\ x.id = children[c].id /\ x.boot = children[c].boot
  BY <1>2 DEF ChildRec
<1> HIDE DEF x
<1>5. children' \in Seq(ChildRec) /\ Len(children') = Len(children) /\ DOMAIN children' = DOMAIN children
  BY <1>1, <1>3, <1>4
<1>6. \A d \in DOMAIN children : children'[d] = IF d = c THEN x ELSE children[d]
  BY <1>1, <1>3
<1>7. HasWork'
  BY <1>4, <1>5, <1>6 DEF HasWork, TypeInv
<1> QED BY <1>4, <1>5, <1>6, <1>7 DEF SameChildren

\* A step of a child that is not over changes nothing but that child and, when the
\* child is an inorder server, that server.
ChildStepped(c) ==
    /\ ~Ended(c) /\ SameChildren
    /\ \A d \in DOMAIN children : d # c => children'[d] = children[d]
    /\ UNCHANGED <<doFork, message, dataCounter, boots, unforked>>
    /\ \/ UNCHANGED <<server, wire>>
       \/ server = "busy" /\ c = Len(children) /\ server' = "down" /\ Loses

LEMMA ChildFacts ==
    ASSUME TypeInv, NEW c \in DOMAIN children, Step(c) \/ NoReply(c) \/ Killed(c)
    PROVE  ChildStepped(c) /\ children' \in Seq(ChildRec) /\ HasWork'
<1>0. children \in Seq(ChildRec) /\ children[c] \in ChildRec
  BY DEF TypeInv, ExtractorTypes
<1>1. ASSUME Dies(c), ~Ended(c), UNCHANGED <<doFork, message, dataCounter, boots, unforked, peers>>
      PROVE  ChildStepped(c) /\ children' \in Seq(ChildRec) /\ HasWork'
  <2>1. /\ Becomes(c, "died", <<>>) /\ <<>> \in Seq(Action)
        /\ "died" \in ChildState /\ "died" \notin Acting
    BY <1>1 DEF Dies, ChildState, Acting
  <2> QED BY <1>1, <2>1, BecomesFacts DEF Dies, ChildStepped, peers
<1>2. ASSUME NEW t \in Seq(Action), Becomes(c, Go(t), t), ~Ended(c),
             UNCHANGED <<doFork, message, dataCounter, boots, unforked, server, wire>>
      PROVE  ChildStepped(c) /\ children' \in Seq(ChildRec) /\ HasWork'
  <2>1. Go(t) \in ChildState /\ (Go(t) \in Acting => t # <<>>)
    BY GoFacts DEF ChildState, Acting
  <2> QED BY <1>2, <2>1, BecomesFacts DEF ChildStepped
<1>3. children[c].state \in Acting => Tail(children[c].todo) \in Seq(Action)
  <2> SUFFICES ASSUME children[c].state \in Acting
               PROVE  Tail(children[c].todo) \in Seq(Action)
    OBVIOUS
  <2>1. children[c].todo \in Seq(Action)
    BY <1>0 DEF ChildRec
  <2>2. children[c].todo # <<>>
    BY DEF TypeInv, HasWork
  <2> QED BY <2>1, <2>2
<1>4. CASE ParseData(c)
  <2>1. ~Ended(c)
    BY <1>4 DEF ParseData, Ended
  <2>2. RuleActions(Rules, children[c].msg.item) \in Seq(Action)
    BY RuleActionsType
  <2> QED BY <1>1, <1>2, <1>4, <2>1, <2>2 DEF ParseData, peers
<1>5. CASE Act(c) \/ StoreReply(c) \/ QueueReply(c)
  <2>1. ~Ended(c) /\ children[c].state \in Acting
    BY <1>5 DEF Act, StoreReply, QueueReply, Ended, Acting
  <2> QED BY <1>2, <1>3, <1>5, <2>1 DEF Act, StoreReply, QueueReply, peers
<1>7. CASE Store(c) \/ Queue(c) \/ NoReply(c)
  <2>1. ~Ended(c) /\ children[c].state \in Acting
    BY <1>7 DEF Store, Queue, NoReply, Ended, Acting
  <2>2. children[c].todo \in Seq(Action) /\ children[c].todo # <<>>
    BY <1>0, <2>1 DEF ChildRec, TypeInv, HasWork
  <2>3. PICK s \in ChildState : Becomes(c, s, children[c].todo)
    BY <1>7 DEF Store, Queue, NoReply, ChildState, Acting
  <2>4. UNCHANGED <<doFork, message, dataCounter, boots, unforked, server, wire>>
    BY <1>7 DEF Store, Queue, NoReply
  <2> QED BY <2>1, <2>2, <2>3, <2>4, BecomesFacts DEF ChildStepped
<1>6. CASE Killed(c)
  BY <1>1, <1>6 DEF Killed
<1> QED BY <1>4, <1>5, <1>6, <1>7 DEF Step

\* A new child.
LEMMA NewChild ==
    ASSUME TypeInv, NEW m \in Msg, NEW id \in Nat
    PROVE  LET new == Append(children, Child(m, id))
           IN  /\ Child(m, id) \in ChildRec /\ new \in Seq(ChildRec)
               /\ Len(new) = Len(children) + 1 /\ DOMAIN new = 1..(Len(children) + 1)
               /\ \A d \in DOMAIN children : new[d] = children[d]
               /\ new[Len(children) + 1] = Child(m, id)
<1>1. Child(m, id) \in ChildRec
  BY DEF Child, ChildRec, ChildState, TypeInv, ExtractorTypes
<1>2. children \in Seq(ChildRec)
  BY DEF TypeInv, ExtractorTypes
<1> QED BY <1>1, <1>2

\* What the extractor does to the wire, child steps included.
LEMMA HandleFacts ==
    ASSUME TypeInv, HandleRequest
    PROVE  /\ ExtractorTypes' /\ HasWork' /\ message \in Msg /\ dataCounter' = dataCounter + 1
           /\ wire' = "taken" /\ server' = (IF doFork THEN "handled" ELSE "busy")
           /\ \/ children' = Append(children, Child(message, dataCounter + 1)) /\ UNCHANGED unforked
              \/ doFork /\ UNCHANGED children /\ unforked' = unforked \cup {message}
           /\ UNCHANGED <<doFork, message, boots, peers>>
<1>1. /\ wire = "sent" /\ wire' = "taken" /\ dataCounter' = dataCounter + 1
      /\ server' = (IF doFork THEN "handled" ELSE "busy")
      /\ \/ children' = Append(children, Child(message, dataCounter + 1)) /\ UNCHANGED unforked
         \/ doFork /\ UNCHANGED children /\ unforked' = unforked \cup {message}
      /\ UNCHANGED <<doFork, message, boots, peers>>
  BY DEF HandleRequest
<1>2. message \in Msg /\ dataCounter + 1 \in Nat /\ boots \in Nat /\ children \in Seq(ChildRec)
  BY <1>1 DEF TypeInv, ExtractorTypes
<1>3. CASE children' = Append(children, Child(message, dataCounter + 1))
  <2>1. /\ children' \in Seq(ChildRec) /\ DOMAIN children' = 1..(Len(children) + 1)
        /\ \A d \in DOMAIN children : children'[d] = children[d]
        /\ children'[Len(children) + 1] = Child(message, dataCounter + 1)
    BY <1>2, <1>3, NewChild
  <2>2. children'[Len(children) + 1].state = "parse"
    BY <2>1 DEF Child
  <2>3. HasWork'
    <3> SUFFICES ASSUME NEW d \in DOMAIN children',
                        children'[d].state \in Acting
                 PROVE  children'[d].todo # <<>>
      BY DEF HasWork
    <3>1. d # Len(children) + 1 /\ d \in 1..(Len(children) + 1)
      BY <2>1, <2>2 DEF Acting
    <3>2. d \in DOMAIN children
      BY <1>2, <3>1
    <3> QED BY <2>1, <3>2 DEF TypeInv, HasWork
  <2> QED BY <1>1, <1>2, <2>1, <2>3 DEF ExtractorTypes
<1>4. CASE UNCHANGED children
  BY <1>1, <1>2, <1>4 DEF ExtractorTypes, TypeInv, HasWork
<1> QED BY <1>1, <1>2, <1>3, <1>4

LEMMA TypeStep == TypeInv /\ [Next]_vars => TypeInv'
<1> SUFFICES ASSUME TypeInv, [Next]_vars PROVE TypeInv'
  OBVIOUS
<1>0. ScraperTypes /\ ExtractorTypes /\ HasWork
  BY DEF TypeInv
<1>1. ASSUME UNCHANGED <<dataCounter, boots, children, wire, message>> PROVE ExtractorTypes' /\ HasWork'
  BY <1>0, <1>1 DEF ExtractorTypes, HasWork
<1>2. ASSUME UNCHANGED scraper PROVE ScraperTypes'
  BY <1>0, <1>2 DEF ScraperTypes, scraper
<1>3. CASE Push
  <2>1. pushed + 1 \in DOMAIN Item /\ pushed' = pushed + 1 /\ datastack' = Append(datastack, pushed + 1)
    BY <1>0, <1>3, ConstantFacts DEF Push, ScraperTypes
  <2>2. ScraperTypes'
    BY <1>0, <1>3, <2>1, ConstantFacts DEF Push, ScraperTypes
  <2> QED BY <1>1, <1>3, <2>2 DEF Push, extractor, TypeInv
<1>4. CASE Commit
  BY <1>0, <1>1, <1>4 DEF Commit, ScraperTypes, extractor, TypeInv
<1>5. CASE Send
  <2>1. commit \in Seq(DOMAIN Item) /\ commit # <<>>
    BY <1>0, <1>5 DEF Send, ScraperTypes
  <2>2. Head(commit) \in DOMAIN Item /\ nextQuid \in Nat
    BY <1>0, <2>1 DEF ScraperTypes
  <2>3. message' \in Msg
    BY <1>5, <2>2 DEF Send, Msg
  <2>4. ScraperTypes'
    BY <1>0, <1>5 DEF Send, ScraperTypes
  <2> QED BY <1>0, <1>5, <2>3, <2>4 DEF Send, ExtractorTypes, HasWork, TypeInv
<1>6. CASE Recv
  <2>1. commit \in Seq(DOMAIN Item) /\ commit # <<>>
    BY <1>0, <1>6 DEF Recv, ScraperTypes
  <2>2. ScraperTypes'
    BY <1>0, <1>6, <2>1 DEF Recv, ScraperTypes
  <2> QED BY <1>0, <1>6, <2>2 DEF Recv, ExtractorTypes, HasWork, TypeInv, extractor
<1>7. CASE Interrupt
  BY <1>0, <1>1, <1>7 DEF Interrupt, ScraperTypes, extractor, TypeInv
<1>8. CASE EndCommit
  <2>1. datastack' \in {<<>>, datastack} /\ <<>> \in Seq(DOMAIN Item) /\ commit' = None
    BY <1>8 DEF EndCommit
  <2>2. datastack' \in Seq(DOMAIN Item)
    BY <1>0, <2>1 DEF ScraperTypes
  <2> QED BY <1>0, <1>1, <1>8, <2>1, <2>2 DEF EndCommit, ScraperTypes, extractor, TypeInv
<1>9. CASE HandleRequest /\ UNCHANGED scraper
  BY <1>2, <1>9, HandleFacts DEF TypeInv
<1>10. ASSUME NEW c \in DOMAIN children, Step(c) \/ NoReply(c) \/ Killed(c), UNCHANGED scraper PROVE TypeInv'
  <2>1. ChildStepped(c) /\ children' \in Seq(ChildRec) /\ HasWork'
    BY <1>10, ChildFacts
  <2>2. wire' = "sent" => wire = "sent"
    BY <2>1 DEF ChildStepped, Loses
  <2> QED BY <1>0, <1>2, <1>10, <2>1, <2>2 DEF ChildStepped, ExtractorTypes, TypeInv
<1>11. CASE (InOrderDone \/ Answer \/ ServerDown \/ ServerUp) /\ UNCHANGED scraper
  <2>1. wire' = "sent" => wire = "sent"
    BY <1>11 DEF InOrderDone, Answer, ServerDown, ServerUp, Loses
  <2>2. UNCHANGED <<children, message>> /\ dataCounter' \in Nat /\ boots' \in Nat
    BY <1>0, <1>11, ConstantFacts DEF InOrderDone, Answer, ServerDown, ServerUp, ExtractorTypes
  <2> QED BY <1>0, <1>2, <1>11, <2>1, <2>2 DEF ExtractorTypes, HasWork, TypeInv
<1>12. CASE UNCHANGED <<extractor, wire, peers>> /\ UNCHANGED scraper
  BY <1>1, <1>2, <1>12 DEF extractor, TypeInv
<1> QED BY <1>3, <1>4, <1>5, <1>6, <1>7, <1>8, <1>9, <1>10, <1>11, <1>12
        DEF Next, ExtractorNext, vars

LEMMA TypeInit == Init => TypeInv
<1> SUFFICES ASSUME Init PROVE TypeInv
  OBVIOUS
<1>1. children = <<>> /\ children \in Seq(ChildRec) /\ datastack \in Seq(DOMAIN Item)
  BY DEF Init, ExtractorInit
<1> QED BY <1>1, ConstantFacts
        DEF Init, ExtractorInit, TypeInv, ScraperTypes, ExtractorTypes, HasWork

-----------------------------------------------------------------------------
(* The datastack.  A commit works on a copy of it, which says nothing about what
   was delivered before a signal: an item leaves the datastack only when all of
   them were answered. *)

In(p, s) == \E i \in DOMAIN s : s[i] = p

\* What a commit has taken off its list was answered.
CommitCovers ==
    commit # None => \A p \in Nat : In(p, datastack) => p \in answered \/ In(p, commit)

KeptInv == TypeInv /\ PushedIsKept /\ CommitCovers

LEMMA KeptStep == KeptInv /\ [Next]_vars => KeptInv'
<1> SUFFICES ASSUME KeptInv, [Next]_vars PROVE PushedIsKept' /\ CommitCovers'
  BY TypeStep DEF KeptInv
<1>0. ScraperTypes /\ PushedIsKept /\ CommitCovers
  BY DEF KeptInv, TypeInv
<1>a. pushed \in Nat /\ datastack \in Seq(DOMAIN Item)
  BY <1>0, ConstantFacts DEF ScraperTypes
<1>1. CASE Push
  <2>1. /\ commit = None /\ commit' = None /\ answered' = answered /\ pushed' = pushed + 1
        /\ datastack' = Append(datastack, pushed + 1)
    BY <1>1 DEF Push
  <2>2. \A p : In(p, datastack) \/ p = pushed + 1 => In(p, datastack')
    <3>1. /\ \A i \in DOMAIN datastack : i \in DOMAIN datastack' /\ datastack'[i] = datastack[i]
          /\ Len(datastack) + 1 \in DOMAIN datastack'
          /\ datastack'[Len(datastack) + 1] = pushed + 1
      BY <1>a, <2>1
    <3> QED BY <3>1 DEF In
  <2>3. \A p \in 1..(pushed + 1) : p \in 1..pushed \/ p = pushed + 1
    BY <1>a
  <2> QED BY <1>0, <2>1, <2>2, <2>3 DEF PushedIsKept, CommitCovers, In
<1>2. CASE Commit
  BY <1>0, <1>2 DEF Commit, PushedIsKept, CommitCovers
<1>3. CASE Recv
  <2>1. /\ commit # None /\ commit # <<>> /\ commit \in Seq(DOMAIN Item) /\ commit' = Tail(commit)
        /\ answered' = answered \cup {Head(commit)} /\ UNCHANGED <<pushed, datastack>>
    BY <1>0, <1>3 DEF Recv, ScraperTypes
  <2>2. \A p : In(p, commit) => p = Head(commit) \/ In(p, commit')
    <3> SUFFICES ASSUME NEW i \in 1..Len(commit)
                 PROVE  commit[i] = Head(commit) \/ In(commit[i], commit')
      BY <2>1 DEF In
    <3>1. CASE i = 1
      BY <2>1, <3>1
    <3>2. CASE i # 1
      <4>1. i - 1 \in DOMAIN commit' /\ commit'[i - 1] = commit[i]
        BY <2>1, <3>2
      <4> QED BY <4>1 DEF In
    <3> QED BY <3>1, <3>2
  <2> QED BY <1>0, <2>1, <2>2 DEF PushedIsKept, CommitCovers
<1>4. CASE Interrupt
  BY <1>0, <1>4 DEF Interrupt, PushedIsKept, CommitCovers
<1>5. CASE EndCommit
  <2>1. /\ commit = <<>> /\ commit' = None /\ UNCHANGED <<pushed, answered>>
        /\ datastack' \in {datastack, <<>>} /\ <<>> \in Seq(DOMAIN Item)
    BY <1>5 DEF EndCommit
  <2>2. \A p \in 1..pushed : p \in answered
    <3>1. commit # None /\ \A p : ~In(p, commit)
      <4>1. DOMAIN commit = {}
        BY <2>1
      <4> QED BY <2>1, <4>1, ConstantFacts DEF In
    <3>2. \A p \in Nat : In(p, datastack) => p \in answered
      BY <1>0, <3>1 DEF CommitCovers
    <3>3. \A p \in 1..pushed : p \in Nat /\ (p \in answered \/ In(p, datastack))
      BY <1>0, <1>a DEF PushedIsKept, In
    <3> QED BY <3>2, <3>3
  <2> QED BY <2>1, <2>2 DEF PushedIsKept, CommitCovers, In
<1>6. CASE UNCHANGED <<pushed, datastack, commit, answered>>
  BY <1>0, <1>6 DEF PushedIsKept, CommitCovers, In
<1> QED BY <1>1, <1>2, <1>3, <1>4, <1>5, <1>6 DEF Next, Send, vars, scraper

\* Nothing that was pushed is lost on the way to the extractor: whatever items a
\* signal interrupts and however many commits follow, a push is on the datastack
\* until it was answered DONE.
THEOREM PushedIsKeptTheorem == Spec => []PushedIsKept
<1>1. Init => KeptInv
  BY TypeInit DEF Init, KeptInv, PushedIsKept, CommitCovers
<1> QED BY <1>1, KeptStep, PTL DEF Spec, KeptInv

-----------------------------------------------------------------------------
(* Delivery to the extractor.  As long as no signal came, a commit has sent the   *)
(* first items of the datastack, in order, and the socket is where it has to be.  *)

\* The pushes on the datastack are all different.
Distinct ==
    /\ \A i \in DOMAIN datastack : datastack[i] <= pushed
    /\ \A i, j \in DOMAIN datastack : datastack[i] = datastack[j] => i = j

\* The items from which on a commit has sent nothing.
Unsent(k) == \A s \in sent, i \in DOMAIN datastack : s[1] = datastack[i] => i <= k

InStep ==
    /\ \A s \in sent : s[1] \in 1..pushed
    /\ IF commit = None THEN socket = "send" /\ Unsent(0)
       ELSE
         /\ complete + Len(commit) = Len(datastack)
         /\ \A i \in DOMAIN commit : commit[i] = datastack[complete + i]
         /\ \/ socket = "send" /\ Unsent(complete)
            \/ socket = "recv" /\ commit # <<>> /\ Unsent(complete + 1)

SentInv ==
    /\ TypeInv /\ Distinct
    /\ ResentOnlyAfterInterrupt
    /\ ~interrupted => InStep

LEMMA SentStep == SentInv /\ [Next]_vars => SentInv'
<1> SUFFICES ASSUME SentInv, [Next]_vars PROVE SentInv'
  OBVIOUS
<1>0. ScraperTypes /\ Distinct /\ TypeInv' /\ ResentOnlyAfterInterrupt
  BY TypeStep DEF SentInv, TypeInv
<1>a. /\ pushed \in Nat /\ datastack \in Seq(DOMAIN Item) /\ DOMAIN Item \subseteq Nat
      /\ DOMAIN datastack = 1..Len(datastack) /\ Len(datastack) \in Nat /\ complete \in Nat
  BY <1>0, ConstantFacts DEF ScraperTypes
<1>b. ~interrupted => InStep
  BY DEF SentInv
<1>1. CASE Push
  <2>1. /\ commit = None /\ commit' = None /\ pushed' = pushed + 1
        /\ datastack' = Append(datastack, pushed + 1) /\ UNCHANGED <<sent, interrupted, socket>>
    BY <1>1 DEF Push
  <2>2. /\ DOMAIN datastack' = 1..(Len(datastack) + 1)
        /\ \A i \in 1..(Len(datastack) + 1) :
              datastack'[i] = IF i <= Len(datastack) THEN datastack[i] ELSE pushed + 1
    BY <1>a, <2>1
  <2>3. \A i \in 1..Len(datastack) : datastack[i] \in Nat
    BY <1>a
  <2>4. Distinct'
    <3>1. \A i \in DOMAIN datastack' : datastack'[i] <= pushed + 1
      BY <1>0, <1>a, <2>2, <2>3 DEF Distinct
    <3>2. \A i, j \in DOMAIN datastack' : datastack'[i] = datastack'[j] => i = j
      BY <1>0, <1>a, <2>2, <2>3 DEF Distinct
    <3> QED BY <2>1, <3>1, <3>2 DEF Distinct
  <2>6. ASSUME InStep PROVE InStep'
    <3>1. \A s \in sent : s[1] \in 1..(pushed + 1) /\ s[1] # pushed + 1
      <4>1. \A s \in sent : s[1] \in 1..pushed
        BY <2>6 DEF InStep
      <4> QED BY <1>a, <4>1
    <3>2. Unsent(0) /\ socket = "send"
      BY <2>1, <2>6 DEF InStep
    <3>3. ASSUME NEW s \in sent, NEW i \in 1..(Len(datastack) + 1), s[1] = datastack'[i]
          PROVE  i <= 0
      <4>1. i <= Len(datastack)
        BY <1>a, <2>2, <3>1, <3>3
      <4>2. i \in DOMAIN datastack /\ s[1] = datastack[i]
        BY <1>a, <2>2, <3>3, <4>1
      <4> QED BY <3>2, <4>2 DEF Unsent
    <3>4. Unsent(0)'
      BY <2>1, <2>2, <3>3 DEF Unsent
    <3> QED BY <2>1, <3>1, <3>2, <3>4 DEF InStep
  <2>7. ResentOnlyAfterInterrupt'
    BY <1>0, <2>1 DEF ResentOnlyAfterInterrupt
  <2> QED BY <1>0, <1>b, <2>1, <2>4, <2>6, <2>7 DEF SentInv
<1>2. CASE Commit
  <2>1. /\ commit = None /\ commit' = datastack /\ complete' = 0 /\ commit' # None
        /\ UNCHANGED <<pushed, datastack, sent, interrupted, socket>>
    BY <1>a, <1>2, ConstantFacts DEF Commit
  <2>2. InStep => InStep'
    BY <1>a, <2>1 DEF InStep, Unsent
  <2> QED BY <1>0, <1>b, <2>1, <2>2 DEF SentInv, Distinct, ResentOnlyAfterInterrupt
<1>3. CASE Send
  <2>1. /\ commit # None /\ commit # <<>> /\ commit \in Seq(DOMAIN Item) /\ socket = "send" /\ socket' = "recv"
        /\ UNCHANGED <<pushed, datastack, commit, complete, interrupted>>
    BY <1>0, <1>3 DEF Send, ScraperTypes
  <2>2. PICK m : sent' = sent \cup {<<Head(commit), m>>}
    BY <1>3 DEF Send
  <2>3. CASE interrupted
    BY <1>0, <2>1, <2>3 DEF ResentOnlyAfterInterrupt, Distinct, SentInv
  <2>4. CASE ~interrupted
    <3> DEFINE k == complete + 1
    <3>1. InStep /\ Unsent(complete) /\ complete + Len(commit) = Len(datastack)
      BY <1>b, <2>1, <2>4 DEF InStep
    <3>2. 1 \in DOMAIN commit /\ Head(commit) = commit[1] /\ k \in 1..Len(datastack)
      BY <1>a, <2>1, <3>1
    <3>3. Head(commit) = datastack[k]
      BY <2>1, <3>1, <3>2 DEF InStep
    <3> HIDE DEF k
    <3>4. datastack[k] \in 1..pushed /\ k \in DOMAIN datastack /\ k \in Nat
      <4>1. datastack[k] \in DOMAIN Item /\ k \in DOMAIN datastack /\ k \in Nat
        BY <1>a, <3>2
      <4>2. datastack[k] <= pushed
        BY <1>0, <4>1 DEF Distinct
      <4> QED BY <1>a, <4>1, <4>2, ConstantFacts
    <3>5. \A s \in sent : s[1] # Head(commit)
      <4>1. ~(k <= complete) /\ k \in DOMAIN datastack
        BY <1>a, <3>4 DEF k
      <4> QED BY <3>1, <3>3, <4>1 DEF Unsent
    <3>6. ResentOnlyAfterInterrupt'
      BY <1>0, <2>1, <2>2, <3>5 DEF ResentOnlyAfterInterrupt
    <3>7. Unsent(k)'
      <4> SUFFICES ASSUME NEW s \in sent', NEW i \in 1..Len(datastack), s[1] = datastack[i]
                   PROVE  i <= k
        BY <1>a, <2>1 DEF Unsent, k
      <4>1. CASE s \in sent
        BY <1>a, <3>1, <4>1 DEF Unsent, k
      <4>2. CASE s[1] = Head(commit)
        <5>1. i = k
          BY <1>0, <1>a, <3>3, <3>4, <4>2 DEF Distinct
        <5> QED BY <3>4, <5>1
      <4> QED BY <2>2, <4>1, <4>2
    <3>8. \A s \in sent' : s[1] \in 1..pushed
      BY <2>2, <3>1, <3>3, <3>4 DEF InStep
    <3>9. InStep'
      BY <2>1, <3>1, <3>7, <3>8 DEF InStep, k
    <3> QED BY <1>0, <2>1, <3>6, <3>9 DEF SentInv, Distinct
  <2> QED BY <2>3, <2>4
<1>4. CASE Recv
  <2>1. /\ commit # None /\ commit # <<>> /\ commit \in Seq(DOMAIN Item) /\ commit' = Tail(commit)
        /\ socket = "recv" /\ socket' = "send" /\ complete' = complete + 1
        /\ UNCHANGED <<pushed, datastack, interrupted, sent>>
    BY <1>0, <1>4 DEF Recv, ScraperTypes
  <2>2. /\ commit' \in Seq(DOMAIN Item) /\ commit' # None /\ Len(commit') = Len(commit) - 1
        /\ \A i \in DOMAIN commit' : i + 1 \in DOMAIN commit /\ commit'[i] = commit[i + 1] /\ i \in Nat
        /\ Len(commit) \in Nat
    <3>1. Tail(commit) \in Seq(DOMAIN Item) /\ Len(Tail(commit)) = Len(commit) - 1 /\ Len(commit) \in Nat
      BY <2>1
    <3>2. \A i \in 1..(Len(commit) - 1) : i + 1 \in 1..Len(commit) /\ Tail(commit)[i] = commit[i + 1] /\ i \in Nat
      BY <2>1, <3>1
    <3>3. DOMAIN commit = 1..Len(commit) /\ DOMAIN commit' = 1..(Len(commit) - 1)
      BY <2>1, <3>1
    <3> QED BY <2>1, <3>1, <3>2, <3>3, ConstantFacts
  <2>3. ASSUME InStep PROVE InStep'
    <3>1. complete' + Len(commit') = Len(datastack)
      <4>1. complete + Len(commit) = Len(datastack)
        BY <2>1, <2>3 DEF InStep
      <4>2. /\ complete' = complete + 1 /\ Len(commit') = Len(commit) - 1
            /\ Len(commit) \in Nat /\ complete \in Nat
        BY <1>a, <2>1, <2>2
      <4> QED BY <4>1, <4>2
    <3>2. \A i \in DOMAIN commit' : commit'[i] = datastack[complete' + i]
      <4> SUFFICES ASSUME NEW i \in DOMAIN commit' PROVE commit'[i] = datastack[complete' + i]
        OBVIOUS
      <4>1. commit'[i] = datastack[complete + (i + 1)]
        BY <2>1, <2>2, <2>3 DEF InStep
      <4>2. complete + (i + 1) = complete' + i
        BY <1>a, <2>1, <2>2
      <4> QED BY <4>1, <4>2
    <3>3. Unsent(complete + 1)
      BY <2>1, <2>3 DEF InStep
    <3>4. Unsent(complete)'
      BY <2>1, <3>3 DEF Unsent
    <3> QED BY <2>1, <2>2, <2>3, <3>1, <3>2, <3>4 DEF InStep
  <2> QED BY <1>0, <1>b, <2>1, <2>3 DEF SentInv, Distinct, ResentOnlyAfterInterrupt
<1>5. CASE Interrupt
  BY <1>0, <1>5 DEF Interrupt, SentInv, Distinct, ResentOnlyAfterInterrupt
<1>6. CASE EndCommit
  <2>1. /\ commit = <<>> /\ commit' = None /\ UNCHANGED <<pushed, sent, interrupted, socket>>
        /\ datastack' = IF complete = Len(datastack) THEN <<>> ELSE datastack
    BY <1>6 DEF EndCommit
  <2>2. Distinct'
    BY <1>0, <2>1 DEF Distinct
  <2>3. ASSUME InStep PROVE InStep'
    <3>1. commit # None
      BY <2>1, ConstantFacts, <<>> \in Seq(DOMAIN Item)
    <3>2. complete = Len(datastack) /\ socket = "send"
      <4>1. complete + Len(commit) = Len(datastack) /\ socket = "send"
        BY <2>1, <2>3, <3>1 DEF InStep
      <4>2. Len(commit) = 0 /\ complete \in Nat
        BY <1>a, <2>1
      <4> QED BY <4>1, <4>2
    <3>3. datastack' = <<>>
      BY <2>1, <3>2
    <3> QED BY <2>1, <2>3, <3>2, <3>3 DEF InStep, Unsent
  <2> QED BY <1>0, <1>b, <2>1, <2>2, <2>3 DEF SentInv, ResentOnlyAfterInterrupt
<1>7. CASE UNCHANGED scraper
  BY <1>0, <1>b, <1>7 DEF scraper, SentInv, Distinct, ResentOnlyAfterInterrupt, InStep, Unsent
<1> QED BY <1>1, <1>2, <1>3, <1>4, <1>5, <1>6, <1>7 DEF Next, vars

\* An item reaches the extractor under two QUIDs only if a signal has ended a commit.
THEOREM ResentOnlyAfterInterruptTheorem == Spec => []ResentOnlyAfterInterrupt
<1>1. Init => SentInv
  BY TypeInit DEF Init, SentInv, Distinct, ResentOnlyAfterInterrupt, InStep, Unsent
<1> QED BY <1>1, SentStep, PTL DEF Spec, SentInv

-----------------------------------------------------------------------------
(* What an answer means.  The message on the wire is the one that the commit waits
   for; the server answers when it has started a child for it, failed to, or, with
   --inorder, done its actions. *)

Taken(m) ==
    \/ m \in unforked
    \/ \E c \in DOMAIN children : children[c].msg = m /\ (doFork \/ children[c].state = "done")

WireInv ==
    /\ TypeInv /\ AnsweredIsTaken
    /\ socket = "send" => wire = "idle"
    /\ socket = "recv" => commit \notin {None, <<>>} /\ <<Head(commit), message>> \in sent
    /\ server \in {"busy", "handled"} => wire = "taken"
    /\ server = "busy" => ~doFork /\ children # <<>> /\ children[Len(children)].msg = message
    /\ server = "handled" \/ wire = "DONE" => Taken(message)

\* A message that was taken stays so.
LEMMA TakenStays ==
    ASSUME TypeInv, ExtractorNext, NEW m, Taken(m)
    PROVE  Taken(m)'
<1>0. children \in Seq(ChildRec)
  BY DEF TypeInv, ExtractorTypes
<1>1. CASE HandleRequest
  <2>1. message \in Msg /\ dataCounter + 1 \in Nat /\ doFork' = doFork /\ unforked \subseteq unforked'
    BY <1>1, HandleFacts DEF TypeInv, ExtractorTypes
  <2>2. \A c \in DOMAIN children : c \in DOMAIN children' /\ children'[c] = children[c]
    BY <1>0, <1>1, <2>1, HandleFacts, NewChild
  <2> QED BY <2>1, <2>2 DEF Taken
<1>2. ASSUME NEW c \in DOMAIN children, Step(c) \/ NoReply(c) \/ Killed(c) PROVE Taken(m)'
  <2>1. ChildStepped(c)
    BY <1>2, ChildFacts
  <2>2. \A d \in DOMAIN children : /\ d \in DOMAIN children' /\ children'[d].msg = children[d].msg
                                   /\ children[d].state = "done" => children'[d] = children[d]
    BY <2>1 DEF ChildStepped, SameChildren, Ended
  <2>3. UNCHANGED <<unforked, doFork>>
    BY <2>1 DEF ChildStepped
  <2> QED BY <2>2, <2>3 DEF Taken
<1>3. CASE UNCHANGED <<unforked, children, doFork>>
  BY <1>3 DEF Taken
<1> QED BY <1>1, <1>2, <1>3
        DEF ExtractorNext, InOrderDone, Answer, ServerDown, ServerUp, extractor

LEMMA WireStep == WireInv /\ [Next]_vars => WireInv'
<1> SUFFICES ASSUME WireInv, [Next]_vars PROVE WireInv'
  OBVIOUS
<1>0. TypeInv /\ TypeInv' /\ AnsweredIsTaken /\ ScraperTypes /\ ScraperTypes'
  BY TypeStep DEF WireInv, TypeInv
<1>a. AnsweredIsTaken <=> \A p \in answered : \E s \in sent : s[1] = p /\ Taken(s[2])
  BY DEF AnsweredIsTaken, Taken
<1>b. AnsweredIsTaken' <=> \A p \in answered' : \E s \in sent' : s[1] = p /\ Taken(s[2])'
  BY DEF AnsweredIsTaken, Taken
<1>1. CASE (Push \/ Commit \/ EndCommit)
  <2>1. socket # "recv" /\ UNCHANGED <<socket, sent, answered, extractor, wire>>
    BY <1>1, <1>0, ConstantFacts DEF Push, Commit, EndCommit, WireInv
  <2> QED BY <1>0, <1>1, <2>1 DEF WireInv, Taken, AnsweredIsTaken, extractor
<1>2. CASE Interrupt
  <2>1. socket' # "recv" /\ (socket' = "send" => socket = "send") /\ UNCHANGED <<sent, answered, extractor, wire>>
    BY <1>0, <1>2 DEF Interrupt, ScraperTypes
  <2> QED BY <1>0, <2>1 DEF WireInv, Taken, AnsweredIsTaken, extractor
<1>3. CASE Send
  <2>1. /\ wire = "idle" /\ wire' = "sent" /\ server \notin {"busy", "handled"}
        /\ UNCHANGED <<answered, server, commit, unforked, children, doFork>> /\ commit \notin {None, <<>>}
        /\ socket' = "recv" /\ sent' = sent \cup {<<Head(commit), message'>>}
    BY <1>3 DEF Send, WireInv
  <2>2. AnsweredIsTaken'
    BY <1>0, <2>1 DEF AnsweredIsTaken
  <2> QED BY <1>0, <2>1, <2>2 DEF WireInv
<1>4. CASE Recv
  <2>1. /\ wire = "DONE" /\ socket = "recv" /\ wire' = "idle" /\ socket' = "send"
        /\ answered' = answered \cup {Head(commit)} /\ UNCHANGED <<sent, extractor>>
    BY <1>4 DEF Recv
  <2>2. <<Head(commit), message>> \in sent /\ Taken(message) /\ server \notin {"busy", "handled"}
    BY <2>1 DEF WireInv
  <2>3. \A m : Taken(m) => Taken(m)'
    BY <2>1 DEF Taken, extractor
  <2>4. AnsweredIsTaken'
    BY <1>0, <1>a, <1>b, <2>1, <2>2, <2>3
  <2> QED BY <1>0, <2>1, <2>2, <2>4 DEF WireInv, extractor
<1>5. ASSUME ExtractorNext, UNCHANGED scraper PROVE WireInv'
  <2>1. \A m : Taken(m) => Taken(m)'
    BY <1>0, <1>5, TakenStays
  <2>2. UNCHANGED <<socket, commit, sent, answered>>
    BY <1>5 DEF scraper
  <2>3. AnsweredIsTaken'
    BY <1>0, <1>a, <1>b, <2>1, <2>2
  <2>4. CASE HandleRequest
    <3>1. wire = "sent" /\ wire' = "taken" /\ message' = message
      BY <2>4, HandleFacts, <1>0 DEF HandleRequest
    <3>2. server' = (IF doFork THEN "handled" ELSE "busy") /\ doFork' = doFork /\ message \in Msg
      BY <2>4, HandleFacts, <1>0
    <3>3. CASE children' = Append(children, Child(message, dataCounter + 1))
      <4>1. /\ children' \in Seq(ChildRec) /\ Len(children') = Len(children) + 1
            /\ Len(children) + 1 \in DOMAIN children'
            /\ children'[Len(children) + 1] = Child(message, dataCounter + 1)
        <5>1. dataCounter + 1 \in Nat /\ Len(children) \in Nat
          BY <1>0 DEF TypeInv, ExtractorTypes
        <5> QED BY <1>0, <3>2, <3>3, <5>1, NewChild
      <4>2. children'[Len(children')].msg = message /\ children' # <<>>
        BY <4>1 DEF Child
      <4>3. doFork => Taken(message)'
        BY <3>1, <3>2, <4>1, <4>2 DEF Taken
      <4> QED BY <1>0, <2>2, <2>3, <3>1, <3>2, <4>2, <4>3 DEF WireInv
    <3>4. CASE doFork /\ unforked' = unforked \cup {message}
      <4>1. Taken(message)'
        BY <3>1, <3>4 DEF Taken
      <4> QED BY <1>0, <2>2, <2>3, <3>1, <3>2, <3>4, <4>1 DEF WireInv
    <3> QED BY <1>0, <2>4, <3>3, <3>4, HandleFacts
  <2>5. ASSUME NEW c \in DOMAIN children, Step(c) \/ NoReply(c) \/ Killed(c) PROVE WireInv'
    <3>1. ChildStepped(c)
      BY <1>0, <2>5, ChildFacts
    <3>2. /\ UNCHANGED <<doFork, message>> /\ Len(children') = Len(children)
          /\ \A d \in DOMAIN children : children'[d].msg = children[d].msg
          /\ children \in Seq(ChildRec) /\ children' \in Seq(ChildRec)
      BY <1>0, <3>1 DEF ChildStepped, SameChildren, TypeInv, ExtractorTypes
    <3>3. children # <<>> => children' # <<>> /\ children'[Len(children')].msg = children[Len(children)].msg
      BY <3>2
    <3>4. CASE UNCHANGED <<server, wire>>
      BY <1>0, <2>1, <2>2, <2>3, <3>2, <3>3, <3>4 DEF WireInv
    <3>5. CASE server = "busy" /\ server' = "down" /\ Loses
      <4>1. wire = "taken" /\ wire' = "lost" /\ socket # "send"
        BY <3>5 DEF WireInv, Loses
      <4> QED BY <1>0, <2>2, <2>3, <3>2, <3>5, <4>1 DEF WireInv
    <3> QED BY <3>1, <3>4, <3>5 DEF ChildStepped
  <2>6. CASE InOrderDone
    <3>1. server = "busy" /\ server' = "handled" /\ children[Len(children)].state = "done"
          /\ UNCHANGED <<doFork, message, wire, children, unforked>>
      BY <2>6 DEF InOrderDone
    <3>2. Len(children) \in DOMAIN children /\ children[Len(children)].msg = message
      BY <1>0, <3>1 DEF WireInv, TypeInv, ExtractorTypes
    <3>3. Taken(message)'
      BY <3>1, <3>2 DEF Taken
    <3> QED BY <1>0, <2>2, <2>3, <3>1, <3>3 DEF WireInv
  <2>7. CASE Answer
    BY <1>0, <2>1, <2>2, <2>3, <2>7 DEF Answer, WireInv
  <2>8. CASE ServerDown \/ ServerUp
    <3>1. /\ server' \in {"down", "wait"} /\ UNCHANGED <<doFork, message, children>>
          /\ (wire' = "DONE" => wire = "DONE") /\ (wire = "idle" => wire' = "idle")
      BY <2>8 DEF ServerDown, ServerUp, Loses
    <3> QED BY <1>0, <2>1, <2>2, <2>3, <3>1 DEF WireInv
  <2> QED BY <1>5, <2>4, <2>5, <2>6, <2>7, <2>8 DEF ExtractorNext
<1>6. CASE UNCHANGED vars
  BY <1>0, <1>6 DEF vars, scraper, extractor, WireInv, AnsweredIsTaken, Taken
<1> QED BY <1>1, <1>2, <1>3, <1>4, <1>5, <1>6 DEF Next

\* DONE is never answered for an item that the extractor did not take up, in whatever
\* order servers, children and signals come and go.
THEOREM AnsweredIsTakenTheorem == Spec => []AnsweredIsTaken
<1>1. Init => WireInv
  BY TypeInit DEF Init, ExtractorInit, WireInv, AnsweredIsTaken
<1> QED BY <1>1, WireStep, PTL DEF Spec, WireInv

-----------------------------------------------------------------------------
(* Tasks.  The counter of a process only moves on, and a child keeps the number it *)
(* was started with.                                                               *)

TaskOf(c) == [id |-> children[c].id, quid |-> children[c].msg.quid, boot |-> children[c].boot]

ChildIds ==
    /\ \A c \in DOMAIN children :
          children[c].boot <= boots /\ (children[c].boot = boots => children[c].id <= dataCounter)
    /\ \A c, d \in DOMAIN children :
          children[c].boot = children[d].boot /\ children[c].id = children[d].id => c = d

TasksAreChildren == \A t \in tasks : \E c \in DOMAIN children : t = TaskOf(c)

TaskInv == TypeInv /\ ChildIds /\ TasksAreChildren

LEMMA TaskStep == TaskInv /\ [Next]_vars => TaskInv'
<1> SUFFICES ASSUME TaskInv, [Next]_vars PROVE ChildIds' /\ TasksAreChildren'
  BY TypeStep DEF TaskInv
<1>0. TypeInv /\ ChildIds /\ TasksAreChildren
  BY DEF TaskInv
<1>a. /\ children \in Seq(ChildRec) /\ dataCounter \in Nat /\ boots \in Nat
      /\ \A c \in DOMAIN children : children[c].id \in Nat /\ children[c].boot \in Nat
  BY <1>0, ChildTypes DEF TypeInv, ExtractorTypes
<1>1. CASE HandleRequest
  <2>1. dataCounter' = dataCounter + 1 /\ UNCHANGED <<boots, tasks>> /\ message \in Msg
    BY <1>0, <1>1, HandleFacts DEF peers
  <2>2. CASE children' = Append(children, Child(message, dataCounter + 1))
    <3> DEFINE n == Len(children) + 1
    <3>1. /\ DOMAIN children' = 1..n /\ \A d \in DOMAIN children : children'[d] = children[d]
          /\ children'[n] = Child(message, dataCounter + 1) /\ DOMAIN children = 1..(n - 1) /\ n \in Nat
      BY <1>0, <1>a, <2>1, <2>2, NewChild
    <3>2. children'[n].id = dataCounter + 1 /\ children'[n].boot = boots
      BY <3>1 DEF Child
    <3> HIDE DEF n
    <3>3. \A d \in 1..n : d = n \/ d \in DOMAIN children
      BY <3>1
    <3>4. ASSUME NEW d \in 1..n
          PROVE  children'[d].boot <= boots /\ (children'[d].boot = boots => children'[d].id <= dataCounter + 1)
      <4>1. CASE d = n
        BY <1>a, <3>2, <4>1
      <4>2. CASE d \in DOMAIN children
        BY <1>0, <1>a, <3>1, <4>2 DEF ChildIds
      <4> QED BY <3>3, <4>1, <4>2
    <3>5. ASSUME NEW d \in DOMAIN children
          PROVE  ~(children'[d].boot = boots /\ children'[d].id = dataCounter + 1)
      BY <1>0, <1>a, <3>1 DEF ChildIds
    <3>6. ASSUME NEW c \in 1..n, NEW d \in 1..n,
                 children'[c].boot = children'[d].boot, children'[c].id = children'[d].id
          PROVE  c = d
      <4>1. CASE c = n \/ d = n
        BY <3>2, <3>3, <3>5, <3>6, <4>1
      <4>2. CASE c # n /\ d # n
        BY <1>0, <3>1, <3>3, <3>6, <4>2 DEF ChildIds
      <4> QED BY <4>1, <4>2
    <3>7. ChildIds'
      BY <2>1, <3>1, <3>4, <3>6 DEF ChildIds
    <3>8. TasksAreChildren'
      <4>1. \A d \in DOMAIN children : d \in DOMAIN children' /\ children'[d] = children[d]
        BY <3>1
      <4> QED BY <1>0, <2>1, <4>1 DEF TasksAreChildren, TaskOf
    <3> QED BY <3>7, <3>8
  <2>3. CASE UNCHANGED children
    BY <1>0, <1>a, <2>1, <2>3 DEF ChildIds, TasksAreChildren, TaskOf
  <2> QED BY <1>0, <1>1, <2>2, <2>3, HandleFacts
<1>2. ASSUME NEW c \in DOMAIN children, Step(c) \/ NoReply(c) \/ Killed(c) PROVE ChildIds' /\ TasksAreChildren'
  <2>1. SameChildren /\ UNCHANGED <<dataCounter, boots>>
    BY <1>0, <1>2, ChildFacts DEF ChildStepped
  <2>2. ChildIds'
    BY <1>0, <2>1 DEF ChildIds, SameChildren
  <2>3. tasks' \subseteq tasks \cup {TaskOf(c)}
    BY <1>2 DEF Step, ParseData, Act, Store, StoreReply, Queue, QueueReply, NoReply, Killed, peers, TaskOf
  <2>4. \A d \in DOMAIN children : d \in DOMAIN children' /\ TaskOf(d)' = TaskOf(d)
    BY <2>1 DEF SameChildren, TaskOf
  <2> QED BY <1>0, <2>2, <2>3, <2>4 DEF TasksAreChildren
<1>3. CASE ServerUp
  <2>1. boots' = boots + 1 /\ UNCHANGED <<children, tasks>>
    BY <1>3 DEF ServerUp, peers
  <2> QED BY <1>0, <1>a, <2>1 DEF ChildIds, TasksAreChildren, TaskOf
<1>4. CASE UNCHANGED <<children, tasks, boots, dataCounter>>
  BY <1>0, <1>4 DEF ChildIds, TasksAreChildren, TaskOf
<1> QED BY <1>1, <1>2, <1>3, <1>4
        DEF Next, ExtractorNext, Push, Commit, Send, Recv, Interrupt, EndCommit, InOrderDone, Answer,
            ServerDown, vars, extractor, peers

\* The tasks of one extractor process never share an id, whatever its children do and
\* in whatever order they reach the pitcher.
THEOREM TaskIdsUniqueTheorem == Spec => []TaskIdsUnique
<1>1. Init => TaskInv
  BY TypeInit DEF Init, ExtractorInit, TaskInv, ChildIds, TasksAreChildren
<1>2. TaskInv => TaskIdsUnique
  BY DEF TaskInv, ChildIds, TasksAreChildren, TaskOf, TaskIdsUnique
<1> QED BY <1>1, <1>2, TaskStep, PTL DEF Spec

-----------------------------------------------------------------------------
(* The order of the actions.  What a child has left to do is the rest of its rule, *)
(* and every store that it has passed was answered.                                *)

Rule(c) == RuleActions(Rules, children[c].msg.item)

Passed(c, k) ==
    \A i \in 1..k : Rule(c)[i] = "store" => children[c].msg.quid \in stored \cup refused

\* The action that a child is at, with its request sent or not.
Phase(state) == IF state = "storing" THEN "store" ELSE IF state = "queuing" THEN "queue" ELSE state

Follows(c) ==
    LET todo == children[c].todo
        k == Len(Rule(c)) - Len(todo)
    IN  /\ k >= 0
        /\ \A i \in 1..Len(todo) : todo[i] = Rule(c)[k + i]
        /\ Passed(c, k)
        /\ Phase(children[c].state) = Go(todo)

OffRule == {"parse", "unanswered", "died"}
FollowsRule == \A c \in DOMAIN children : children[c].state \notin OffRule => Follows(c)

\* Two children with one QUID have one message.
Quids ==
    /\ \A c \in DOMAIN children : children[c].msg.quid < nextQuid
    /\ \A c, d \in DOMAIN children :
          children[c].msg.quid = children[d].msg.quid => children[c].msg = children[d].msg
    /\ wire = "sent" => /\ message.quid < nextQuid
                        /\ \A c \in DOMAIN children :
                              children[c].msg.quid = message.quid => children[c].msg = message

\* A task comes from a queue action before which its child has passed every store.
InTurn(t) ==
    \E c \in DOMAIN children, j \in Nat :
        /\ t.quid = children[c].msg.quid
        /\ j \in DOMAIN Rule(c) /\ Rule(c)[j] = "queue" /\ Passed(c, j - 1)

QueuedInTurn == \A t \in tasks : InTurn(t)

RuleInv == TypeInv /\ FollowsRule /\ Quids /\ QueuedInTurn

LEMMA QuidStep == RuleInv /\ [Next]_vars => Quids'
<1> SUFFICES ASSUME RuleInv, [Next]_vars PROVE Quids'
  OBVIOUS
<1>0. TypeInv /\ Quids
  BY DEF RuleInv
<1>a. /\ children \in Seq(ChildRec) /\ nextQuid \in Nat /\ (wire = "sent" => message \in Msg)
      /\ \A c \in DOMAIN children : children[c].msg.quid \in Nat
  BY <1>0, ChildTypes DEF TypeInv, ExtractorTypes, ScraperTypes
<1>1. CASE Send
  <2>1. message'.quid = nextQuid /\ nextQuid' = nextQuid + 1 /\ UNCHANGED children
    BY <1>1 DEF Send
  <2> QED BY <1>0, <1>a, <2>1 DEF Quids
<1>2. CASE HandleRequest /\ UNCHANGED scraper
  <2>1. /\ wire = "sent" /\ wire' = "taken" /\ message \in Msg /\ UNCHANGED nextQuid
        /\ dataCounter + 1 \in Nat
    BY <1>0, <1>2, HandleFacts DEF HandleRequest, scraper, TypeInv, ExtractorTypes
  <2>2. CASE children' = Append(children, Child(message, dataCounter + 1))
    <3> DEFINE n == Len(children) + 1
    <3>1. /\ DOMAIN children' = 1..n /\ \A d \in DOMAIN children : children'[d] = children[d]
          /\ children'[n] = Child(message, dataCounter + 1) /\ DOMAIN children = 1..(n - 1) /\ n \in Nat
      BY <1>0, <1>a, <2>1, <2>2, NewChild
    <3>2. children'[n].msg = message
      BY <3>1 DEF Child
    <3> HIDE DEF n
    <3>3. \A d \in DOMAIN children' : d = n \/ (d \in DOMAIN children /\ children'[d] = children[d])
      BY <3>1
    <3>4. \A c \in DOMAIN children' : children'[c].msg.quid < nextQuid
      BY <1>0, <2>1, <3>2, <3>3 DEF Quids
    <3>5. \A c, d \in DOMAIN children' :
             children'[c].msg.quid = children'[d].msg.quid => children'[c].msg = children'[d].msg
      BY <1>0, <2>1, <3>2, <3>3 DEF Quids
    <3> QED BY <2>1, <3>4, <3>5 DEF Quids
  <2>3. CASE UNCHANGED children
    BY <1>0, <2>1, <2>3 DEF Quids
  <2> QED BY <1>0, <1>2, <2>2, <2>3, HandleFacts
<1>3. ASSUME NEW c \in DOMAIN children, Step(c) \/ NoReply(c) \/ Killed(c), UNCHANGED scraper PROVE Quids'
  <2>1. SameChildren /\ UNCHANGED <<message, nextQuid>> /\ (wire' = "sent" => wire = "sent")
    BY <1>0, <1>3, ChildFacts DEF ChildStepped, scraper, Loses
  <2> QED BY <1>0, <2>1 DEF Quids, SameChildren
<1>4. ASSUME UNCHANGED <<children, nextQuid, message>>, wire' = "sent" => wire = "sent" PROVE Quids'
  BY <1>0, <1>4 DEF Quids
<1> QED BY <1>1, <1>2, <1>3, <1>4
        DEF Next, ExtractorNext, Push, Commit, Recv, Interrupt, EndCommit, InOrderDone, Answer,
            ServerDown, ServerUp, Loses, vars, extractor, scraper

\* A child that goes on to its next action follows its rule, if a store that it leaves
\* behind was answered.
LEMMA GoesOn ==
    ASSUME RuleInv, NEW c \in DOMAIN children, children[c].state \in Acting,
           SameChildren, children'[c].todo = Tail(children[c].todo),
           children'[c].state = Go(Tail(children[c].todo)),
           stored \cup refused \subseteq stored' \cup refused',
           Head(children[c].todo) = "store" => children[c].msg.quid \in stored' \cup refused'
    PROVE  Follows(c)'
<1> DEFINE a == Rule(c)
           todo == children[c].todo
           rest == Tail(todo)
           k == Len(a) - Len(todo)
           q == children[c].msg.quid
           done == stored' \cup refused'
<1>1. /\ a \in Seq(Action) /\ Len(a) \in Nat /\ Rule(c)' = a /\ children'[c].msg.quid = q
  BY RuleActionsType DEF Rule, SameChildren
<1>2. todo \in Seq(Action) /\ todo # <<>>
  BY ChildTypes DEF RuleInv, TypeInv, HasWork
<1>3. /\ k >= 0 /\ \A i \in 1..Len(todo) : todo[i] = a[k + i]
      /\ \A i \in 1..k : a[i] = "store" => q \in stored \cup refused
  BY DEF RuleInv, FollowsRule, Follows, Passed, OffRule, Acting
<1>4. /\ Len(rest) = Len(todo) - 1 /\ Len(todo) \in Nat \ {0}
      /\ \A i \in 1..Len(rest) : rest[i] = todo[i + 1] /\ i + 1 \in 1..Len(todo)
      /\ Head(todo) = todo[1] /\ 1 \in 1..Len(todo)
  <2>1. Len(rest) = Len(todo) - 1 /\ Len(todo) \in Nat \ {0} /\ Head(todo) = todo[1]
    BY <1>2
  <2>2. \A i \in 1..(Len(todo) - 1) : rest[i] = todo[i + 1]
    BY <1>2
  <2> QED BY <2>1, <2>2
<1> HIDE DEF a, todo, rest
<1>5. Len(a) - Len(rest) = k + 1 /\ k \in Nat
  BY <1>1, <1>3, <1>4
<1> HIDE DEF k, q, done
<1>6. \A i \in 1..Len(rest) : rest[i] = a[(k + 1) + i]
  <2> SUFFICES ASSUME NEW i \in 1..Len(rest) PROVE rest[i] = a[(k + 1) + i]
    OBVIOUS
  <2>1. rest[i] = a[k + (i + 1)]
    BY <1>3, <1>4
  <2>2. k + (i + 1) = (k + 1) + i
    BY <1>5
  <2> QED BY <2>1, <2>2
<1>7. \A i \in 1..(k + 1) : a[i] = "store" => q \in done
  <2>1. todo[1] = a[k + 1]
    BY <1>3, <1>4
  <2>2. todo[1] = "store" => q \in done
    BY <1>4 DEF q, done, todo
  <2>3. \A i \in 1..(k + 1) : i \in 1..k \/ i = k + 1
    BY <1>5
  <2> QED BY <1>3, <2>1, <2>2, <2>3 DEF done
<1>8. children'[c].todo = rest /\ Phase(children'[c].state) = Go(rest)
  BY DEF rest, todo, Phase, Go
<1>9. Len(Rule(c)') - Len(children'[c].todo) = k + 1 /\ k + 1 >= 0
  <2>1. Len(Rule(c)') = Len(a) /\ Len(children'[c].todo) = Len(rest)
    BY <1>1, <1>8
  <2>2. k + 1 >= 0
    BY <1>5
  <2> QED BY <1>5, <2>1, <2>2
<1>10. \A i \in 1..(k + 1) : Rule(c)'[i] = "store" => children'[c].msg.quid \in stored' \cup refused'
  BY <1>1, <1>7 DEF done
<1>11. \A i \in 1..Len(children'[c].todo) : children'[c].todo[i] = Rule(c)'[(k + 1) + i]
  BY <1>1, <1>6, <1>8
<1> QED BY <1>8, <1>9, <1>10, <1>11 DEF Follows, Passed

LEMMA RuleStep == RuleInv /\ [Next]_vars => RuleInv'
<1> SUFFICES ASSUME RuleInv, [Next]_vars PROVE FollowsRule' /\ QueuedInTurn'
  BY TypeStep, QuidStep DEF RuleInv
<1>0. TypeInv /\ FollowsRule /\ QueuedInTurn
  BY DEF RuleInv
<1>a. children \in Seq(ChildRec)
  BY <1>0 DEF TypeInv, ExtractorTypes
\* Children that are left alone go on following their rules.
<1>b. ASSUME NEW d \in DOMAIN children, d \in DOMAIN children', children'[d] = children[d],
             stored \cup refused \subseteq stored' \cup refused', Follows(d)
      PROVE  Follows(d)'
  BY <1>b DEF Follows, Passed, Rule
\* A task that was queued in its turn stays so.
<1>d. ASSUME stored \cup refused \subseteq stored' \cup refused', NEW t \in tasks,
             \A d \in DOMAIN children : d \in DOMAIN children' /\ children'[d].msg = children[d].msg
      PROVE  InTurn(t)'
  <2>1. PICK d \in DOMAIN children, i \in Nat :
           /\ t.quid = children[d].msg.quid
           /\ i \in DOMAIN Rule(d) /\ Rule(d)[i] = "queue" /\ Passed(d, i - 1)
    BY <1>0 DEF QueuedInTurn, InTurn
  <2>2. /\ t.quid = children'[d].msg.quid /\ d \in DOMAIN children'
        /\ i \in DOMAIN Rule(d)' /\ Rule(d)'[i] = "queue" /\ Passed(d, i - 1)'
    BY <1>d, <2>1 DEF Rule, Passed
  <2> QED BY <2>2 DEF InTurn
<1>c. ASSUME tasks' \subseteq tasks, stored \cup refused \subseteq stored' \cup refused',
             \A d \in DOMAIN children : d \in DOMAIN children' /\ children'[d].msg = children[d].msg
      PROVE  QueuedInTurn'
  BY <1>c, <1>d DEF QueuedInTurn
<1>1. CASE HandleRequest
  <2>1. UNCHANGED <<stored, refused, tasks>> /\ message \in Msg /\ dataCounter + 1 \in Nat
    BY <1>0, <1>1, HandleFacts DEF peers, TypeInv, ExtractorTypes
  <2>2. CASE children' = Append(children, Child(message, dataCounter + 1))
    <3> DEFINE n == Len(children) + 1
    <3>1. /\ DOMAIN children' = 1..n /\ \A d \in DOMAIN children : children'[d] = children[d]
          /\ children'[n] = Child(message, dataCounter + 1) /\ DOMAIN children = 1..(n - 1) /\ n \in Nat
      BY <1>0, <1>a, <2>1, <2>2, NewChild
    <3>2. children'[n].state \in OffRule
      BY <3>1 DEF Child, OffRule
    <3> HIDE DEF n
    <3>3. \A d \in DOMAIN children' : d = n \/ d \in DOMAIN children
      BY <3>1
    <3>4. \A d \in DOMAIN children : d \in DOMAIN children'
      BY <3>1
    <3>5. FollowsRule'
      BY <1>0, <1>b, <2>1, <3>1, <3>2, <3>3, <3>4 DEF FollowsRule
    <3> QED BY <1>c, <2>1, <3>1, <3>4, <3>5
  <2>3. CASE UNCHANGED children
    BY <1>0, <1>b, <1>c, <2>1, <2>3 DEF FollowsRule
  <2> QED BY <1>0, <1>1, <2>2, <2>3, HandleFacts
<1>2. ASSUME NEW c \in DOMAIN children, Step(c) \/ NoReply(c) \/ Killed(c) PROVE FollowsRule' /\ QueuedInTurn'
  <2>1. /\ SameChildren /\ \A d \in DOMAIN children : d # c => children'[d] = children[d]
        /\ \A d \in DOMAIN children : d \in DOMAIN children' /\ children'[d].msg = children[d].msg
    BY <1>0, <1>2, ChildFacts DEF ChildStepped, SameChildren
  <2>2. stored \cup refused \subseteq stored' \cup refused'
    BY <1>2 DEF Step, ParseData, Act, Store, StoreReply, Queue, QueueReply, NoReply, Killed, peers
  <2>3. ASSUME children'[c].state \notin OffRule => Follows(c)' PROVE FollowsRule'
    BY <1>0, <1>b, <2>1, <2>2, <2>3 DEF FollowsRule, SameChildren
  <2>4. ASSUME Dies(c), UNCHANGED peers PROVE FollowsRule' /\ QueuedInTurn'
    <3>1. /\ Becomes(c, "died", <<>>) /\ <<>> \in Seq(Action)
          /\ "died" \in ChildState /\ "died" \notin Acting
      BY <2>4 DEF Dies, ChildState, Acting
    <3>2. children'[c].state \in OffRule
      BY <1>0, <3>1, BecomesFacts DEF OffRule
    <3> QED BY <1>c, <2>1, <2>2, <2>3, <2>4, <3>2 DEF peers
  <2>5. ASSUME NEW t \in Seq(Action), Becomes(c, Go(t), t)
        PROVE  children'[c].state = Go(t) /\ children'[c].todo = t
    <3>1. Go(t) \in ChildState /\ (Go(t) \in Acting => t # <<>>)
      BY GoFacts DEF ChildState, Acting
    <3> QED BY <1>0, <2>5, <3>1, BecomesFacts
  <2>6. CASE ParseData(c)
    <3>1. tasks' = tasks
      BY <2>6 DEF ParseData, peers
    <3>2. CASE Dies(c)
      BY <2>4, <2>6, <3>2 DEF ParseData
    <3>3. CASE ~Dies(c)
      <4>1. Rule(c) \in Seq(Action) /\ Rule(c)' = Rule(c)
        BY <2>1, RuleActionsType DEF Rule
      <4>2. children'[c].state = Go(Rule(c)) /\ children'[c].todo = Rule(c)
        BY <2>5, <2>6, <3>3, <4>1 DEF ParseData, Rule
      <4>3. Len(Rule(c)) - Len(Rule(c)) = 0 /\ \A i \in 1..Len(Rule(c)) : 0 + i = i
        BY <4>1
      <4>4. Follows(c)'
        BY <4>1, <4>2, <4>3, GoFacts DEF Follows, Passed, Phase
      <4> QED BY <1>c, <2>1, <2>2, <2>3, <3>1, <4>4
    <3> QED BY <3>2, <3>3
  <2> DEFINE todo == children[c].todo
             q == children[c].msg.quid
             k == Len(Rule(c)) - Len(todo)
  <2>a. ASSUME children[c].state \in Acting
        PROVE  /\ todo \in Seq(Action) /\ todo # <<>> /\ Tail(todo) \in Seq(Action)
               /\ Len(todo) \in Nat \ {0} /\ Head(todo) = todo[1]
               /\ Follows(c) /\ Phase(children[c].state) = Go(todo)
    <3>1. todo \in Seq(Action) /\ todo # <<>>
      BY <1>0, <2>a, ChildTypes DEF TypeInv, HasWork
    <3>2. Follows(c) /\ Phase(children[c].state) = Go(todo)
      BY <1>0, <2>a DEF FollowsRule, Follows, OffRule, Acting
    <3> QED BY <3>1, <3>2
  <2>7. CASE Act(c) \/ StoreReply(c) \/ QueueReply(c)
    <3>1. /\ children[c].state \in Acting /\ Becomes(c, Go(Tail(todo)), Tail(todo)) /\ tasks' = tasks
      BY <2>7 DEF Act, StoreReply, QueueReply, Acting, peers
    <3>2. Head(todo) = "store" => q \in stored' \cup refused'
      <4>1. Head(todo) = "store" => Phase(children[c].state) = "store"
        BY <2>a, <3>1 DEF Go
      <4> QED BY <2>7, <4>1 DEF Act, StoreReply, QueueReply, Phase
    <3>3. Follows(c)'
      BY <2>1, <2>2, <2>5, <2>a, <3>1, <3>2, GoesOn
    <3> QED BY <1>c, <2>1, <2>2, <2>3, <3>1, <3>3
  \* A request is sent, or its answer will not come: the action is the same.
  <2>9. ASSUME NEW s, Becomes(c, s, todo), s \in {"storing", "queuing", "unanswered"},
               children[c].state \in Acting, s # "unanswered" => Phase(s) = Phase(children[c].state)
        PROVE  FollowsRule'
    <3>1. children'[c].state = s /\ children'[c].todo = todo
      BY <1>0, <2>9, <2>a, BecomesFacts DEF ChildState, Acting
    <3>2. Rule(c)' = Rule(c) /\ children'[c].msg.quid = q
      BY <2>1 DEF Rule
    <3>3. s # "unanswered" => Follows(c)'
      BY <2>2, <2>9, <2>a, <3>1, <3>2 DEF Follows, Passed
    <3> QED BY <2>3, <2>9, <3>1, <3>3 DEF OffRule
  <2>10. CASE Store(c) \/ NoReply(c)
    <3>1. tasks' = tasks
      BY <2>10 DEF Store, NoReply, peers
    <3>2. FollowsRule'
      BY <2>9, <2>10 DEF Store, NoReply, Phase, Acting
    <3> QED BY <1>c, <2>1, <2>2, <3>1, <3>2
  <2>11. CASE Queue(c)
    <3>1. FollowsRule'
      BY <2>9, <2>11 DEF Queue, Phase, Acting
    <3>2. children[c].state = "queue" /\ children[c].state \in Acting
      BY <2>11 DEF Queue, Acting
    <3>3. /\ tasks' = tasks \cup {[id |-> children[c].id, quid |-> q, boot |-> children[c].boot]}
          /\ UNCHANGED <<stored, refused>> /\ Head(todo) = "queue"
      <4>1. Go(todo) = "queue"
        BY <2>a, <3>2 DEF Phase
      <4> QED BY <2>11, <2>a, <3>2, <4>1, GoFacts DEF Queue
    <3>4. Rule(c) \in Seq(Action) /\ Rule(c)' = Rule(c) /\ Len(Rule(c)) \in Nat
      BY <2>1, RuleActionsType DEF Rule
    <3>5. k + 1 \in 1..Len(Rule(c)) /\ k \in Nat /\ todo[1] = Rule(c)[k + 1] /\ Passed(c, k)
      <4>1. k >= 0 /\ (\A i \in 1..Len(todo) : todo[i] = Rule(c)[k + i]) /\ Passed(c, k)
        BY <2>a, <3>2 DEF Follows
      <4>2. k \in Nat /\ k + 1 \in 1..Len(Rule(c)) /\ 1 \in 1..Len(todo)
        BY <2>a, <3>2, <3>4, <4>1
      <4> QED BY <4>1, <4>2
    <3>6. Head(todo) = todo[1]
      BY <2>a, <3>2
    <3> HIDE DEF k, todo
    <3>7. k + 1 \in DOMAIN Rule(c) /\ Rule(c)[k + 1] = "queue" /\ Passed(c, (k + 1) - 1)
      <4>1. (k + 1) - 1 = k
        BY <3>5
      <4> QED BY <3>3, <3>4, <3>5, <3>6, <4>1
    <3>8. PICK j \in Nat : j = k + 1
      BY <3>5
    <3>9. /\ q = children'[c].msg.quid /\ j \in DOMAIN Rule(c)' /\ Rule(c)'[j] = "queue"
          /\ Passed(c, j - 1)'
      BY <2>1, <3>3, <3>4, <3>7, <3>8 DEF Passed
    <3>10. QueuedInTurn'
      <4>1. \A t \in tasks : InTurn(t)'
        BY <1>d, <2>1, <2>2
      <4>2. ASSUME NEW t \in tasks', t \notin tasks PROVE InTurn(t)'
        <5>1. t.quid = children'[c].msg.quid /\ c \in DOMAIN children'
          BY <2>1, <3>3, <3>9, <4>2
        <5> QED BY <3>9, <5>1 DEF InTurn
      <4> QED BY <4>1, <4>2 DEF QueuedInTurn
    <3> QED BY <3>1, <3>10
  <2>8. CASE Killed(c)
    BY <2>4, <2>8 DEF Killed
  <2> QED BY <1>2, <2>6, <2>7, <2>8, <2>10, <2>11 DEF Step
<1>3. CASE UNCHANGED <<children, tasks, stored, refused>>
  BY <1>0, <1>b, <1>c, <1>3 DEF FollowsRule
<1> QED BY <1>1, <1>2, <1>3
        DEF Next, ExtractorNext, Push, Commit, Send, Recv, Interrupt, EndCommit, InOrderDone, Answer,
            ServerDown, ServerUp, vars, extractor, peers

\* With a rule that stores before it queues, a task is never sent to the pitcher before
\* the storage cluster has answered DONE or FAIL for its record, for every ruleset and whatever
\* the order in which children, servers and the cluster proceed.
THEOREM QueuedFollowsStoreTheorem == Spec => []QueuedFollowsStore
<1>1. Init => RuleInv
  BY TypeInit DEF Init, ExtractorInit, RuleInv, FollowsRule, Quids, QueuedInTurn
<1>2. ASSUME RuleInv PROVE QueuedFollowsStore
  <2> SUFFICES ASSUME NEW t \in tasks, NEW c \in DOMAIN children,
                      children[c].msg.quid = t.quid, NEW i \in DOMAIN Rule(c), Rule(c)[i] = "store",
                      \A j \in DOMAIN Rule(c) : Rule(c)[j] = "queue" => i < j
               PROVE  t.quid \in stored \cup refused
    BY DEF QueuedFollowsStore, Rule
  <2>1. PICK d \in DOMAIN children, j \in Nat :
           /\ t.quid = children[d].msg.quid
           /\ j \in DOMAIN Rule(d) /\ Rule(d)[j] = "queue" /\ Passed(d, j - 1)
    BY <1>2 DEF RuleInv, QueuedInTurn, InTurn
  <2>2. Rule(d) = Rule(c)
    BY <1>2, <2>1 DEF RuleInv, Quids, Rule
  <2>3. Rule(c) \in Seq(Action)
    BY RuleActionsType DEF Rule
  <2>4. i \in 1..(j - 1)
    BY <2>1, <2>2, <2>3
  <2> QED BY <2>1, <2>2, <2>4 DEF Passed
<1> QED BY <1>1, <1>2, RuleStep, PTL DEF Spec
=============================================================================
