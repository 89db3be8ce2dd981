------------------------------- MODULE Cynder -------------------------------
(***************************************************************************)
(* A cynder worker and the master in front of it (src/cynder): records by  *)
(* QUID in four upscaledb files and the large file store.  The worker      *)
(* serves one request at a time; every put and remove reaches the disk on  *)
(* its own (env.flush), and the process may die, or the database fail,     *)
(* between any two of them.                                                *)
(*                                                                         *)
(* A record is abstracted to its content and its meta entries.  Large      *)
(* contents go to the large file store, of which only the promise of       *)
(* LargeStore is used here; Filepage implements it.                        *)
(***************************************************************************)
EXTENDS Integers, Sequences, FiniteSets, SequencesExt

CONSTANTS
    Quid, Content, None,
    Large,          \* contents above LFB_MINIMUM_SIZE
    Meta,           \* the meta of a record: a sequence of groups of [key, value]
    Keyword,        \* commonIndexKeywords
    lower,          \* normalize: the key of an entry in lower case
    keyOrder,       \* the order of upscaledb's keys, as numbers
    MaxRequests,    \* bound: requests that write
    MaxRestarts     \* bound: worker processes after the first

\* An entry of the meta.  One that has no entries of its own is a group by itself.
Entry == [key : STRING, value : STRING]

Entries == UNION {Range(FlattenSeq(Meta[q])) : q \in Quid}
Term == Keyword \cup UNION {{e.key, e.value} : e \in Entries}

ASSUME CynderConstants ==
    /\ IsFiniteSet(Quid) /\ Large \subseteq Content
    /\ Meta \in [Quid -> Seq(Seq(Entry) \ {<<>>})]
    /\ lower \in [{e.key : e \in Entries} -> STRING]
    /\ keyOrder \in [Term -> Nat]
    /\ {MaxRequests, MaxRestarts} \subseteq Nat
    /\ None \notin Content \cup Nat \cup {"lfb"} /\ "lfb" \notin Content

VARIABLES
    db,         \* the database files, by their number
    lfb,        \* the large file store
    count,      \* the version count that the catalogus keeps, or None
    num,        \* the number of the files in use, or None: no worker runs
    req,        \* the request in service, or None
    todo,       \* what is left to do of it
    result,     \* its queryresult so far
    master,     \* what the master waits for: None, "queued", "served", "lost"
    served,     \* requests that write so far
    restarts,
    accepted,   \* the content last stored by an accepted request, by QUID
    copied,     \* QUIDs whose last accepted content came through the master
    dropped,    \* QUIDs whose last accepted content was thrown away unsaid
    cut,        \* QUIDs of requests that a death or a database error cut off
    clobbered   \* QUIDs whose large content a refused INSERT has replaced

files == <<db, lfb, count>>
service == <<req, todo, result>>
history == <<accepted, copied, dropped, cut, clobbered>>
vars == <<files, num, service, master, served, restarts, history>>

Empty ==
    [adi |-> [q \in Quid |-> None], ari |-> [q \in Quid |-> FALSE],
     uki |-> [t \in Term |-> <<>>], fti |-> [t \in Term |-> <<>>]]

Init ==
    /\ db = [n \in 0..(MaxRestarts + 1) |-> Empty]
    /\ lfb = [q \in Quid |-> None] /\ count = None /\ num = 0
    /\ req = None /\ todo = <<>> /\ result = "SUCCESS"
    /\ master = None /\ served = 0 /\ restarts = 0
    /\ accepted = [q \in Quid |-> None] /\ copied = {} /\ dropped = {}
    /\ cut = {} /\ clobbered = {}

Open == db[num]

-----------------------------------------------------------------------------
\* DataIndex::get for a key that is in the index.
Restore(q) == IF Open.adi[q] = "lfb" THEN lfb[q] ELSE Open.adi[q]

\* The record of a QUID, then its content.
Lookup(q) == IF Open.ari[q] /\ Open.adi[q] # None THEN Restore(q) ELSE None

\* A QUID is sent bare, in braces, or in some other form, which crop rejects.
Form == {"compact", "braced", "malformed"}

\* What SELECT reads.  put crops the braces; get and remove of the engine take the
\* QUID as it was sent, and no key has braces.
Select(q, form) == IF form = "compact" THEN Lookup(q) ELSE None

\* The steps of a request.  put and remove of an engine are one step each, and
\* so is the write to the large file store that comes before adi.put.

\* copyMeta of initMaster: the entries of a group are all copied to the same
\* place, where the last one remains.
CopyMeta(meta) == [i \in DOMAIN meta |-> <<Last(meta[i])>>]

\* The leaves of the meta tree of a request.
Leaves(q, from) ==
    FlattenSeq(IF from = "master" THEN CopyMeta(Meta[q]) ELSE Meta[q])

\* Mutant: the text index is forgotten.
IndexKeysOnly(r) ==
    LET leaves == Leaves(r.quid, r.from)
    IN  FlattenSeq([i \in DOMAIN leaves |->
            IF lower[leaves[i].key] \in Keyword
            THEN << <<"uki", lower[leaves[i].key]>> >> ELSE <<>>])

\* traverseMeta.  The additional indexes accept an entry if its key is a keyword
\* once normalized.  KeyIndex stores under the normalized key, TextIndex under the
\* value as it is.
IndexSteps(r) ==
    LET leaves == Leaves(r.quid, r.from)
    IN  FlattenSeq([i \in DOMAIN leaves |->
            IF lower[leaves[i].key] \in Keyword
            THEN << <<"uki", lower[leaves[i].key]>>, <<"fti", leaves[i].value>> >> ELSE <<>>])

\* Mutant: the index entry comes before the content it points to.
StoreEntryFirst(r) ==
    IF r.form = "malformed" THEN <<>>
    ELSE << <<"adi">> >> \o (IF r.content \in Large THEN << <<"lfb">> >> ELSE <<>>)
             \o << <<"ari">> >> \o IndexSteps(r)

\* Each put returns at once on a QUID that crop rejects, and reports no error.
StoreSteps(r) ==
    IF r.form = "malformed" THEN <<>>
    ELSE (IF r.content \in Large THEN << <<"lfb">> >> ELSE <<>>) \o << <<"adi">>, <<"ari">> >>
             \o IndexSteps(r)

\* Mutant: DELETE removes the content only.
StepsKeepingRecord(r) ==
    IF r.action \in {"INSERT", "UPDATE"} THEN StoreSteps(r)
    ELSE IF r.action = "DELETE" THEN << <<"adi">> >> ELSE << <<"read">> >>

Steps(r) ==
    IF r.action \in {"INSERT", "UPDATE"} THEN StoreSteps(r)
    ELSE IF r.action = "DELETE" THEN << <<"adi">>, <<"ari">> >> ELSE << <<"read">> >>

Requests ==
    [action : {"INSERT", "UPDATE"}, quid : Quid, content : Content, form : Form,
     from : {"client"}]
      \cup [action : {"DELETE", "SELECT"}, quid : Quid, content : {None}, form : Form,
            from : {"client"}]
      \cup [action : {"SEARCH"}, quid : {None}, content : Term, form : {"compact"},
            from : {"client"}]

\* initMaster turns what the extractor sends into an INSERT; the scraper
\* generates QUIDs in braces.
FromMaster ==
    [action : {"INSERT"}, quid : Quid, content : Content, form : {"braced"},
     from : {"master"}]

\* No request is the mark for none.
ASSUME RequestConstants == None \notin Requests \cup FromMaster

Writes(r) == r.action \in {"INSERT", "UPDATE", "DELETE"}

Idle == num # None /\ req = None

Take(r) ==
    /\ Idle /\ (Writes(r) => served < MaxRequests)
    /\ req' = r /\ todo' = Steps(r) /\ result' = "SUCCESS"
    /\ served' = IF Writes(r) THEN served + 1 ELSE served
    /\ UNCHANGED <<files, num, restarts, history>>

TakeFromClient(r) == Take(r) /\ UNCHANGED master

\* initMaster: the next message of the extractor, and performQueryRequest.
MasterForward ==
    /\ master = None
    /\ master' = "queued"
    /\ UNCHANGED <<files, num, service, served, restarts, history>>

TakeFromMaster(r) ==
    /\ master = "queued" /\ master' = "served"
    /\ Take(r)

-----------------------------------------------------------------------------
Raw == req.form = "compact"      \* whether remove finds a key at all
Doing(s) == num # None /\ todo # <<>> /\ Head(todo)[1] = s

\* The rest of the request once a step is done, and the end of it on an error.
Proceed == todo' = Tail(todo) /\ UNCHANGED result
Fail(e) == todo' = <<>> /\ result' = e

Put(index, v) == db' = [db EXCEPT ![num][index][req.quid] = v]

\* Filebase::put, before the engine has accepted the key.
PutLarge ==
    /\ Doing("lfb")
    /\ lfb' = [lfb EXCEPT ![req.quid] = req.content]
    /\ clobbered' = IF req.action = "INSERT" /\ Open.adi[req.quid] = "lfb"
                    THEN clobbered \cup {req.quid} ELSE clobbered
    /\ Proceed
    /\ UNCHANGED <<db, count, num, req, master, served, restarts, accepted, copied, dropped, cut>>

\* Mutant: INSERT overwrites.
PutDataOverwrites ==
    /\ Doing("adi") /\ req.action # "DELETE"
    /\ Put("adi", IF req.content \in Large THEN "lfb" ELSE req.content)
    /\ clobbered' = clobbered \ {req.quid}
    /\ Proceed
    /\ UNCHANGED <<lfb, count, num, req, master, served, restarts, accepted, copied, dropped, cut>>

\* DataIndex::put and AbstractEngine::put: INSERT refuses a key that exists,
\* UPDATE overwrites or creates it.
PutData ==
    /\ Doing("adi") /\ req.action # "DELETE"
    /\ IF req.action = "INSERT" /\ Open.adi[req.quid] # None
       THEN Fail("DUPLICATE") /\ UNCHANGED <<db, clobbered>>
       ELSE /\ Put("adi", IF req.content \in Large THEN "lfb" ELSE req.content)
            /\ clobbered' = clobbered \ {req.quid}
            /\ Proceed
    /\ UNCHANGED <<lfb, count, num, req, master, served, restarts, accepted, copied, dropped, cut>>

\* RecordIndex::put.
PutRecord ==
    /\ Doing("ari") /\ req.action # "DELETE"
    /\ IF req.action = "INSERT" /\ Open.ari[req.quid]
       THEN Fail("DUPLICATE") /\ UNCHANGED <<db, cut>>
       ELSE Put("ari", TRUE) /\ cut' = cut \ {req.quid} /\ Proceed
    /\ UNCHANGED <<lfb, count, num, req, master, served, restarts, accepted, copied, dropped,
                   clobbered>>

\* traverseMeta: KeyIndex::put and TextIndex::put, each adding a duplicate.
PutIndex(index) ==
    LET t == Head(todo)[2]
    IN  /\ Doing(index)
        /\ db' = [db EXCEPT ![num][index][t] = Append(@, req.quid)]
        /\ Proceed
        /\ UNCHANGED <<lfb, count, num, req, master, served, restarts, history>>

PutKey == PutIndex("uki")
PutText == PutIndex("fti")

\* AbstractEngine::remove on the content, then on the record.
RemoveData ==
    /\ Doing("adi") /\ req.action = "DELETE"
    /\ IF Raw /\ Open.adi[req.quid] # None
       THEN Put("adi", None) /\ clobbered' = clobbered \ {req.quid} /\ Proceed
       ELSE Fail("NOTFOUND") /\ UNCHANGED <<db, clobbered>>
    /\ UNCHANGED <<lfb, count, num, req, master, served, restarts, accepted, copied, dropped, cut>>

RemoveRecord ==
    /\ Doing("ari") /\ req.action = "DELETE"
    /\ IF Open.ari[req.quid]
       THEN Put("ari", FALSE) /\ cut' = cut \ {req.quid} /\ Proceed
       ELSE Fail("NOTFOUND") /\ UNCHANGED <<db, cut>>
    /\ UNCHANGED <<lfb, count, num, req, master, served, restarts, accepted, copied, dropped,
                   clobbered>>

\* getMulti appends the QUIDs of the duplicates of a key to a list.  At a QUID
\* the list already has, `continue` skips move_next, and the cursor stays there.
Stuck(list, dups) ==
    {i \in DOMAIN dups : dups[i] \in Range(list) \cup {dups[j] : j \in 1..(i - 1)}}
GetMulti(list, dups) ==
    list \o SubSeq(dups, 1, IF Stuck(list, dups) = {} THEN Len(dups)
                                                     ELSE Min(Stuck(list, dups)) - 1)

KeyHits(t) == GetMulti(<<>>, Open.uki[t])
Hits(t) == GetMulti(KeyHits(t), Open.fti[t])

\* t is the greatest key of an index.
AtEnd(index, t) ==
    /\ Open[index][t] # <<>>
    /\ \A u \in Term : keyOrder[u] > keyOrder[t] => Open[index][u] = <<>>

\* move_next is called after the last duplicate, too, and throws at the end of the
\* database: the search ends there, and its result is NOTFOUND.
Throws(t) ==
    \/ AtEnd("uki", t) /\ Stuck(<<>>, Open.uki[t]) = {}
    \/ AtEnd("fti", t) /\ Stuck(KeyHits(t), Open.fti[t]) = {}

\* The records of a SEARCH, in the order of the hits and numbered by them: those
\* without a record are skipped, those without content stay in the result.
Search(t) ==
    LET hits == Hits(t)
        found == {i \in DOMAIN hits : Open.ari[hits[i]]}
    IN  IF Throws(t) THEN <<>> ELSE [i \in found |-> <<hits[i], Lookup(hits[i])>>]

\* SELECT and SEARCH change nothing; the reply holds Select or Search.
Query ==
    /\ Doing("read")
    /\ IF \/ req.action = "SELECT" /\ Select(req.quid, req.form) = None
          \/ req.action = "SEARCH" /\ Throws(req.content)
       THEN Fail("NOTFOUND") ELSE Proceed
    /\ UNCHANGED <<files, num, req, master, served, restarts, history>>

\* A request that writes leaves its record in a state of its own when it is cut.
Cut == IF req # None /\ Writes(req) THEN cut \cup {req.quid} ELSE cut

\* Any other error of the database: it is printed, and the result stays SUCCESS.
DatabaseError ==
    /\ num # None /\ todo # <<>> /\ Head(todo)[1] # "lfb"
    /\ todo' = <<>>
    /\ cut' = Cut
    /\ UNCHANGED <<files, num, req, result, master, served, restarts, accepted, copied, dropped,
                   clobbered>>

\* What an accepted request leaves behind for later readers.
Accept ==
    IF result # "SUCCESS" \/ ~Writes(req) THEN accepted[req.quid]
    ELSE IF req.action = "DELETE" THEN None ELSE req.content

\* The query goes back with its result, and the master answers DONE or FAIL.
Reply ==
    /\ num # None /\ req # None /\ todo = <<>>
    /\ accepted' = IF req.action = "SEARCH" THEN accepted
                   ELSE [accepted EXCEPT ![req.quid] = Accept]
    /\ copied' = IF result # "SUCCESS" \/ ~Writes(req) THEN copied
                 ELSE IF req.from = "master" THEN copied \cup {req.quid}
                 ELSE copied \ {req.quid}
    /\ dropped' = IF result # "SUCCESS" \/ ~Writes(req) THEN dropped
                  ELSE IF req.form = "malformed" THEN dropped \cup {req.quid}
                  ELSE dropped \ {req.quid}
    /\ req' = None /\ result' = "SUCCESS"
    /\ master' = IF req.from = "master" THEN None ELSE master
    /\ UNCHANGED <<files, num, todo, served, restarts, cut, clobbered>>

-----------------------------------------------------------------------------
\* A request that the worker has read but not answered is lost with it; one that
\* still waits on the master's side goes to the next worker.
MasterLoses ==
    \/ master = "served" /\ master' = "lost"
    \/ master = "queued" /\ master' \in {"queued", "lost"}
    \/ master \in {None, "lost"} /\ UNCHANGED master

\* A signal while the worker waits in recv: the counters are saved.
Exit ==
    /\ Idle
    /\ num' = None /\ count' = num /\ MasterLoses
    /\ UNCHANGED <<db, lfb, service, served, restarts, history>>

Crash ==
    /\ num # None
    /\ num' = None /\ MasterLoses
    /\ req' = None /\ todo' = <<>> /\ result' = "SUCCESS"
    /\ cut' = Cut
    /\ UNCHANGED <<files, served, restarts, accepted, copied, dropped,
                   clobbered>>

\* initSlave: the version count of the catalogus names the files.
Restart ==
    /\ num = None /\ restarts < MaxRestarts
    /\ num' = IF count = None THEN 0 ELSE count
    /\ restarts' = restarts + 1
    /\ UNCHANGED <<files, service, master, served, history>>

Work ==
    \/ PutLarge \/ PutData \/ PutRecord \/ PutKey \/ PutText
    \/ RemoveData \/ RemoveRecord \/ Query \/ Reply

TakeMaster == \E r \in FromMaster : TakeFromMaster(r)

Next ==
    \/ \E r \in Requests : TakeFromClient(r)
    \/ MasterForward \/ TakeMaster
    \/ Work \/ DatabaseError
    \/ Exit \/ Crash \/ Restart

Spec == Init /\ [][Next]_vars

-----------------------------------------------------------------------------
\* The QUIDs of which less is promised: those with a request that was cut by a
\* death or a database error (initSlave writes adi, ari and the indexes in turn),
\* those whose large content an INSERT that was refused has replaced
\* (DataIndex::put writes to the file store before the engine checks the key), and
\* those last written in a form that crop rejects (every put returns silently and
\* the request is answered SUCCESS).
Excepted == cut \cup clobbered \cup dropped

\* Between requests, and whichever worker process is asked, a SELECT that names a
\* record by its bare QUID finds exactly the content of the last INSERT or UPDATE
\* that was answered SUCCESS, with braces or without, and nothing after a DELETE.
\* The exceptions are the records of Excepted; and a SELECT in any other form finds
\* nothing, whatever is stored.
StoredIsLastAccepted ==
    Idle => \A q \in Quid \ Excepted : Select(q, "compact") = accepted[q]

\* An index entry that says its content is in the large file store is right, also
\* after deaths and restarts: DataIndex::get dereferences what Filebase::get
\* returns, which is a null pointer for a missing item.
LargeContentPresent ==
    num # None => \A q \in Quid : Open.adi[q] = "lfb" => lfb[q] # None

\* Without a request that was cut, a record and its content exist together, so no
\* later INSERT is refused half-way and no SELECT finds a record without content.
RecordHasContent ==
    Idle => \A q \in Quid \ cut : Open.ari[q] <=> Open.adi[q] # None

Doubled(t) ==
    LET all == Open.uki[t] \o Open.fti[t] IN Len(all) # Cardinality(Range(all))

Greatest(t) == AtEnd("uki", t) \/ AtEnd("fti", t)

\* SEARCH returns every record whose keyword, in lower case, or value under a
\* keyword is the term, once and with its content.  It does so unless some QUID is
\* indexed twice under the term (after UPDATE, or DELETE and INSERT, or as key and
\* as value), where getMulti stops, and unless the term is the greatest key of one
\* of the indexes, where it throws.  What came through the master is found by the
\* last entry of each group only, which copyMeta leaves.
SearchFindsAll ==
    Idle => \A t \in Term :
        LET found == Search(t)
            leaves(q) == Leaves(q, IF q \in copied THEN "master" ELSE "client")
            match(q) == \E e \in Range(leaves(q)) :
                            lower[e.key] \in Keyword /\ t \in {lower[e.key], e.value}
        IN  /\ \A i, j \in DOMAIN found : found[i][1] = found[j][1] => i = j
            /\ \A q \in Quid \ Excepted :
                  /\ <<q, accepted[q]>> \in Range(found) => accepted[q] # None
                  /\ match(q) /\ accepted[q] # None /\ ~Doubled(t) /\ ~Greatest(t)
                        => <<q, accepted[q]>> \in Range(found)
=============================================================================
