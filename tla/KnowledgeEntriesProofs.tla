----------------------- MODULE KnowledgeEntriesProofs -----------------------
(***************************************************************************)
(* Proofs about KnowledgeEntries, for every number of sections, entries,   *)
(* texts and requests, and every size of the cache and of a batch.         *)
(***************************************************************************)
EXTENDS KnowledgeEntries, FiniteSetTheorems, TLAPS

(* What a request is about. Keys are looked up, or their vectors made, a   *)
(* batch at a time; a deletion at its count is of a section.               *)
Proper(q) ==
  /\ q.kind = "create" => q.entry \in Single
  /\ Cardinality(q.keys) <= Batch /\ q.missing \subseteq q.keys
  /\ q.pc = "stack" => q.missing = {}
  /\ q.pc \in {"flush", "count", "commit"} => q.kind = "delete"
  /\ q.pc = "count" => q.entry \in Section

RequestsAreProper == request \in [Request -> RequestState] /\ \A r \in Request : Proper(request[r])

Rows ==
  /\ DOMAIN row \subseteq Entry /\ \A e \in DOMAIN row : row[e] \in Row
  /\ document \in DocumentRow /\ cache \subseteq Key
  /\ Sections # {} => document.there

(* A row that is deleted and not committed is held by one request.         *)
HeldOnce ==
  \A r, o \in Request : request[r].pc \in {"count", "commit"} /\ request[o].pc \in {"count", "commit"}
                        /\ request[r].entry = request[o].entry => r = o

Typed == RequestsAreProper /\ Rows /\ HeldOnce

(* A count about to be stored leaves out the section that goes: it is      *)
(* never too low, it is exact unless crossed, and it is a new one while    *)
(* the section is there. So no deletion leaves the count as it was.        *)
Counted(q) ==
  document.there /\ q.pc = "commit" /\ q.entry \in Section =>
    /\ q.count >= Cardinality(Sections \ {q.entry})
    /\ q.crossed \/ q.count = Cardinality(Sections \ {q.entry})
    /\ q.entry \in Sections => q.count < q.old

Counts ==
  /\ document.there => document.count >= Cardinality(Sections)
  /\ CountIsExact
  /\ \A r \in Request : Counted(request[r])

(* Who is about to add vectors to the cache, beside r.                     *)
Others(r) == {o \in Request : request[o].pc = "encode"} \ {r}

(* r was the last to find something missing: the cache had room for it,    *)
(* and all the others can add is a batch each.                             *)
HadRoom(r) ==
  Cardinality(cache) + (IF request[r].pc = "encode" THEN Cardinality(request[r].missing) ELSE 0)
    + Batch * Cardinality(Others(r)) <= CacheMax + Batch * (Cardinality(Request) - 1)

RoomWasLeft == \E r \in Request : HadRoom(r)

IndexInv == Typed /\ Counts /\ RoomWasLeft /\ VectorOfText

-----------------------------------------------------------------------------
(* Types, and who holds what *)

LEMMA FreshIsProper ==
  ASSUME NEW pc \in {"idle", "embed", "encode", "stack", "store", "flush", "lock", "cascade",
                     "ok", "notfound", "keyerror", "failed"},
         NEW kind \in Kind, NEW e \in Entry, kind = "create" => e \in Single, pc = "flush" => kind = "delete"
  PROVE  Fresh(pc, kind, e) \in RequestState /\ Proper(Fresh(pc, kind, e)) /\ Fresh(pc, kind, e).pc = pc
<1>1. SomeText \in Text
  BY TextAssumption DEF SomeText
<1>2. Cardinality({}) = 0 /\ Batch \in Nat
  BY FS_EmptySet, CacheAssumption
<1> QED
  BY <1>1, <1>2 DEF Fresh, RequestState, Proper, Kind

(* A step of one request that begins no deletion held by another.          *)
LEMMA OneRequestMoves ==
  ASSUME Typed, NEW r \in Request, NEW q \in RequestState, Proper(q),
         request' = [request EXCEPT ![r] = q],
         q.pc \in {"count", "commit"} =>
           \/ ~Held(q.entry)
           \/ request[r].pc \in {"count", "commit"} /\ request[r].entry = q.entry
  PROVE  RequestsAreProper' /\ HeldOnce'
<1>1. request' \in [Request -> RequestState] /\ \A o \in Request : request'[o] = IF o = r THEN q ELSE request[o]
  BY DEF Typed, RequestsAreProper
<1>2. RequestsAreProper'
  BY <1>1 DEF Typed, RequestsAreProper, Proper
<1>3. \A o \in Request : o # r /\ request[o].pc \in {"count", "commit"} /\ q.pc \in {"count", "commit"}
                         => request[o].entry # q.entry
  BY DEF Typed, HeldOnce, Held, RequestsAreProper, Proper
<1>4. HeldOnce'
  BY <1>1, <1>3 DEF Typed, HeldOnce
<1> QED
  BY <1>2, <1>4

LEMMA RowsStay ==
  ASSUME Rows, UNCHANGED <<row, document, cache>>
  PROVE  Rows'
  BY DEF Rows, Sections

(* A request that ends moves alone.                                        *)
LEMMA EndsMove ==
  ASSUME Typed, NEW r \in Request, NEW outcome \in Ended, End(r, outcome)
  PROVE  /\ RequestsAreProper' /\ HeldOnce'
         /\ \E q \in RequestState : /\ q.pc = outcome
                                    /\ request' = [request EXCEPT ![r] = q]
<1> DEFINE q == Fresh(outcome, request[r].kind, request[r].entry)
<1>1. request[r] \in RequestState /\ Proper(request[r])
  BY DEF Typed, RequestsAreProper
<1>2. q \in RequestState /\ Proper(q) /\ q.pc = outcome
  BY <1>1, FreshIsProper DEF Ended, RequestState, Proper
<1>3. request' = [request EXCEPT ![r] = q]
  BY DEF End
<1>4. outcome \notin {"count", "commit"}
  BY DEF Ended
<1> HIDE DEF q
<1>5. RequestsAreProper' /\ HeldOnce'
  BY <1>2, <1>3, <1>4, OneRequestMoves
<1> QED
  BY <1>2, <1>3, <1>5

(* q is what request r becomes, alone.                                     *)
Moves(r, q) == Proper(q) /\ request' = [request EXCEPT ![r] = q]

(* The steps that neither count nor delete sections one by one, nor look   *)
(* into the cache.                                                         *)
Plain(r) == Send(r) \/ Stack(r) \/ StoreNew(r) \/ StoreEdit(r) \/ Flush(r) \/ Lock(r) \/ Cascade(r)

(* A plain step moves one request, which was not and is not about to add   *)
(* to the cache or to store a count.                                       *)
LEMMA PlainMoves ==
  ASSUME Typed, NEW r \in Request, Plain(r)
  PROVE  \E q \in RequestState :
           /\ Moves(r, q) /\ request[r].pc # "encode" /\ q.pc # "encode"
           /\ q.pc \in {"count", "commit"} => ~Held(q.entry)
           /\ q.pc = "commit" => q.entry \notin Section
<1> DEFINE p == request[r]
<1>1. p \in RequestState /\ Proper(p)
  BY DEF Typed, RequestsAreProper
<1>2. p.kind \in Kind /\ p.entry \in Entry /\ (p.kind = "create" => p.entry \in Single)
  BY <1>1 DEF RequestState, Proper
<1>3. Batch \in Nat /\ 1 <= Batch /\ \A k : Cardinality({k}) = 1
  BY CacheAssumption, FS_Singleton
<1>4. ASSUME NEW kind \in Kind, NEW e \in Entry, NEW keys \in SUBSET Key, kind = "create" => e \in Single,
             Cardinality(keys) <= Batch
      PROVE  LET q == Embedding(kind, e, keys) IN q \in RequestState /\ Proper(q) /\ q.pc = "embed"
  <2>1. Fresh("embed", kind, e) \in RequestState /\ Proper(Fresh("embed", kind, e))
        /\ Fresh("embed", kind, e).missing = {} /\ Fresh("embed", kind, e).pc = "embed"
    BY <1>4, FreshIsProper DEF Fresh
  <2> QED
    BY <2>1, <1>4 DEF Embedding, RequestState, Proper
<1>5. CASE \E e \in Entry, t \in Text : Create(r, e, t)
  <2>1. PICK e \in Entry, t \in Text : Create(r, e, t)
    BY <1>5
  <2> DEFINE f == Embedding("create", e, {t})   q == [f EXCEPT !.text = t]
  <2>2. e \in Single /\ {t} \in SUBSET Key
    BY <2>1 DEF Create, Key
  <2>3. f \in RequestState /\ Proper(f) /\ f.pc = "embed"
    BY <1>3, <1>4, <2>2 DEF Kind
  <2>4. request' = [request EXCEPT ![r] = q] /\ p.pc = "idle"
    BY <2>1 DEF Create
  <2> HIDE DEF f
  <2>5. q \in RequestState /\ Proper(q) /\ q.pc = "embed"
    BY <2>3 DEF RequestState, Proper
  <2> QED
    BY <2>4, <2>5 DEF Moves
<1>6. CASE \E e \in Entry, t \in Text : Update(r, e, t)
  <2>1. PICK e \in Entry, t \in Text : Update(r, e, t)
    BY <1>6
  <2> DEFINE f == Embedding("update", e, {t})   q == [f EXCEPT !.loaded = row[e].text, !.text = t]
             n == Fresh("notfound", "update", e)
  <2>2. {t} \in SUBSET Key /\ (e \in DOMAIN row => row[e].text \in Text)
    BY <2>1 DEF Typed, Rows, Row, Key
  <2>3. f \in RequestState /\ Proper(f) /\ f.pc = "embed"
    BY <1>3, <1>4, <2>2 DEF Kind
  <2>4. n \in RequestState /\ Proper(n) /\ n.pc = "notfound"
    BY FreshIsProper DEF Kind
  <2>5. request' = [request EXCEPT ![r] = IF e \in DOMAIN row THEN q ELSE n] /\ p.pc = "idle"
    BY <2>1 DEF Update
  <2> HIDE DEF f, n
  <2>6. e \in DOMAIN row => q \in RequestState /\ Proper(q) /\ q.pc = "embed"
    BY <2>2, <2>3 DEF RequestState, Proper
  <2> QED
    BY <2>4, <2>5, <2>6 DEF Moves
<1>7. CASE \E e \in Entry : Delete(r, e)
  <2>1. PICK e \in Entry : Delete(r, e)
    BY <1>7
  <2> DEFINE q == Fresh(IF e \in DOMAIN row THEN "flush" ELSE "notfound", "delete", e)
  <2>2. q \in RequestState /\ Proper(q) /\ q.pc \in {"flush", "notfound"}
    BY FreshIsProper DEF Kind
  <2>3. request' = [request EXCEPT ![r] = q] /\ p.pc = "idle"
    BY <2>1 DEF Delete
  <2> QED
    BY <2>2, <2>3 DEF Moves
<1>8. CASE EmbedOnly(r)
  <2>1. PICK kind \in {"search", "batch"}, keys \in SUBSET Key :
          /\ Cardinality(keys) <= Batch
          /\ request' = [request EXCEPT ![r] = Embedding(kind, p.entry, keys)]
    <3>1. CASE \E k \in Query : request' = [request EXCEPT ![r] = Embedding("search", @.entry, {k})]
      BY <1>3, <3>1 DEF Key
    <3>2. CASE \E keys \in SUBSET Text :
                 /\ Cardinality(keys) \in 1 .. Batch
                 /\ request' = [request EXCEPT ![r] = Embedding("batch", @.entry, keys)]
      <4>1. PICK keys \in SUBSET Text :
              /\ Cardinality(keys) \in 1 .. Batch
              /\ request' = [request EXCEPT ![r] = Embedding("batch", p.entry, keys)]
        BY <3>2
      <4>2. keys \in SUBSET Key /\ Cardinality(keys) <= Batch
        BY <1>3, <4>1 DEF Key
      <4> QED
        BY <4>1, <4>2
    <3> QED
      BY <1>8, <3>1, <3>2 DEF EmbedOnly
  <2> DEFINE q == Embedding(kind, p.entry, keys)
  <2>2. q \in RequestState /\ Proper(q) /\ q.pc = "embed" /\ p.pc = "idle"
    BY <1>2, <1>4, <1>8, <2>1 DEF Kind, EmbedOnly
  <2> QED
    BY <2>1, <2>2 DEF Moves
<1>9. CASE Drop(r)
  <2> DEFINE q == Fresh(IF document.there THEN "lock" ELSE "notfound", "drop", p.entry)
  <2>1. q \in RequestState /\ Proper(q) /\ q.pc \in {"lock", "notfound"}
    BY <1>2, FreshIsProper DEF Kind
  <2>2. request' = [request EXCEPT ![r] = q] /\ p.pc = "idle"
    BY <1>9 DEF Drop
  <2> QED
    BY <2>1, <2>2 DEF Moves
<1>10. ASSUME NEW outcome \in Ended, End(r, outcome), p.pc # "encode"
       PROVE  \E q \in RequestState : Moves(r, q) /\ p.pc # "encode" /\ q.pc \in Ended
  <2> DEFINE q == Fresh(outcome, p.kind, p.entry)
  <2>1. q \in RequestState /\ Proper(q) /\ q.pc = outcome
    BY <1>2, FreshIsProper DEF Ended
  <2>2. request' = [request EXCEPT ![r] = q]
    BY <1>10 DEF End
  <2> QED
    BY <1>10, <2>1, <2>2 DEF Moves
<1>11. CASE StoreNew(r) \/ StoreEdit(r) \/ Cascade(r)
  <2>1. p.pc # "encode" /\ \E outcome \in Ended : End(r, outcome)
    BY <1>11 DEF StoreNew, StoreEdit, Cascade, Ended
  <2> QED
    BY <1>10, <2>1 DEF Ended
<1>12. CASE Stack(r)
  <2>1. CASE \E outcome \in Ended : End(r, outcome)
    BY <1>10, <1>12, <2>1 DEF Stack, Ended
  <2>2. CASE request' = [request EXCEPT ![r].pc = "store", ![r].keys = {}]
    <3> DEFINE q == [p EXCEPT !.pc = "store", !.keys = {}]
    <3>1. q \in RequestState /\ q.pc = "store" /\ p.pc = "stack"
      BY <1>1, <1>12 DEF Stack, RequestState
    <3>2. Proper(q)
      BY <1>1, <1>12, FS_EmptySet, CacheAssumption DEF Stack, RequestState, Proper
    <3>3. request' = [request EXCEPT ![r] = q]
      BY <2>2
    <3> QED
      BY <3>1, <3>2, <3>3 DEF Moves
  <2> QED
    BY <1>12, <2>1, <2>2 DEF Stack, Ended
<1>13. CASE Flush(r)
  <2> DEFINE q == [p EXCEPT !.pc = IF p.entry \in Section THEN "count" ELSE "commit"]
  <2>1. q \in RequestState /\ Proper(q) /\ q.pc \in {"count", "commit"} /\ q.entry = p.entry
    BY <1>1, <1>13 DEF Flush, RequestState, Proper
  <2>2. request' = [request EXCEPT ![r] = q] /\ p.pc = "flush" /\ ~Held(p.entry)
    BY <1>13 DEF Flush
  <2>3. q.pc = "commit" => p.entry \notin Section
    BY <1>1 DEF RequestState
  <2> HIDE DEF q
  <2> QED
    BY <2>1, <2>2, <2>3 DEF Moves
<1>14. CASE Lock(r)
  <2> DEFINE q == [p EXCEPT !.pc = "cascade"]
  <2>1. q \in RequestState /\ Proper(q) /\ q.pc = "cascade"
    BY <1>1, <1>14 DEF Lock, RequestState, Proper
  <2>2. request' = [request EXCEPT ![r] = q] /\ p.pc = "lock"
    BY <1>14 DEF Lock
  <2> HIDE DEF q
  <2> QED
    BY <2>1, <2>2 DEF Moves
<1> QED
  BY <1>5, <1>6, <1>7, <1>8, <1>9, <1>11, <1>12, <1>13, <1>14 DEF Plain, Send

(* The columns of an edit that began from the text the row has.            *)
LEMMA MergedIsNew ==
  ASSUME NEW old \in Text, NEW loaded \in Text, NEW new \in Text
  PROVE  Merged(old, loaded, new) \in Text /\ (old = loaded => Merged(old, loaded, new) = new)
  BY DEF Merged, Text

(* A plain step leaves the sections and their count as they are, or the    *)
(* document is gone; what it writes has its vector.                        *)
LEMMA PlainRows ==
  ASSUME Typed, VectorOfText, NEW r \in Request, Plain(r)
  PROVE  /\ Rows' /\ VectorOfText'
         /\ cache' = cache
         /\ (document' = document /\ Sections' = Sections) \/ ~document'.there
<1> DEFINE q == request[r]
           e == q.entry
           t == q.text
<1>1. q \in RequestState /\ Proper(q) /\ e \in Entry /\ t \in Text /\ q.loaded \in Text
  BY DEF Typed, RequestsAreProper, RequestState
<1>2. CASE UNCHANGED <<row, document, cache>>
  <2>1. VectorOfText'
    BY <1>2 DEF VectorOfText
  <2>2. Sections' = Sections
    BY <1>2 DEF Sections
  <2> QED
    BY <1>2, <2>1, <2>2, RowsStay DEF Typed
<1>3. CASE StoreNew(r)
  <2>1. e \in Single /\ UNCHANGED <<document, cache>>
    BY <1>1, <1>3 DEF StoreNew, Proper
  <2>2. /\ DOMAIN row' = DOMAIN row \cup {e}
        /\ \A x \in DOMAIN row' : row'[x] = IF x = e THEN [text |-> t, vector |-> t, overtaken |-> FALSE] ELSE row[x]
    BY <1>3 DEF StoreNew
  <2>3. [text |-> t, vector |-> t, overtaken |-> FALSE] \in Row
    BY <1>1 DEF Row
  <2>4. Sections' = Sections
    BY <2>1, <2>2, EntryAssumption DEF Sections
  <2>5. DOMAIN row' \subseteq Entry /\ \A x \in DOMAIN row' : row'[x] \in Row
    BY <1>1, <2>2, <2>3 DEF Typed, Rows
  <2>6. VectorOfText'
    BY <2>2 DEF VectorOfText
  <2> QED
    BY <2>1, <2>4, <2>5, <2>6 DEF Typed, Rows
<1>4. CASE StoreEdit(r)
  <2> DEFINE new == [text |-> Merged(row[e].text, q.loaded, t), vector |-> t,
                     overtaken |-> row[e].text # q.loaded]
  <2>1. UNCHANGED <<document, cache>> /\ (e \in DOMAIN row => row' = [row EXCEPT ![e] = new])
        /\ (e \notin DOMAIN row => row' = row)
    BY <1>4 DEF StoreEdit, Vector
  <2>2. CASE e \notin DOMAIN row
    BY <1>2, <2>1, <2>2
  <2>3. CASE e \in DOMAIN row
    <3>1. row[e].text \in Text
      BY <2>3 DEF Typed, Rows, Row
    <3>2. new \in Row /\ (new.overtaken \/ new.vector = new.text)
      BY <1>1, <3>1, MergedIsNew DEF Row
    <3> HIDE DEF new
    <3>3. DOMAIN row' = DOMAIN row /\ \A x \in DOMAIN row : row'[x] = IF x = e THEN new ELSE row[x]
      BY <2>1, <2>3
    <3>4. Sections' = Sections
      BY <3>3 DEF Sections
    <3>5. VectorOfText'
      BY <3>2, <3>3 DEF VectorOfText
    <3> QED
      BY <2>1, <3>2, <3>3, <3>4, <3>5 DEF Typed, Rows
  <2> QED
    BY <2>2, <2>3
<1>5. CASE Cascade(r)
  <2>1. DOMAIN row' = DOMAIN row \ Section /\ \A x \in DOMAIN row' : row'[x] = row[x]
    BY <1>5 DEF Cascade
  <2>2. document' \in DocumentRow /\ ~document'.there /\ cache' = cache
    BY <1>5 DEF Cascade, Typed, Rows, DocumentRow
  <2>3. Sections' = {}
    BY <2>1 DEF Sections
  <2>4. VectorOfText'
    BY <2>1 DEF VectorOfText
  <2> QED
    BY <2>1, <2>2, <2>3, <2>4 DEF Typed, Rows
<1> QED
  BY <1>2, <1>3, <1>4, <1>5
     DEF Plain, Send, Create, Update, Delete, EmbedOnly, Drop, Stack, Flush, Lock

(* Every other step but a commit moves one request as well.                *)
LEMMA LookupMoves ==
  ASSUME Typed, NEW r \in Request, Check(r) \/ Encode(r) \/ Count(r)
  PROVE  \E q \in RequestState :
           /\ Moves(r, q) /\ q.entry = request[r].entry
           /\ q.pc \in {"count", "commit"} => Count(r)
<1> DEFINE p == request[r]
<1>1. p \in RequestState /\ Proper(p)
  BY DEF Typed, RequestsAreProper
<1>2. CASE Check(r)
  <2> DEFINE missing == p.keys \ cache
             pc == IF missing = {} THEN "stack" ELSE "encode"
             q == [p EXCEPT !.pc = pc, !.missing = missing]
  <2>1. q \in RequestState
    BY <1>1 DEF RequestState
  <2>2. Proper(q) /\ q.pc \in {"stack", "encode"} /\ q.entry = p.entry
    BY <1>1 DEF Proper, RequestState
  <2>3. request' = [request EXCEPT ![r] = q]
    BY <1>2 DEF Check
  <2> HIDE DEF q
  <2> QED
    BY <2>1, <2>2, <2>3 DEF Moves
<1>3. CASE Encode(r)
  <2> DEFINE q == [p EXCEPT !.pc = "stack", !.missing = {}]
  <2>1. q \in RequestState /\ Proper(q) /\ q.pc = "stack" /\ q.entry = p.entry
    BY <1>1 DEF Proper, RequestState
  <2>2. request' = [request EXCEPT ![r] = q]
    BY <1>3 DEF Encode
  <2> HIDE DEF q
  <2> QED
    BY <2>1, <2>2 DEF Moves
<1>4. CASE Count(r)
  <2> DEFINE n == IF document.there THEN Cardinality(Sections \ {p.entry}) ELSE document.count
             q == [p EXCEPT !.pc = "commit", !.old = document.count, !.count = n]
  <2>1. n \in Nat /\ document.count \in Nat
    <3>1. IsFiniteSet(Sections \ {p.entry})
      BY EntryAssumption, FS_Subset DEF Sections
    <3> QED
      BY <3>1, FS_CardinalityType DEF Typed, Rows, DocumentRow
  <2>2. request' = [request EXCEPT ![r] = q] /\ p.pc = "count"
    BY <1>4 DEF Count
  <2> HIDE DEF n
  <2>3. q \in RequestState /\ Proper(q) /\ q.entry = p.entry
    BY <1>1, <2>1, <2>2 DEF Proper, RequestState
  <2> HIDE DEF q
  <2> QED
    BY <1>4, <2>2, <2>3 DEF Moves
<1> QED
  BY <1>2, <1>3, <1>4

(* A deletion that commits: its row is gone, a count that is new is        *)
(* stored, and the deletions that have counted are crossed.                *)
LEMMA CommitDeletes ==
  ASSUME Typed, NEW r \in Request, Commit(r), ~(Recounts(r) /\ ~document.there)
  PROVE  /\ request' \in [Request -> RequestState] /\ \A o \in Request : Proper(request'[o])
         /\ request'[r].pc = "ok"
         /\ \A o \in Request \ {r} :
              /\ request'[o].pc = request[o].pc /\ request'[o].entry = request[o].entry
              /\ request'[o] = request[o] \/ request'[o] = [request[o] EXCEPT !.crossed = TRUE]
              /\ request[o].pc = "commit" => request'[o] = [request[o] EXCEPT !.crossed = TRUE]
         /\ Sections' = Sections \ {request[r].entry}
         /\ DOMAIN row' \subseteq DOMAIN row /\ \A e \in DOMAIN row' : row'[e] = row[e]
         /\ document' = IF Recounts(r)
                        THEN [document EXCEPT !.count = request[r].count, !.crossed = request[r].crossed]
                        ELSE document
         /\ cache' = cache
<1> DEFINE e == request[r].entry
           f == Fresh("ok", "delete", e)
<1>1. request \in [Request -> RequestState] /\ \A o \in Request : Proper(request[o])
  BY DEF Typed, RequestsAreProper
<1>2. e \in Entry
  BY <1>1 DEF RequestState
<1>3. f \in RequestState /\ Proper(f) /\ f.pc = "ok"
  BY <1>2, FreshIsProper DEF Kind
<1>4. /\ row' = [x \in DOMAIN row \ {e} |-> row[x]]
      /\ document' = IF Recounts(r)
                     THEN [document EXCEPT !.count = request[r].count, !.crossed = request[r].crossed]
                     ELSE document
      /\ request' = [o \in Request |->
           IF o = r THEN f
           ELSE IF request[o].kind = "delete" /\ request[o].pc = "commit"
             THEN [request[o] EXCEPT !.crossed = TRUE]
             ELSE request[o]]
      /\ cache' = cache
  BY DEF Commit
<1> HIDE DEF f
<1>5. \A o \in Request \ {r} :
        /\ request'[o] = request[o] \/ request'[o] = [request[o] EXCEPT !.crossed = TRUE]
        /\ request[o].pc = "commit" => request'[o] = [request[o] EXCEPT !.crossed = TRUE]
  BY <1>1, <1>4 DEF Proper
<1>6. ASSUME NEW o \in Request
      PROVE  LET crossed == [request[o] EXCEPT !.crossed = TRUE]
             IN  /\ crossed \in RequestState /\ Proper(crossed)
                 /\ crossed.pc = request[o].pc /\ crossed.entry = request[o].entry
  BY <1>1, ZenonT(40) DEF RequestState, Proper
<1>7. /\ DOMAIN request' = Request
      /\ \A o \in Request : request'[o] \in RequestState /\ Proper(request'[o])
      /\ \A o \in Request \ {r} : request'[o].pc = request[o].pc /\ request'[o].entry = request[o].entry
      /\ request'[r].pc = "ok"
  BY <1>1, <1>3, <1>4, <1>5, <1>6
<1>8. request' \in [Request -> RequestState]
  BY <1>4, <1>7
<1>9. Sections' = Sections \ {e} /\ DOMAIN row' \subseteq DOMAIN row /\ \A x \in DOMAIN row' : row'[x] = row[x]
  BY <1>4 DEF Sections
<1> QED
  BY <1>4, <1>5, <1>7, <1>8, <1>9

LEMMA BreakMoves ==
  ASSUME Typed, BreakDeadlock
  PROVE  /\ \E d \in Request : End(d, "failed") /\ request[d].pc # "encode"
         /\ UNCHANGED <<row, document, cache>>
<1>1. PICK r, d \in Request :
        /\ request[r].pc = "cascade" /\ request[d].pc = "commit"
        /\ End(r, "failed") \/ End(d, "failed")
        /\ UNCHANGED <<row, document, cache>>
  BY DEF BreakDeadlock
<1> QED
  BY <1>1

LEMMA TypedInit == Init => Typed /\ VectorOfText
<1> SUFFICES ASSUME Init
             PROVE  Typed /\ VectorOfText
  OBVIOUS
<1> DEFINE e == CHOOSE x \in Entry : TRUE
           f == Fresh("idle", "search", e)
<1>1. e \in Entry
  BY EntryAssumption
<1>2. f \in RequestState /\ Proper(f) /\ f.pc = "idle"
  BY <1>1, FreshIsProper DEF Kind
<1>3. request = [r \in Request |-> f]
  BY DEF Init
<1> HIDE DEF f
<1>4. RequestsAreProper /\ HeldOnce
  BY <1>2, <1>3 DEF RequestsAreProper, HeldOnce
<1>5. SomeText \in Text
  BY TextAssumption DEF SomeText
<1>6. Cardinality(Section) \in Nat
  BY EntryAssumption, FS_CardinalityType
<1>7. /\ DOMAIN row = Section
      /\ \A x \in Section : row[x] = [text |-> SomeText, vector |-> SomeText, overtaken |-> FALSE]
      /\ document = [there |-> TRUE, count |-> Cardinality(Section), crossed |-> FALSE]
      /\ cache \subseteq Key
  BY DEF Init
<1>8. Rows
  <2>1. \A x \in Section : row[x] \in Row
    <3>1. [text |-> SomeText, vector |-> SomeText, overtaken |-> FALSE] \in Row
      BY <1>5 DEF Row
    <3> QED
      BY <1>7, <3>1
  <2>2. document \in DocumentRow /\ document.there
    BY <1>6, <1>7 DEF DocumentRow
  <2> QED
    BY <1>7, <2>1, <2>2 DEF Rows, Entry
<1>9. VectorOfText
  BY <1>7 DEF VectorOfText
<1> QED
  BY <1>4, <1>8, <1>9 DEF Typed

LEMMA TypedStep == Typed /\ VectorOfText /\ [Next]_vars => Typed' /\ VectorOfText'
<1> SUFFICES ASSUME Typed, VectorOfText, [Next]_vars
             PROVE  Typed' /\ VectorOfText'
  OBVIOUS
<1>1. ASSUME NEW r \in Request, Plain(r)
      PROVE  Typed' /\ VectorOfText'
  BY <1>1, PlainMoves, PlainRows, OneRequestMoves DEF Moves, Typed
<1>2. ASSUME NEW r \in Request, Check(r) \/ Encode(r) \/ Count(r)
      PROVE  Typed' /\ VectorOfText'
  <2>1. PICK q \in RequestState : /\ Moves(r, q) /\ q.entry = request[r].entry
                                  /\ q.pc \in {"count", "commit"} => Count(r)
    BY <1>2, LookupMoves
  <2>2. RequestsAreProper' /\ HeldOnce'
    BY <2>1, OneRequestMoves DEF Moves, Count
  <2>3. UNCHANGED <<row, document>> /\ cache' \subseteq Key
    BY <1>2 DEF Check, Encode, Count, Typed, Rows, RequestsAreProper, RequestState
  <2> QED
    BY <2>2, <2>3 DEF Typed, Rows, Sections, VectorOfText
<1>3. ASSUME NEW r \in Request, Commit(r)
      PROVE  Typed' /\ VectorOfText'
  <2>1. CASE Recounts(r) /\ ~document.there
    <3>1. End(r, "failed") /\ UNCHANGED <<row, document, cache>>
      BY <1>3, <2>1 DEF Commit
    <3> QED
      BY <3>1, EndsMove, RowsStay DEF Ended, Typed, VectorOfText
  <2>2. CASE ~(Recounts(r) /\ ~document.there)
    <3>1. RequestsAreProper'
      BY <1>3, <2>2, CommitDeletes DEF RequestsAreProper
    <3>2. \A o \in Request : request'[o].pc \in {"count", "commit"} =>
            request[o].pc \in {"count", "commit"} /\ request'[o].entry = request[o].entry
      BY <1>3, <2>2, CommitDeletes
    <3>3. HeldOnce'
      BY <3>2 DEF Typed, HeldOnce
    <3>4. document' \in DocumentRow /\ document'.there = document.there
      <4>1. request[r].count \in Nat /\ request[r].crossed \in BOOLEAN /\ document \in DocumentRow
        BY DEF Typed, Rows, RequestsAreProper, RequestState
      <4> QED
        BY <1>3, <2>2, <4>1, CommitDeletes DEF DocumentRow
    <3>5. Rows'
      BY <1>3, <2>2, <3>4, CommitDeletes DEF Typed, Rows
    <3>6. VectorOfText'
      BY <1>3, <2>2, CommitDeletes DEF VectorOfText
    <3> QED
      BY <3>1, <3>3, <3>5, <3>6 DEF Typed
  <2> QED
    BY <2>1, <2>2
<1>4. CASE BreakDeadlock
  BY <1>4, BreakMoves, EndsMove, RowsStay DEF Ended, Typed, VectorOfText
<1>5. CASE UNCHANGED vars
  BY <1>5 DEF vars, Typed, RequestsAreProper, HeldOnce, Rows, Sections, VectorOfText
<1> QED
  BY <1>1, <1>2, <1>3, <1>4, <1>5 DEF Next, Step, Plain

-----------------------------------------------------------------------------
(* The count of sections *)

(* Sections are finitely many, and one that goes is one less.              *)
LEMMA SectionsAreCounted ==
  /\ IsFiniteSet(Sections) /\ Cardinality(Sections) \in Nat
  /\ \A T \in SUBSET Sections : Cardinality(T) \in Nat /\ Cardinality(T) <= Cardinality(Sections)
  /\ \A e : Cardinality(Sections \ {e}) = IF e \in Sections THEN Cardinality(Sections) - 1
                                                             ELSE Cardinality(Sections)
  /\ \A e, x : /\ Cardinality(Sections \ {e}) \in Nat
               /\ Cardinality((Sections \ {x}) \ {e}) \in Nat
               /\ Cardinality((Sections \ {x}) \ {e}) <= Cardinality(Sections \ {e})
<1>1. IsFiniteSet(Sections)
  BY EntryAssumption, FS_Subset DEF Sections
<1>2. \A T \in SUBSET Sections : IsFiniteSet(T) /\ Cardinality(T) \in Nat /\ Cardinality(T) <= Cardinality(Sections)
  BY <1>1, FS_Subset, FS_CardinalityType
<1>3. \A e : Cardinality(Sections \ {e}) = IF e \in Sections THEN Cardinality(Sections) - 1
                                                              ELSE Cardinality(Sections)
  BY <1>1, FS_RemoveElement
<1>4. ASSUME NEW e, NEW x
      PROVE  Cardinality((Sections \ {x}) \ {e}) <= Cardinality(Sections \ {e})
  <2>1. IsFiniteSet(Sections \ {e})
    BY <1>2
  <2>2. (Sections \ {x}) \ {e} \in SUBSET (Sections \ {e})
    OBVIOUS
  <2> QED
    BY <2>1, <2>2, FS_Subset
<1> QED
  BY <1>1, <1>2, <1>3, <1>4

LEMMA CountsInit == Init => Counts
<1> SUFFICES ASSUME Init
             PROVE  Counts
  OBVIOUS
<1>1. Sections = Section
  BY DEF Init, Sections
<1>2. document.count = Cardinality(Section)
  BY DEF Init
<1>3. \A r \in Request : request[r].pc = "idle"
  BY DEF Init, Fresh
<1> QED
  BY <1>1, <1>2, <1>3, SectionsAreCounted DEF Counts, CountIsExact, Counted

(* A step that changes no sections leaves the counts, whatever one request *)
(* becomes that is not about to store a count.                             *)
LEMMA CountsStay ==
  ASSUME Typed, Counts, NEW r \in Request, NEW q \in RequestState,
         request' = [request EXCEPT ![r] = q], q.pc = "commit" => q.entry \notin Section,
         (document' = document /\ Sections' = Sections) \/ ~document'.there
  PROVE  Counts'
<1>1. \A o \in Request : request'[o] = IF o = r THEN q ELSE request[o]
  BY DEF Typed, RequestsAreProper
<1>2. CASE ~document'.there
  BY <1>2 DEF Counts, CountIsExact, Counted
<1>3. CASE document' = document /\ Sections' = Sections
  <2>1. \A o \in Request : Counted(request[o])'
    BY <1>1, <1>3 DEF Counts, Counted
  <2> QED
    BY <1>3, <2>1 DEF Counts, CountIsExact
<1> QED
  BY <1>2, <1>3

LEMMA CountIsNew ==
  ASSUME Typed, Counts, NEW r \in Request, Count(r)
  PROVE  Counts'
<1> DEFINE e == request[r].entry
           seen == Cardinality(Sections \ {e})
<1>1. UNCHANGED <<row, document>> /\ Sections' = Sections
  BY DEF Count, Sections
<1>2. /\ request'[r].entry = e /\ request'[r].old = document.count
      /\ document.there => request'[r].count = seen
      /\ \A o \in Request \ {r} : request'[o] = request[o]
  BY DEF Count, Typed, RequestsAreProper, RequestState
<1>3. document.there => seen \in Nat /\ document.count \in Nat /\ (e \in Sections => seen < document.count)
  <2>1. document.count \in Nat
    BY DEF Typed, Rows, DocumentRow
  <2> QED
    BY <2>1, SectionsAreCounted DEF Counts
<1> HIDE DEF seen
<1>4. Counted(request[r])'
  BY <1>1, <1>2, <1>3 DEF Counted, seen
<1>5. \A o \in Request \ {r} : Counted(request[o])'
  BY <1>1, <1>2 DEF Counted, Counts
<1> QED
  BY <1>1, <1>4, <1>5 DEF Counts, CountIsExact

(* A deletion commits: the count it stores was never too low, and exact    *)
(* unless crossed. One that stores none has no section left to delete.     *)
LEMMA CommitCounts ==
  ASSUME Typed, Counts, NEW r \in Request, Commit(r), ~(Recounts(r) /\ ~document.there)
  PROVE  Counts'
<1> DEFINE e == request[r].entry
           q == request[r]
<1>1. /\ q \in RequestState /\ q.count \in Nat /\ q.old \in Nat /\ q.crossed \in BOOLEAN
      /\ document.count \in Nat /\ document \in DocumentRow
  BY DEF Typed, RequestsAreProper, RequestState, Rows, DocumentRow
<1>2. q.pc = "commit" /\ Sections' = Sections \ {e}
  BY CommitDeletes DEF Commit
<1>3. document'.there = document.there
  BY <1>1, CommitDeletes DEF DocumentRow
<1>4. CASE ~document.there
  BY <1>3, <1>4 DEF Counts, CountIsExact, Counted
<1>5. CASE document.there
  <2>1. document'.count >= Cardinality(Sections') /\ (document'.crossed \/ document'.count = Cardinality(Sections'))
    <3>1. CASE Recounts(r)
      <4>1. document'.count = q.count /\ document'.crossed = q.crossed
        BY <1>1, <3>1, CommitDeletes DEF DocumentRow
      <4> QED
        BY <1>2, <1>5, <3>1, <4>1 DEF Counts, Counted, Recounts
    <3>2. CASE ~Recounts(r)
      <4>1. document' = document
        BY <3>2, CommitDeletes
      <4>2. e \notin Sections
        <5>1. e \in Sections => e \in Section /\ q.count < q.old
          BY <1>2, <1>5 DEF Counts, Counted, Sections
        <5>2. e \in Section => q.count = q.old
          BY <3>2 DEF Recounts
        <5> QED
          BY <1>1, <5>1, <5>2
      <4>3. Sections' = Sections
        BY <1>2, <4>2
      <4> QED
        BY <1>5, <4>1, <4>3 DEF Counts, CountIsExact
    <3> QED
      BY <3>1, <3>2
  <2>2. ASSUME NEW o \in Request
        PROVE  Counted(request[o])'
    <3>1. CASE o = r
      BY <3>1, CommitDeletes DEF Counted
    <3>2. CASE o # r /\ request[o].pc # "commit"
      BY <3>2, CommitDeletes DEF Counted
    <3>3. CASE o # r /\ request[o].pc = "commit" /\ request[o].entry \notin Section
      BY <3>3, CommitDeletes DEF Counted
    <3>4. CASE o # r /\ request[o].pc = "commit" /\ request[o].entry \in Section
      <4> DEFINE x == request[o].entry
                 old == request[o]
      <4>1. old \in RequestState /\ old.count \in Nat
        BY DEF Typed, RequestsAreProper, RequestState
      <4>2. request'[o] = [old EXCEPT !.crossed = TRUE]
        BY <3>4, CommitDeletes, ZenonT(40)
      <4>3. /\ request'[o].crossed /\ request'[o].count = old.count
            /\ request'[o].old = old.old /\ request'[o].entry = x
        BY <4>1, <4>2 DEF RequestState
      <4>4. old.count >= Cardinality(Sections \ {x}) /\ (x \in Sections => old.count < old.old)
        BY <1>5, <3>4 DEF Counts, Counted
      <4>5. /\ Cardinality((Sections \ {e}) \ {x}) \in Nat /\ Cardinality(Sections \ {x}) \in Nat
            /\ Cardinality((Sections \ {e}) \ {x}) <= Cardinality(Sections \ {x})
        BY SectionsAreCounted
      <4>6. old.count >= Cardinality((Sections \ {e}) \ {x})
        BY <4>1, <4>4, <4>5
      <4> HIDE DEF old
      <4> QED
        BY <1>2, <4>3, <4>4, <4>6 DEF Counted
    <3> QED
      BY <3>1, <3>2, <3>3, <3>4
  <2> QED
    BY <2>1, <2>2 DEF Counts, CountIsExact
<1> QED
  BY <1>4, <1>5

LEMMA CountsStep == Typed /\ VectorOfText /\ Counts /\ [Next]_vars => Counts'
<1> SUFFICES ASSUME Typed, VectorOfText, Counts, [Next]_vars
             PROVE  Counts'
  OBVIOUS
<1>1. ASSUME NEW r \in Request, Plain(r)
      PROVE  Counts'
  BY <1>1, PlainMoves, PlainRows, CountsStay DEF Moves
<1>2. ASSUME NEW r \in Request, Check(r) \/ Encode(r)
      PROVE  Counts'
  <2>1. PICK q \in RequestState : Moves(r, q) /\ q.pc # "commit"
    BY <1>2, LookupMoves DEF Check, Encode, Count
  <2>2. document' = document /\ Sections' = Sections
    BY <1>2 DEF Check, Encode, Sections
  <2> QED
    BY <2>1, <2>2, CountsStay DEF Moves
<1>3. ASSUME NEW r \in Request, Commit(r)
      PROVE  Counts'
  <2>1. CASE Recounts(r) /\ ~document.there
    <3>1. document' = document
      BY <1>3, <2>1 DEF Commit
    <3> QED
      BY <2>1, <3>1 DEF Counts, CountIsExact, Counted
  <2> QED
    BY <1>3, <2>1, CommitCounts
<1>4. CASE BreakDeadlock
  <2>1. PICK d \in Request : End(d, "failed")
    BY <1>4, BreakMoves
  <2>2. PICK q \in RequestState : q.pc = "failed" /\ request' = [request EXCEPT ![d] = q]
    BY <2>1, EndsMove DEF Ended
  <2>3. document' = document /\ Sections' = Sections
    BY <1>4, BreakMoves DEF Sections
  <2> QED
    BY <2>2, <2>3, CountsStay
<1>5. CASE UNCHANGED vars
  BY <1>5 DEF vars, Counts, CountIsExact, Counted, Sections
<1> QED
  BY <1>1, <1>2, <1>3, <1>4, <1>5, CountIsNew DEF Next, Step, Plain

-----------------------------------------------------------------------------
(* The cache *)

LEMMA BatchTimes ==
  ASSUME NEW m \in Nat, NEW n \in Nat
  PROVE  /\ Batch \in Nat /\ Batch * m \in Nat /\ Batch * 0 = 0
         /\ m <= n => Batch * m <= Batch * n
         /\ 1 <= m => Batch * (m - 1) = Batch * m - Batch
<1>1. Batch \in Nat
  BY CacheAssumption
<1>2. \A b, x, y \in Nat : /\ b * x \in Nat /\ b * 0 = 0
                           /\ x <= y => b * x <= b * y
                           /\ 1 <= x => b * (x - 1) = b * x - b
  OBVIOUS
<1> QED
  BY <1>1, <1>2

LEMMA RequestsAreCounted ==
  /\ Cardinality(Request) \in Nat /\ 1 <= Cardinality(Request)
  /\ \A r \in Request : /\ IsFiniteSet(Others(r)) /\ Cardinality(Others(r)) \in Nat
                        /\ Cardinality(Others(r)) <= Cardinality(Request) - 1
<1>1. IsFiniteSet(Request) /\ Cardinality(Request) \in Nat /\ Cardinality(Request) # 0
  BY RequestAssumption, FS_CardinalityType, FS_EmptySet
<1>2. ASSUME NEW r \in Request
      PROVE  /\ IsFiniteSet(Others(r)) /\ Cardinality(Others(r)) \in Nat
             /\ Cardinality(Others(r)) <= Cardinality(Request) - 1
  <2>1. Others(r) \in SUBSET (Request \ {r})
    BY DEF Others
  <2>2. IsFiniteSet(Request \ {r}) /\ Cardinality(Request \ {r}) = Cardinality(Request) - 1
    BY <1>1, FS_RemoveElement
  <2>3. IsFiniteSet(Others(r)) /\ Cardinality(Others(r)) <= Cardinality(Request \ {r})
    BY <2>1, <2>2, FS_Subset
  <2> QED
    BY <2>2, <2>3, FS_CardinalityType
<1> QED
  BY <1>1, <1>2

(* The cache and what a call is missing are finite.                        *)
LEMMA KeysAreCounted ==
  ASSUME Typed
  PROVE  /\ IsFiniteSet(cache) /\ Cardinality(cache) \in Nat
         /\ \A r \in Request :
              LET missing == request[r].missing
              IN  /\ IsFiniteSet(missing) /\ Cardinality(missing) \in Nat /\ Cardinality(missing) <= Batch
                  /\ Cardinality(cache \cup missing) \in Nat
                  /\ Cardinality(cache \cup missing) <= Cardinality(cache) + Cardinality(missing)
<1>1. IsFiniteSet(Key) /\ Batch \in Nat
  BY CacheAssumption
<1>2. \A K \in SUBSET Key : IsFiniteSet(K) /\ Cardinality(K) \in Nat
  BY <1>1, FS_Subset, FS_CardinalityType
<1>3. cache \in SUBSET Key
  BY DEF Typed, Rows
<1>4. ASSUME NEW r \in Request
      PROVE  LET missing == request[r].missing
             IN  /\ IsFiniteSet(missing) /\ Cardinality(missing) \in Nat /\ Cardinality(missing) <= Batch
                 /\ Cardinality(cache \cup missing) \in Nat
                 /\ Cardinality(cache \cup missing) <= Cardinality(cache) + Cardinality(missing)
  <2> DEFINE missing == request[r].missing
             keys == request[r].keys
  <2>1. keys \in SUBSET Key /\ missing \in SUBSET keys /\ Cardinality(keys) <= Batch
    BY DEF Typed, RequestsAreProper, RequestState, Proper
  <2>2. IsFiniteSet(keys) /\ Cardinality(keys) \in Nat /\ Cardinality(missing) <= Cardinality(keys)
    BY <1>2, <2>1, FS_Subset
  <2>3. IsFiniteSet(missing) /\ Cardinality(missing) \in Nat /\ cache \cup missing \in SUBSET Key
        /\ cache \cap missing \in SUBSET Key
    BY <1>2, <1>3, <2>1
  <2>4. Cardinality(cache \cup missing) = Cardinality(cache) + Cardinality(missing) - Cardinality(cache \cap missing)
    BY <1>2, <1>3, <2>3, FS_Union
  <2>5. /\ Cardinality(cache) \in Nat /\ Cardinality(cache \cup missing) \in Nat
        /\ Cardinality(cache \cap missing) \in Nat
    BY <1>2, <1>3, <2>3
  <2>6. Cardinality(missing) <= Batch
    BY <1>1, <2>1, <2>2, <2>3
  <2> QED
    BY <2>3, <2>4, <2>5, <2>6
<1> QED
  BY <1>2, <1>3, <1>4

LEMMA RoomInit == Init => RoomWasLeft
<1> SUFFICES ASSUME Init
             PROVE  RoomWasLeft
  OBVIOUS
<1>1. PICK r \in Request : TRUE
  BY RequestAssumption
<1>2. \A o \in Request : request[o].pc = "idle"
  BY DEF Init, Fresh
<1>3. Others(r) = {}
  BY <1>2 DEF Others
<1>4. Cardinality(Others(r)) = 0
  BY <1>3, FS_EmptySet
<1>5. Cardinality(cache) <= CacheMax /\ CacheMax \in Nat /\ Cardinality(cache) \in Nat
  <2>1. cache \in SUBSET Key /\ Cardinality(cache) <= CacheMax
    BY DEF Init
  <2> QED
    BY <2>1, CacheAssumption, FS_Subset, FS_CardinalityType
<1>6. Batch * (Cardinality(Request) - 1) \in Nat /\ Batch * 0 = 0
  <2>1. Cardinality(Request) - 1 \in Nat
    BY RequestsAreCounted
  <2> QED
    BY <2>1, BatchTimes
<1>7. HadRoom(r)
  BY <1>1, <1>2, <1>4, <1>5, <1>6 DEF HadRoom
<1> QED
  BY <1>7 DEF RoomWasLeft

(* Steps outside the lookup leave the room there was.                      *)
LEMMA RoomStays ==
  ASSUME RoomWasLeft, cache' = cache,
         \A o \in Request : /\ request'[o].pc = "encode" <=> request[o].pc = "encode"
                            /\ request[o].pc = "encode" => request'[o].missing = request[o].missing
  PROVE  RoomWasLeft'
<1>1. PICK r \in Request : HadRoom(r)
  BY DEF RoomWasLeft
<1>2. Others(r)' = Others(r)
  BY DEF Others
<1>3. HadRoom(r)'
  BY <1>1, <1>2 DEF HadRoom
<1> QED
  BY <1>3 DEF RoomWasLeft

(* A call that finds something missing: the cache has room for it.         *)
LEMMA CheckLeavesRoom ==
  ASSUME Typed, RoomWasLeft, NEW r \in Request, Check(r)
  PROVE  RoomWasLeft'
<1> DEFINE missing == request[r].keys \ cache
           n == Cardinality(missing)
           size == Cardinality(Request) - 1
<1>1. \A o \in Request \ {r} : request'[o] = request[o]
  BY DEF Check, Typed, RequestsAreProper
<1>2. /\ request[r].pc = "embed" /\ request'[r].missing = missing
      /\ request'[r].pc = IF missing = {} THEN "stack" ELSE "encode"
  BY DEF Check, Typed, RequestsAreProper, RequestState
<1>3. CASE missing = {}
  <2>1. cache' = cache
    BY <1>3 DEF Check
  <2> QED
    BY <1>1, <1>2, <1>3, <2>1, RoomStays
<1>4. CASE missing # {}
  <2>1. n \in Nat /\ n <= Batch /\ Cardinality(cache) \in Nat /\ CacheMax \in Nat /\ Batch \in Nat /\ Batch <= CacheMax
    <3>1. request[r].keys \in SUBSET Key /\ Cardinality(request[r].keys) <= Batch
      BY DEF Typed, RequestsAreProper, RequestState, Proper
    <3>2. IsFiniteSet(request[r].keys) /\ Cardinality(request[r].keys) \in Nat
      BY <3>1, CacheAssumption, FS_Subset, FS_CardinalityType
    <3>3. missing \in SUBSET request[r].keys
      OBVIOUS
    <3>4. IsFiniteSet(missing) /\ n \in Nat /\ n <= Cardinality(request[r].keys)
      BY <3>2, <3>3, FS_Subset, FS_CardinalityType
    <3> HIDE DEF missing
    <3> QED
      BY <3>1, <3>2, <3>4, KeysAreCounted, CacheAssumption
  <2>2. Cardinality(cache') \in Nat /\ Cardinality(cache') + n <= CacheMax
    <3>1. cache' = IF Cardinality(cache) + n > CacheMax THEN {} ELSE cache
      BY <1>4 DEF Check
    <3> HIDE DEF n
    <3> QED
      BY <2>1, <3>1, FS_EmptySet
  <2>3. /\ Cardinality(Others(r)') \in Nat /\ size \in Nat /\ Cardinality(Others(r)') <= size
    <3>1. Others(r)' \in SUBSET (Request \ {r})
      BY DEF Others
    <3>2. IsFiniteSet(Request \ {r}) /\ Cardinality(Request \ {r}) = size
      BY RequestAssumption, FS_RemoveElement
    <3> QED
      BY <3>1, <3>2, RequestsAreCounted, FS_Subset, FS_CardinalityType
  <2>4. Batch * Cardinality(Others(r)') \in Nat /\ Batch * size \in Nat /\ Batch * Cardinality(Others(r)') <= Batch * size
    BY <2>3, BatchTimes
  <2>5. request'[r].pc = "encode" /\ Cardinality(request'[r].missing) = n
    BY <1>2, <1>4
  <2> HIDE DEF n
  <2>6. HadRoom(r)'
    BY <2>1, <2>2, <2>4, <2>5 DEF HadRoom
  <2> QED
    BY <2>6 DEF RoomWasLeft
<1> QED
  BY <1>3, <1>4

(* Vectors are added: by r, which had the room, or by another, whose batch *)
(* was counted.                                                            *)
LEMMA EncodeLeavesRoom ==
  ASSUME Typed, RoomWasLeft, NEW r \in Request, Encode(r)
  PROVE  RoomWasLeft'
<1> DEFINE missing == request[r].missing
           size == Batch * (Cardinality(Request) - 1)
<1>1. /\ request[r].pc = "encode" /\ request'[r].pc = "stack"
      /\ \A o \in Request \ {r} : request'[o] = request[o]
      /\ cache' = cache \cup missing
  BY DEF Encode, Typed, RequestsAreProper, RequestState
<1>2. PICK w \in Request : HadRoom(w)
  BY DEF RoomWasLeft
<1>3. /\ Cardinality(cache) \in Nat /\ Cardinality(missing) \in Nat /\ Cardinality(missing) <= Batch
      /\ Cardinality(cache') \in Nat /\ Cardinality(cache') <= Cardinality(cache) + Cardinality(missing)
  BY <1>1, KeysAreCounted
<1>4. CacheMax \in Nat /\ Batch \in Nat /\ size \in Nat /\ Cardinality(Others(w)) \in Nat
      /\ Batch * Cardinality(Others(w)) \in Nat
  <2>1. Cardinality(Request) - 1 \in Nat /\ Cardinality(Others(w)) \in Nat
    BY RequestsAreCounted
  <2> QED
    BY <2>1, BatchTimes, CacheAssumption
<1> HIDE DEF size
<1>5. CASE w = r
  <2>1. Others(w)' = Others(w)
    BY <1>1, <1>5 DEF Others
  <2>2. Cardinality(cache) + Cardinality(missing) + Batch * Cardinality(Others(w)) <= CacheMax + size
    BY <1>1, <1>2, <1>5 DEF HadRoom, size
  <2>3. Cardinality(cache') + Batch * Cardinality(Others(w)) <= CacheMax + size
    BY <1>3, <1>4, <2>2
  <2>4. Cardinality(cache') + 0 + Batch * Cardinality(Others(w)') <= CacheMax + size
    BY <1>3, <1>4, <2>1, <2>3
  <2>5. HadRoom(w)'
    BY <1>1, <1>5, <2>4 DEF HadRoom, size
  <2> QED
    BY <2>5 DEF RoomWasLeft
<1>6. CASE w # r
  <2> DEFINE own == IF request[w].pc = "encode" THEN Cardinality(request[w].missing) ELSE 0
  <2>1. Others(w)' = Others(w) \ {r} /\ r \in Others(w)
    BY <1>1, <1>6 DEF Others
  <2>2. Cardinality(Others(w)') = Cardinality(Others(w)) - 1 /\ 1 <= Cardinality(Others(w))
    <3>1. IsFiniteSet(Others(w)) /\ Cardinality(Others(w)) # 0
      BY <2>1, RequestsAreCounted, FS_EmptySet
    <3> QED
      BY <1>4, <2>1, <3>1, FS_RemoveElement
  <2>3. Batch * Cardinality(Others(w)') = Batch * Cardinality(Others(w)) - Batch
    BY <1>4, <2>2, BatchTimes
  <2>4. own \in Nat /\ own' = own
    BY <1>1, <1>6, KeysAreCounted
  <2>5. Cardinality(cache) + own + Batch * Cardinality(Others(w)) <= CacheMax + size
    BY <1>2 DEF HadRoom, size
  <2> HIDE DEF own
  <2>6. Cardinality(cache') + own + Batch * Cardinality(Others(w)') <= CacheMax + size
    BY <1>3, <1>4, <2>3, <2>4, <2>5
  <2>7. HadRoom(w)'
    BY <2>4, <2>6 DEF HadRoom, size, own
  <2> QED
    BY <2>7 DEF RoomWasLeft
<1> QED
  BY <1>5, <1>6

LEMMA RoomStep == Typed /\ VectorOfText /\ RoomWasLeft /\ [Next]_vars => RoomWasLeft'
<1> SUFFICES ASSUME Typed, VectorOfText, RoomWasLeft, [Next]_vars
             PROVE  RoomWasLeft'
  OBVIOUS
<1>1. ASSUME NEW r \in Request, NEW q \in RequestState, request' = [request EXCEPT ![r] = q],
             request[r].pc # "encode", q.pc # "encode", cache' = cache
      PROVE  RoomWasLeft'
  <2>1. \A o \in Request : request'[o] = IF o = r THEN q ELSE request[o]
    BY <1>1 DEF Typed, RequestsAreProper
  <2> QED
    BY <1>1, <2>1, RoomStays
<1>2. ASSUME NEW r \in Request, Plain(r)
      PROVE  RoomWasLeft'
  BY <1>1, <1>2, PlainMoves, PlainRows DEF Moves
<1>3. ASSUME NEW r \in Request, Count(r)
      PROVE  RoomWasLeft'
  <2>1. /\ request[r].pc = "count" /\ request'[r].pc = "commit" /\ cache' = cache
        /\ \A o \in Request \ {r} : request'[o] = request[o]
    BY <1>3 DEF Count, Typed, RequestsAreProper, RequestState
  <2> QED
    BY <2>1, RoomStays
<1>4. ASSUME NEW r \in Request, Commit(r)
      PROVE  RoomWasLeft'
  <2>1. CASE Recounts(r) /\ ~document.there
    <3>1. End(r, "failed") /\ request[r].pc = "commit" /\ cache' = cache
      BY <1>4, <2>1 DEF Commit
    <3> QED
      BY <1>1, <3>1, EndsMove DEF Ended
  <2>2. CASE ~(Recounts(r) /\ ~document.there)
    <3>1. \A o \in Request \ {r} : request[o].pc = "encode" => request'[o].missing = request[o].missing
      <4>1. \A o \in Request : [request[o] EXCEPT !.crossed = TRUE].missing = request[o].missing
        BY DEF Typed, RequestsAreProper, RequestState
      <4>2. \A o \in Request \ {r} : request'[o] = request[o] \/ request'[o] = [request[o] EXCEPT !.crossed = TRUE]
        BY <1>4, <2>2, CommitDeletes
      <4> QED
        BY <4>1, <4>2
    <3>2. request[r].pc = "commit" /\ request'[r].pc = "ok" /\ cache' = cache
      BY <1>4, <2>2, CommitDeletes DEF Commit
    <3>3. \A o \in Request \ {r} : request'[o].pc = request[o].pc
      BY <1>4, <2>2, CommitDeletes
    <3> QED
      BY <3>1, <3>2, <3>3, RoomStays
  <2> QED
    BY <2>1, <2>2
<1>5. CASE BreakDeadlock
  <2>1. PICK d \in Request : End(d, "failed") /\ request[d].pc # "encode"
    BY <1>5, BreakMoves
  <2>2. PICK q \in RequestState : q.pc = "failed" /\ request' = [request EXCEPT ![d] = q]
    BY <2>1, EndsMove DEF Ended
  <2> QED
    BY <1>1, <1>5, <2>1, <2>2, BreakMoves
<1>6. CASE UNCHANGED vars
  BY <1>6, RoomStays DEF vars
<1> QED
  BY <1>2, <1>3, <1>4, <1>5, <1>6, CheckLeavesRoom, EncodeLeavesRoom DEF Next, Step, Plain

-----------------------------------------------------------------------------
LEMMA IndexInvImplies == IndexInv => IndexConsistent
<1> SUFFICES ASSUME IndexInv
             PROVE  IndexConsistent
  OBVIOUS
<1>1. TypeOK
  BY DEF IndexInv, Typed, Rows, RequestsAreProper, TypeOK, Sections
<1>2. CountIsExact
  BY DEF IndexInv, Counts
<1>3. CacheStaysSmall
  <2>1. PICK r \in Request : HadRoom(r)
    BY DEF IndexInv, RoomWasLeft
  <2> DEFINE own == IF request[r].pc = "encode" THEN Cardinality(request[r].missing) ELSE 0
             beside == Batch * Cardinality(Others(r))
             limit == Batch * (Cardinality(Request) - 1)
  <2>2. Cardinality(cache) + own + beside <= CacheMax + limit
    BY <2>1 DEF HadRoom
  <2>3. own \in Nat /\ Cardinality(cache) \in Nat
    BY KeysAreCounted DEF IndexInv
  <2>4. beside \in Nat /\ limit \in Nat /\ CacheMax \in Nat
    <3>1. Cardinality(Request) - 1 \in Nat
      BY RequestsAreCounted
    <3> QED
      BY <3>1, RequestsAreCounted, BatchTimes, CacheAssumption
  <2> HIDE DEF own, beside
  <2>5. Cardinality(cache) <= CacheMax + limit
    BY <2>2, <2>3, <2>4
  <2> QED
    BY <2>5 DEF CacheStaysSmall
<1> QED
  BY <1>1, <1>2, <1>3 DEF IndexConsistent

LEMMA IndexInvHolds == Spec => []IndexInv
<1>1. Init => IndexInv
  BY TypedInit, CountsInit, RoomInit DEF IndexInv
<1>2. IndexInv /\ [Next]_vars => IndexInv'
  BY TypedStep, CountsStep, RoomStep DEF IndexInv
<1> QED
  BY <1>1, <1>2, PTL DEF Spec

(* The rows, the count of sections the document shows and the cache agree, *)
(* for any number of requests: deletions that count while another deletes, *)
(* delete_document in between, and threads that share _EMBED_CACHE.        *)
THEOREM IndexStaysConsistent == Spec => []IndexConsistent
  BY IndexInvHolds, IndexInvImplies, PTL

(* An entry's vector is that of its title and content, unless its last     *)
(* edit began from a text that another edit had replaced by then, however  *)
(* many edits there are at once.                                           *)
THEOREM VectorsFollowTexts == Spec => []VectorOfText
<1>1. IndexInv => VectorOfText
  BY DEF IndexInv
<1> QED
  BY <1>1, IndexInvHolds, PTL
=============================================================================
