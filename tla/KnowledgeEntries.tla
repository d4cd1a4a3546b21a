-------------------------- MODULE KnowledgeEntries --------------------------
(***************************************************************************)
(* The sections of a processed help document and the entries added one by  *)
(* one: what admins do to them at the same time, and the cache of          *)
(* embeddings that the threads of the API share.                           *)
(*                                                                         *)
(* One tenant and one document. A text is a title with a content, or the   *)
(* query of a search; the vector of a text is the text. A request is one   *)
(* call of the API, or of the code in it that embeds.                      *)
(***************************************************************************)
EXTENDS Naturals, FiniteSets

CONSTANTS
  Section,       (* the entries that are sections of the document          *)
  Single,        (* entries that may be added one by one                   *)
  Title, Content,
  Query,         (* texts of searches                                      *)
  Request,
  CacheMax,      (* _EMBED_CACHE_MAX                                       *)
  Batch          (* bound on the texts of one call                         *)

Entry == Section \cup Single
Text == Title \X Content
Key == Text \cup Query

ASSUME EntryAssumption == Section \cap Single = {} /\ IsFiniteSet(Section) /\ Entry # {}
ASSUME TextAssumption == Text # {}
ASSUME RequestAssumption == IsFiniteSet(Request) /\ Request # {}
ASSUME CacheAssumption == CacheMax \in Nat /\ Batch \in 1 .. CacheMax /\ IsFiniteSet(Key)

VARIABLES
  row,        (* the rows of knowledge_base, by entry                      *)
  document,   (* the row of the document                                   *)
  cache,      (* the texts in _EMBED_CACHE                                 *)
  request

vars == <<row, document, cache, request>>

-----------------------------------------------------------------------------
(* overtaken: its last edit began from another text than the row had when  *)
(* it was stored (a record of the model's own, like crossed).              *)
Row == [text : Text, vector : Text, overtaken : BOOLEAN]

(* crossed: its count was stored after another deletion had committed.     *)
DocumentRow == [there : BOOLEAN, count : Nat, crossed : BOOLEAN]

Kind == {"create", "update", "search", "batch", "delete", "drop"}

(* embed, encode, stack: before the lookup in the cache, the model, and    *)
(* the reading of the cache. store: the vectors are there. flush, count,   *)
(* commit: before these statements of a deletion; lock, cascade: of the    *)
(* document's. keyerror: a vector was not in the cache.                    *)
RequestState ==
  [pc : {"idle", "embed", "encode", "stack", "store", "flush", "count", "commit", "lock", "cascade",
         "ok", "notfound", "keyerror", "failed"},
   kind : Kind, entry : Entry, loaded : Text, text : Text,
   keys : SUBSET Key, missing : SUBSET Key,
   old : Nat, count : Nat, crossed : BOOLEAN]

Ended == {"ok", "notfound", "keyerror", "failed"}

TypeOK ==
  /\ DOMAIN row \subseteq Entry /\ \A e \in DOMAIN row : row[e] \in Row
  /\ document \in DocumentRow
  /\ cache \subseteq Key
  /\ request \in [Request -> RequestState]
  /\ DOMAIN row \cap Section # {} => document.there

SomeText == CHOOSE t \in Text : TRUE

Fresh(pc, kind, e) ==
  [pc |-> pc, kind |-> kind, entry |-> e, loaded |-> SomeText, text |-> SomeText,
   keys |-> {}, missing |-> {}, old |-> 0, count |-> 0, crossed |-> FALSE]

(* The document was processed; the cache is as earlier calls left it.      *)
Init ==
  /\ row = [e \in Section |-> [text |-> SomeText, vector |-> SomeText, overtaken |-> FALSE]]
  /\ document = [there |-> TRUE, count |-> Cardinality(Section), crossed |-> FALSE]
  /\ cache \in {c \in SUBSET Key : Cardinality(c) <= CacheMax}
  /\ request = [r \in Request |-> Fresh("idle", "search", CHOOSE e \in Entry : TRUE)]

End(r, outcome) == request' = [request EXCEPT ![r] = Fresh(outcome, request[r].kind, request[r].entry)]

-----------------------------------------------------------------------------
(* Requests that embed *)

Embedding(kind, e, keys) == [Fresh("embed", kind, e) EXCEPT !.keys = keys]

Create(r, e, t) ==
  /\ request[r].pc = "idle" /\ e \in Single \ DOMAIN row
  /\ \A o \in Request : request[o].kind = "create" => request[o].entry # e
  /\ request' = [request EXCEPT ![r] = [Embedding("create", e, {t}) EXCEPT !.text = t]]
  /\ UNCHANGED <<row, document, cache>>

(* update_entry loads the row, and keeps it while a thread embeds.         *)
Update(r, e, t) ==
  /\ request[r].pc = "idle"
  /\ request' = [request EXCEPT ![r] =
       IF e \in DOMAIN row THEN [Embedding("update", e, {t}) EXCEPT !.loaded = row[e].text, !.text = t]
       ELSE Fresh("notfound", "update", e)]
  /\ UNCHANGED <<row, document, cache>>

(* A search embeds its query; the sections of a new document are embedded  *)
(* in one call (they are stored by KnowledgeDocuments).                    *)
EmbedOnly(r) ==
  /\ request[r].pc = "idle"
  /\ \/ \E q \in Query : request' = [request EXCEPT ![r] = Embedding("search", @.entry, {q})]
     \/ \E keys \in SUBSET Text :
          /\ Cardinality(keys) \in 1 .. Batch
          /\ request' = [request EXCEPT ![r] = Embedding("batch", @.entry, keys)]
  /\ UNCHANGED <<row, document, cache>>

(* embed(): what is missing; the cache is cleared when full.               *)
Check(r) ==
  LET missing == request[r].keys \ cache
      full == Cardinality(cache) + Cardinality(missing) > CacheMax
  IN  /\ request[r].pc = "embed"
      /\ request' = [request EXCEPT ![r].pc = IF missing = {} THEN "stack" ELSE "encode",
                                    ![r].missing = missing]
      /\ cache' = IF missing # {} /\ full THEN {} ELSE cache
      /\ UNCHANGED <<row, document>>

(* The model, then the vectors of what was missing.                        *)
Encode(r) ==
  /\ request[r].pc = "encode"
  /\ cache' = cache \cup request[r].missing
  /\ request' = [request EXCEPT ![r].pc = "stack", ![r].missing = {}]
  /\ UNCHANGED <<row, document>>

MutantStack(r) ==
  /\ request[r].pc = "stack"
  /\ request' = [request EXCEPT ![r].pc =
       CASE request[r].keys \subseteq cache /\ request[r].kind \in {"create", "update"} -> "store"
         [] request[r].keys \subseteq cache /\ request[r].kind \in {"search", "batch"}  -> "ok"
         [] OTHER -> "embed"]
  /\ UNCHANGED <<row, document, cache>>

(* The rows of the result are taken from the cache.                        *)
Stack(r) ==
  /\ request[r].pc = "stack"
  /\ IF ~(request[r].keys \subseteq cache) THEN End(r, "keyerror")
     ELSE IF request[r].kind \in {"search", "batch"} THEN End(r, "ok")
     ELSE request' = [request EXCEPT ![r].pc = "store", ![r].keys = {}]
  /\ UNCHANGED <<row, document, cache>>

(* A section that a deletion has removed and not yet committed: whoever    *)
(* writes it waits.                                                        *)
Held(e) == \E r \in Request : /\ request[r].kind = "delete" /\ request[r].entry = e
                              /\ request[r].pc \in {"count", "commit"}

StoreNew(r) ==
  LET t == request[r].text IN
    /\ request[r].pc = "store" /\ request[r].kind = "create"
    /\ row' = [e \in DOMAIN row \cup {request[r].entry} |->
                 IF e = request[r].entry THEN [text |-> t, vector |-> t, overtaken |-> FALSE] ELSE row[e]]
    /\ End(r, "ok")
    /\ UNCHANGED <<document, cache>>

(* The UPDATE has the columns that differ from what was loaded.            *)
Merged(old, loaded, new) ==
  <<IF new[1] = loaded[1] THEN old[1] ELSE new[1], IF new[2] = loaded[2] THEN old[2] ELSE new[2]>>

MutantVector(t, loaded) == IF t[2] = loaded[2] THEN loaded ELSE t

(* The vector always counts as changed.                                    *)
Vector(t, loaded) == t

(* An entry that is gone by now is an error (StaleDataError).              *)
StoreEdit(r) ==
  LET q == request[r]
      e == q.entry
  IN  /\ q.pc = "store" /\ q.kind = "update" /\ ~Held(e)
      /\ IF e \in DOMAIN row
           THEN /\ row' = [row EXCEPT ![e] = [text |-> Merged(row[e].text, q.loaded, q.text),
                                              vector |-> Vector(q.text, q.loaded),
                                              overtaken |-> row[e].text # q.loaded]]
                /\ End(r, "ok")
           ELSE End(r, "failed") /\ UNCHANGED row
      /\ UNCHANGED <<document, cache>>

-----------------------------------------------------------------------------
(* Deletions *)

Delete(r, e) ==
  /\ request[r].pc = "idle"
  /\ request' = [request EXCEPT ![r] = Fresh(IF e \in DOMAIN row THEN "flush" ELSE "notfound", "delete", e)]
  /\ UNCHANGED <<row, document, cache>>

(* The DELETE; another's may have come first.                              *)
Flush(r) ==
  /\ request[r].pc = "flush" /\ ~Held(request[r].entry)
  /\ request' = [request EXCEPT ![r].pc = IF request[r].entry \in Section THEN "count" ELSE "commit"]
  /\ UNCHANGED <<row, document, cache>>

Sections == DOMAIN row \cap Section

MutantCount(r) ==
  /\ request[r].pc = "count"
  /\ request' = [request EXCEPT ![r].pc = "commit", ![r].old = document.count, ![r].count = Cardinality(Sections)]
  /\ UNCHANGED <<row, document, cache>>

(* refresh_section_count: the document, if it is there, and the sections   *)
(* this transaction sees.                                                  *)
Count(r) ==
  LET seen == Cardinality(Sections \ {request[r].entry}) IN
    /\ request[r].pc = "count"
    /\ request' = [request EXCEPT ![r].pc = "commit", ![r].old = document.count,
                                  ![r].count = IF document.there THEN seen ELSE document.count]
    /\ UNCHANGED <<row, document, cache>>

Recounts(r) == request[r].entry \in Section /\ request[r].count # request[r].old

Locked == \E r \in Request : request[r].pc = "cascade"

(* The UPDATE of the count, if it changed, and the COMMIT.                 *)
Commit(r) ==
  LET e == request[r].entry IN
    /\ request[r].pc = "commit" /\ (Recounts(r) => ~Locked)
    /\ IF Recounts(r) /\ ~document.there
         THEN End(r, "failed") /\ UNCHANGED <<row, document>>
         ELSE /\ row' = [x \in DOMAIN row \ {e} |-> row[x]]
              /\ document' = IF Recounts(r)
                             THEN [document EXCEPT !.count = request[r].count, !.crossed = request[r].crossed]
                             ELSE document
              /\ request' = [o \in Request |->
                   IF o = r THEN Fresh("ok", "delete", e)
                   ELSE IF request[o].kind = "delete" /\ request[o].pc = "commit"
                     THEN [request[o] EXCEPT !.crossed = TRUE]
                     ELSE request[o]]
    /\ UNCHANGED cache

(* delete_document: the row of the document, which it locks,               *)
Drop(r) ==
  /\ request[r].pc = "idle"
  /\ request' = [request EXCEPT ![r] = Fresh(IF document.there THEN "lock" ELSE "notfound", "drop", @.entry)]
  /\ UNCHANGED <<row, document, cache>>

Lock(r) ==
  /\ request[r].pc = "lock" /\ ~Locked
  /\ request' = [request EXCEPT ![r].pc = "cascade"]
  /\ UNCHANGED <<row, document, cache>>

(* then its sections (ON DELETE CASCADE), and the COMMIT.                  *)
Cascade(r) ==
  /\ request[r].pc = "cascade" /\ \A e \in Sections : ~Held(e)
  /\ row' = [e \in DOMAIN row \ Section |-> row[e]]
  /\ document' = [document EXCEPT !.there = FALSE]
  /\ End(r, "ok")
  /\ UNCHANGED cache

(* Each waits for the other: the database undoes one of them.              *)
BreakDeadlock ==
  \E r, d \in Request :
    /\ request[r].pc = "cascade" /\ request[d].pc = "commit" /\ Recounts(d) /\ request[d].entry \in Sections
    /\ End(r, "failed") \/ End(d, "failed")
    /\ UNCHANGED <<row, document, cache>>

-----------------------------------------------------------------------------
Send(r) ==
  \/ \E e \in Entry, t \in Text : Create(r, e, t) \/ Update(r, e, t)
  \/ \E e \in Entry : Delete(r, e)
  \/ EmbedOnly(r) \/ Drop(r)

Step(r) ==
  \/ Check(r) \/ Encode(r) \/ Stack(r) \/ StoreNew(r) \/ StoreEdit(r)
  \/ Flush(r) \/ Count(r) \/ Commit(r) \/ Lock(r) \/ Cascade(r)

Next == (\E r \in Request : Send(r) \/ Step(r)) \/ BreakDeadlock

(* Statements return, threads run on, and the database breaks deadlocks.   *)
Fairness == (\A r \in Request : WF_vars(Step(r))) /\ WF_vars(BreakDeadlock)

Spec == Init /\ [][Next]_vars /\ Fairness

-----------------------------------------------------------------------------
(* Properties *)

(* What search compares with a ticket is the text it then shows: an        *)
(* entry's vector is that of its title and content, unless its last edit   *)
(* began from a text that another edit had replaced by then.               *)
VectorOfText == \A e \in DOMAIN row : row[e].overtaken \/ row[e].vector = row[e].text

(* The document shows how many sections it has, unless it was counted      *)
(* before another deletion committed, and stored after.                    *)
CountIsExact == document.there => document.crossed \/ document.count = Cardinality(Sections)

(* "cleared when full": whatever the threads do at once, the cache is at   *)
(* most what the other threads add beyond its limit.                       *)
CacheStaysSmall == Cardinality(cache) <= CacheMax + Batch * (Cardinality(Request) - 1)

(* The rows and the cache, whatever requests and threads did at once.      *)
IndexConsistent == TypeOK /\ CountIsExact /\ CacheStaysSmall

(* Every request is answered, whoever holds the rows it needs.             *)
RequestsAnswered == \A r \in Request : request[r].pc # "idle" ~> request[r].pc \in Ended

(* "Unit-length sentence embeddings, one row per text": embed() returns    *)
(* them, whatever its cache held, and whatever is embedded beside it.      *)
EmbedsEveryText == \A r \in Request : request[r].pc # "keyerror"
=============================================================================
