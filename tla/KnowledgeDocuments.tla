------------------------- MODULE KnowledgeDocuments -------------------------
(***************************************************************************)
(* Help documents of one tenant: an admin uploads or pastes texts, each    *)
(* new one is stored as `processing` and, after the response, split,       *)
(* embedded and stored as sections by a background task; an admin deletes  *)
(* a document with its sections; a restart processes again what it finds   *)
(* unfinished.                                                             *)
(*                                                                         *)
(* A step is a SELECT, a statement whose effect other sessions may meet    *)
(* before the commit, or a COMMIT. The sections of one attempt are stored  *)
(* together (a batch); the unique (document_id, position) and the foreign  *)
(* key make the commit of a batch fail when another batch, or no document, *)
(* is there.                                                               *)
(***************************************************************************)
EXTENDS Naturals, Sequences, FiniteSets

CONSTANTS
  NumDocs,     (* rows for the documents: they are 1..NumDocs, by age      *)
  Content,     (* the extracted texts (content_hash tells them apart)      *)
  NoText,      (* what an absent row holds                                 *)
  Good,        (* the texts that have between 1 and MAX_SECTIONS sections  *)
  Admin,       (* admins, each with one upload request at a time           *)
  Worker,      (* slots for background work: the tasks of one response, or *)
               (* the resume task                                          *)
  MaxUploads,  (* bound on the upload requests                             *)
  MaxFiles,    (* bound on the files of one upload                         *)
  MaxDeletes,  (* bound on the deletions                                   *)
  MaxCrashes   (* bound on the times the API process stops                 *)

Doc == 1 .. NumDocs

ASSUME NumDocsAssumption == NumDocs \in Nat /\ NumDocs >= MaxUploads * MaxFiles
ASSUME TextAssumption == Good \subseteq Content /\ NoText \notin Content
ASSUME LimitsAssumption ==
  MaxUploads \in Nat /\ MaxFiles \in Nat /\ MaxDeletes \in Nat /\ MaxCrashes \in Nat

VARIABLES
  doc,     (* table kb_documents, with the batch of sections stored in     *)
           (* knowledge_base for it (0: none)                              *)
  req,     (* each admin's upload request                                  *)
  work,    (* the background work under way                                *)
  api,     (* "starting" until the resume task has read its list, "up", or *)
           (* "down"                                                       *)
  uploads, deletes, crashes

vars == <<doc, req, work, api, uploads, deletes, crashes>>

-----------------------------------------------------------------------------
Status == {"absent", "processing", "ready", "failed", "deleted"}

Stored == {"processing", "ready", "failed"}

DocRow == [status : Status, content : Content \cup {NoText}, batch : Nat]

NoRow == [status |-> "absent", content |-> NoText, batch |-> 0]

Exists(d) == doc[d].status \in Stored

(* files: still to be added; added: to be processed after the response.    *)
Request == [pc : {"idle", "check", "insert"}, files : Seq(Content), added : SUBSET Doc]

NoRequest == [pc |-> "idle", files |-> <<>>, added |-> {}]

(* next: about to load the oldest document of the queue; loaded: splitting *)
(* and embedding it, document `at`; replaced: the earlier sections are     *)
(* deleted in the open transaction, those of batch `gone`; failed,         *)
(* reloaded: in the handler. (Both kinds of task work by age: the files of *)
(* an upload are inserted one by one, the resume list is sorted.)          *)
(* seen: the status the session loaded; a commit writes another one only.  *)
WorkPC == {"free", "next", "loaded", "replaced", "failed", "reloaded"}

Work == [pc : WorkPC, queue : SUBSET Doc, at : 0 .. NumDocs, gone : Nat, seen : Status]

Waiting(next, docs) == [pc |-> next, queue |-> docs, at |-> 0, gone |-> 0, seen |-> "absent"]

NoWork == Waiting("free", {})

Queued(docs) == Waiting("next", docs)

TypeOK ==
  /\ doc \in [Doc -> DocRow]
  /\ req \in [Admin -> Request]
  /\ work \in [Worker -> Work]
  /\ api \in {"down", "starting", "up"}
  /\ uploads \in 0 .. MaxUploads
  /\ deletes \in 0 .. MaxDeletes
  /\ crashes \in 0 .. MaxCrashes
  /\ \A w \in Worker : work[w].pc \notin {"free", "next"} => work[w].at \in Doc
  /\ \A a \in Admin : req[a].pc = "insert" => req[a].files # <<>>

Init ==
  /\ doc = [d \in Doc |-> NoRow]
  /\ req = [a \in Admin |-> NoRequest]
  /\ work = [w \in Worker |-> NoWork]
  /\ api = "starting"
  /\ uploads = 0
  /\ deletes = 0
  /\ crashes = 0

-----------------------------------------------------------------------------
(* An upload: the files that can be read, one by one; a paste is one file. *)

Upload(a) ==
  /\ api # "down"
  /\ req[a].pc = "idle"
  /\ uploads < MaxUploads
  /\ uploads' = uploads + 1
  /\ \E n \in 1 .. MaxFiles : \E files \in [1 .. n -> Content] :
       req' = [req EXCEPT ![a] = [pc |-> "check", files |-> files, added |-> {}]]
  /\ UNCHANGED <<doc, work, api, deletes, crashes>>

(* The texts a new one is compared with.                                   *)
Known(c) == \E d \in Doc : Exists(d) /\ doc[d].content = c

(* add_document: a text that is already there is reported and left out.    *)
Check(a) ==
  /\ req[a].pc = "check"
  /\ req[a].files # <<>>
  /\ IF Known(Head(req[a].files))
       THEN req' = [req EXCEPT ![a].files = Tail(@)]
       ELSE req' = [req EXCEPT ![a].pc = "insert"]
  /\ UNCHANGED <<doc, work>>

Insert(a) ==
  /\ req[a].pc = "insert"
  /\ \E d \in Doc :
       /\ doc[d].status = "absent"
       /\ \A e \in 1 .. d - 1 : doc[e].status # "absent"
       /\ doc' = [doc EXCEPT ![d] = [status |-> "processing", batch |-> 0,
                                     content |-> Head(req[a].files)]]
       /\ req' = [req EXCEPT ![a] = [pc |-> "check", files |-> Tail(@.files),
                                     added |-> @.added \cup {d}]]
  /\ UNCHANGED work

(* The documents whose processing the response is followed by.             *)
MutantTasks(a) == {d \in Doc : doc[d].status = "processing"}

Tasks(a) == req[a].added

(* The response is out; its background tasks run one after the other.      *)
Respond(a) ==
  /\ req[a].pc = "check"
  /\ req[a].files = <<>>
  /\ \E w \in Worker :
       /\ work[w].pc = "free"
       /\ work' = [work EXCEPT ![w] = Queued(Tasks(a))]
  /\ req' = [req EXCEPT ![a] = NoRequest]
  /\ UNCHANGED doc

RequestStep(a) ==
  /\ api # "down"
  /\ Check(a) \/ Insert(a) \/ Respond(a)
  /\ UNCHANGED <<api, uploads, deletes, crashes>>

-----------------------------------------------------------------------------
(* process_document *)

Continue(w) == work' = [work EXCEPT ![w] = Queued(@.queue)]

GoTo(w, next) == work' = [work EXCEPT ![w].pc = next]

(* The oldest of the queue; one that is gone is left out.                  *)
Load(w) ==
  /\ work[w].pc = "next"
  /\ \E d \in work[w].queue :
       /\ \A e \in work[w].queue : d <= e
       /\ work' = [work EXCEPT ![w] =
            IF Exists(d)
              THEN [pc |-> "loaded", queue |-> @.queue \ {d}, at |-> d, gone |-> 0,
                    seen |-> doc[d].status]
              ELSE Queued(@.queue \ {d})]
  /\ UNCHANGED doc

EndOfWork(w) ==
  /\ work[w].pc = "next"
  /\ work[w].queue = {}
  /\ work' = [work EXCEPT ![w] = NoWork]
  /\ UNCHANGED doc

(* The sections are split and embedded: the DELETE of the sections of an   *)
(* earlier attempt, seen by others at the commit.                          *)
MutantReplace(w) ==
  LET d == work[w].at
  IN  /\ work[w].pc = "loaded"
      /\ doc[d].content \in Good
      /\ doc' = [doc EXCEPT ![d].batch = 0]
      /\ work' = [work EXCEPT ![w].pc = "replaced", ![w].gone = 0]

Replace(w) ==
  LET d == work[w].at
  IN  /\ work[w].pc = "loaded"
      /\ doc[d].content \in Good
      /\ work' = [work EXCEPT ![w].pc = "replaced", ![w].gone = doc[d].batch]
      /\ UNCHANGED doc

(* Too few or too many sections, or an error of the model.                 *)
ProcessingFails(w) ==
  /\ work[w].pc = "loaded"
  /\ GoTo(w, "failed")
  /\ UNCHANGED doc

Column(stored, loaded, value) == IF value = loaded THEN stored ELSE value

MutantStorable(d, gone) == doc[d].batch \in {0, gone}

Storable(d, gone) == Exists(d) /\ doc[d].batch \in {0, gone}

(* The INSERTs and the commit.                                             *)
Store(w) ==
  LET d == work[w].at
  IN  /\ work[w].pc = "replaced"
      /\ IF Storable(d, work[w].gone)
           THEN /\ doc' = [doc EXCEPT ![d] =
                             [status |-> Column(@.status, work[w].seen, "ready"),
                              content |-> @.content, batch |-> @.batch + 1]]
                /\ Continue(w)
           ELSE GoTo(w, "failed") /\ UNCHANGED doc

Reload(w) ==
  /\ work[w].pc = "failed"
  /\ IF Exists(work[w].at)
       THEN work' = [work EXCEPT ![w].pc = "reloaded", ![w].seen = doc[work[w].at].status]
       ELSE Continue(w)
  /\ UNCHANGED doc

MutantMarkFailed(w) ==
  /\ work[w].pc = "reloaded"
  /\ Continue(w)
  /\ UNCHANGED doc

(* An UPDATE that finds no row raises out of the handler: the tasks queued *)
(* behind this one, or the rest of the resume list, are not run. (Nothing  *)
(* is updated if the document had failed already, with the same error.)    *)
MarkFailed(w) ==
  LET d == work[w].at
  IN  /\ work[w].pc = "reloaded"
      /\ \/ /\ Exists(d)
            /\ doc' = [doc EXCEPT ![d].status = Column(@, work[w].seen, "failed")]
            /\ Continue(w)
         \/ /\ ~Exists(d)
            /\ work' = [work EXCEPT ![w] = NoWork]
            /\ UNCHANGED doc
         \/ /\ ~Exists(d) /\ work[w].seen = "failed"
            /\ Continue(w)
            /\ UNCHANGED doc

WorkStep(w) ==
  /\ Load(w) \/ EndOfWork(w) \/ Replace(w) \/ ProcessingFails(w) \/ Store(w)
     \/ Reload(w) \/ MarkFailed(w)
  /\ UNCHANGED <<req, api, uploads, deletes, crashes>>

-----------------------------------------------------------------------------
(* DELETE /documents/{id}: the sections go with the row.                   *)
DeleteDocument ==
  /\ api # "down"
  /\ deletes < MaxDeletes
  /\ deletes' = deletes + 1
  /\ \E d \in Doc :
       /\ Exists(d)
       /\ doc' = [doc EXCEPT ![d].status = "deleted", ![d].batch = 0]
  /\ UNCHANGED <<req, work, api, uploads, crashes>>

Crash ==
  /\ api # "down"
  /\ crashes < MaxCrashes
  /\ crashes' = crashes + 1
  /\ api' = "down"
  /\ req' = [a \in Admin |-> NoRequest]
  /\ work' = [w \in Worker |-> NoWork]
  /\ UNCHANGED <<doc, uploads, deletes>>

Start ==
  /\ api = "down"
  /\ api' = "starting"
  /\ UNCHANGED <<doc, req, work, uploads, deletes, crashes>>

(* unfinished_kb_documents()                                               *)
Leftover == {"processing"}

(* The resume task's SELECT; requests are served already.                  *)
ResumeSelect ==
  /\ api = "starting"
  /\ api' = "up"
  /\ \E w \in Worker :
       /\ work[w].pc = "free"
       /\ work' = [work EXCEPT ![w] = Queued({d \in Doc : doc[d].status \in Leftover})]
  /\ UNCHANGED <<doc, req, uploads, deletes, crashes>>

Next ==
  \/ \E a \in Admin : Upload(a) \/ RequestStep(a)
  \/ \E w \in Worker : WorkStep(w)
  \/ DeleteDocument
  \/ Crash \/ Start \/ ResumeSelect

Spec == Init /\ [][Next]_vars

(* No upload reaches the API before the resume task has read its list.     *)
Quiet == api = "starting" => UNCHANGED req

QuietSpec == Init /\ [][Next /\ Quiet]_vars

(* The event loop runs what it has started and the container is restarted; *)
(* admins are free.                                                        *)
Fairness ==
  /\ \A w \in Worker : WF_vars(WorkStep(w))
  /\ \A a \in Admin : WF_vars(RequestStep(a) /\ Quiet)
  /\ WF_vars(Start) /\ WF_vars(ResumeSelect)

FairQuietSpec == QuietSpec /\ Fairness

-----------------------------------------------------------------------------
(* Properties *)

(* A document shown as ready has its sections in the knowledge base, also  *)
(* while two attempts replace each other's.                                *)
ReadyIsIndexed == \A d \in Doc : doc[d].status = "ready" => doc[d].batch # 0

(* Once a document is deleted none of its sections is ever found again: an *)
(* attempt that was embedding it stores nothing.                           *)
DeletedIsGone == \A d \in Doc : ~Exists(d) => doc[d].batch = 0

Holds(w, d) == d \in work[w].queue \cup {work[w].at}

Asked(a, d) == d \in req[a].added

(* Each document is processed by one task at a time, and asked for once.   *)
OneAttempt ==
  \A d \in Doc :
    /\ \A v, w \in Worker : Holds(v, d) /\ Holds(w, d) => v = w
    /\ \A a \in Admin, w \in Worker : ~(Asked(a, d) /\ Holds(w, d))

(* A failed document has no sections that drafts could quote.              *)
FailedIsNotIndexed == \A d \in Doc : doc[d].status = "failed" => doc[d].batch = 0

(* The same text is never stored twice ("the same document can't be added  *)
(* twice").                                                                *)
NoDuplicates ==
  \A d, e \in Doc : Exists(d) /\ Exists(e) /\ doc[d].content = doc[e].content => d = e

(* However many tasks and restarts there are, a document is processed      *)
(* once, a text stored once, and a failure leaves nothing to be found.     *)
ProcessedOnce == OneAttempt /\ FailedIsNotIndexed /\ NoDuplicates

(* A document that is ready or failed stays so until it is deleted:        *)
(* restarts and late tasks do not take it back.                            *)
SettledForGood ==
  [][\A d \in Doc : doc[d].status \in {"ready", "failed"} =>
                      doc'[d].status \in {doc[d].status, "deleted"}]_vars

(* process_document: "the document ends `ready` or `failed`".              *)
Ends ==
  \A d \in Doc : doc[d].status = "processing" ~> doc[d].status \in {"ready", "failed", "deleted"}

(* It comes to an end, and that is the end of it.                          *)
Settles == Ends /\ SettledForGood
=============================================================================
