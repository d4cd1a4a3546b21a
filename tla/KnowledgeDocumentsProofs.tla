---------------------- MODULE KnowledgeDocumentsProofs ----------------------
(***************************************************************************)
(* Proofs about KnowledgeDocuments, for every number of documents, admins, *)
(* background tasks, uploads, deletions and crashes: first whatever the    *)
(* admins do, then where no upload precedes the resume task's list.        *)
(***************************************************************************)
EXTENDS KnowledgeDocuments, FiniteSetTheorems, TLAPS

(* The two sides of "the sections belong to a document", with the type of  *)
(* the rows: together they are inductive.                                  *)
Rows == doc \in [Doc -> DocRow]

SectionsInv == Rows /\ ReadyIsIndexed /\ DeletedIsGone

(* A commit leaves a column or writes it.                                  *)
LEMMA ColumnRange ==
  ASSUME NEW stored, NEW loaded, NEW value
  PROVE  Column(stored, loaded, value) \in {stored, value}
  BY DEF Column

(* Only a commit of the processing task, a handler's, an insert or a       *)
(* deletion writes rows: each is one row that keeps both sides.            *)
OneRow(d, row) ==
  /\ row \in DocRow
  /\ row.status = "ready" => row.batch # 0
  /\ row.status \notin Stored => row.batch = 0
  /\ doc' = [doc EXCEPT ![d] = row]

LEMMA OneRowKeeps ==
  ASSUME SectionsInv, NEW d \in Doc, NEW row, OneRow(d, row)
  PROVE  SectionsInv'
<1>1. Rows'
  BY DEF SectionsInv, Rows, OneRow
<1>2. \A e \in Doc : doc'[e] = IF e = d THEN row ELSE doc[e]
  BY DEF SectionsInv, Rows, OneRow
<1>3. ReadyIsIndexed'
  BY <1>2 DEF SectionsInv, ReadyIsIndexed, OneRow
<1>4. DeletedIsGone'
  BY <1>2 DEF SectionsInv, DeletedIsGone, Exists, OneRow
<1> QED BY <1>1, <1>3, <1>4 DEF SectionsInv

LEMMA InsertKeeps ==
  ASSUME SectionsInv, NEW a \in Admin, Insert(a), req[a].files # <<>>,
         req[a].files \in Seq(Content)
  PROVE  SectionsInv'
<1>1. PICK d \in Doc : doc' = [doc EXCEPT ![d] = [status |-> "processing", batch |-> 0,
                                               content |-> Head(req[a].files)]]
  BY DEF Insert
<1>2. Head(req[a].files) \in Content
  OBVIOUS
<1> DEFINE row == [status |-> "processing", batch |-> 0, content |-> Head(req[a].files)]
<1>3. row \in DocRow /\ row.status = "processing"
  BY <1>2 DEF DocRow, Status
<1>4. OneRow(d, row)
  BY <1>1, <1>3 DEF OneRow, Stored
<1> QED BY <1>4, OneRowKeeps

(* The commit of the sections: the document still exists, and the batch it *)
(* stores is not the empty one.                                            *)
LEMMA StoreKeeps ==
  ASSUME SectionsInv, NEW w \in Worker, Store(w), work[w].at \in Doc
  PROVE  SectionsInv'
<1> DEFINE d == work[w].at
<1>1. CASE Storable(d, work[w].gone)
  <2> DEFINE status == Column(doc[d].status, work[w].seen, "ready")
             row == [status |-> status, content |-> doc[d].content, batch |-> doc[d].batch + 1]
  <2>1. doc[d] \in DocRow /\ doc[d].status \in Stored
    BY <1>1 DEF SectionsInv, Rows, Storable, Exists
  <2>2. status \in Stored /\ Stored \subseteq Status
    BY <2>1, ColumnRange DEF Stored, Status
  <2>3. doc' = [doc EXCEPT ![d] = row]
    BY <1>1, <2>1 DEF Store, SectionsInv, Rows
  <2>5. row \in DocRow /\ row.status \in Stored /\ row.batch # 0
    <3> HIDE DEF status
    <3>1. doc[d].batch \in Nat /\ doc[d].content \in Content \cup {NoText}
      BY <2>1 DEF DocRow
    <3>2. doc[d].batch + 1 \in Nat /\ doc[d].batch + 1 # 0
      BY <3>1
    <3> QED BY <3>1, <3>2, <2>2 DEF DocRow
  <2>4. OneRow(d, row)
    BY <2>3, <2>5 DEF OneRow
  <2> QED BY <2>4, OneRowKeeps
<1>2. CASE ~Storable(d, work[w].gone)
  BY <1>2 DEF Store, SectionsInv, Rows, ReadyIsIndexed, DeletedIsGone, Exists
<1> QED BY <1>1, <1>2

(* The handler's commit: it leaves the status or writes `failed`, over a   *)
(* row that is there.                                                      *)
LEMMA MarkFailedKeeps ==
  ASSUME SectionsInv, NEW w \in Worker, MarkFailed(w), work[w].at \in Doc
  PROVE  SectionsInv'
<1> DEFINE d == work[w].at
<1>1. CASE Exists(d) /\ doc' = [doc EXCEPT ![d].status = Column(@, work[w].seen, "failed")]
  <2> DEFINE row == [doc[d] EXCEPT !.status = Column(@, work[w].seen, "failed")]
  <2>1. doc[d] \in DocRow /\ doc[d].status \in Stored
        /\ (doc[d].status = "ready" => doc[d].batch # 0)
    BY <1>1 DEF SectionsInv, Rows, Exists, ReadyIsIndexed
  <2>2. row.status \in {doc[d].status, "failed"} /\ row.batch = doc[d].batch
        /\ row \in DocRow
    BY <2>1 DEF DocRow, Column, Stored, Status
  <2>3. row.status \in Stored
    BY <2>1, <2>2 DEF Stored
  <2>4. OneRow(d, row)
    BY <1>1, <2>1, <2>2, <2>3 DEF OneRow
  <2> QED BY <2>4, OneRowKeeps
<1>2. CASE UNCHANGED doc
  BY <1>2 DEF SectionsInv, Rows, ReadyIsIndexed, DeletedIsGone, Exists
<1> QED BY <1>1, <1>2 DEF MarkFailed

LEMMA DeleteKeeps ==
  ASSUME SectionsInv, DeleteDocument
  PROVE  SectionsInv'
<1>1. PICK d \in Doc : doc' = [doc EXCEPT ![d].status = "deleted", ![d].batch = 0]
  BY DEF DeleteDocument
<1> DEFINE row == [doc[d] EXCEPT !.status = "deleted", !.batch = 0]
<1>2. doc[d] \in DocRow
  BY DEF SectionsInv, Rows
<1>3. row \in DocRow /\ row.status = "deleted" /\ row.batch = 0
  BY <1>2 DEF DocRow, Status
<1>4. OneRow(d, row)
  BY <1>1, <1>2, <1>3 DEF OneRow
<1> QED BY <1>4, OneRowKeeps

-----------------------------------------------------------------------------
(* Type correctness: what the sections need of it is that a task is about  *)
(* a document.                                                             *)
Requests ==
  /\ req \in [Admin -> Request]
  /\ \A a \in Admin : req[a].pc = "insert" => req[a].files # <<>>

Workers ==
  /\ work \in [Worker -> Work]
  /\ \A w \in Worker : work[w].pc \notin {"free", "next"} => work[w].at \in Doc

Counters ==
  /\ api \in {"down", "starting", "up"}
  /\ uploads \in 0 .. MaxUploads
  /\ deletes \in 0 .. MaxDeletes
  /\ crashes \in 0 .. MaxCrashes

IInv == SectionsInv /\ Requests /\ Workers /\ Counters

(* One request or task changes at a time.                                  *)
LEMMA RequestType ==
  ASSUME Requests, NEW a \in Admin, NEW r \in Request, r.pc = "insert" => r.files # <<>>,
         req' = [req EXCEPT ![a] = r]
  PROVE  Requests'
  BY DEF Requests

LEMMA TaskType ==
  ASSUME Workers, NEW w \in Worker, NEW t \in Work,
         t.pc \notin {"free", "next"} => t.at \in Doc,
         work' = [work EXCEPT ![w] = t]
  PROVE  Workers'
  BY DEF Workers

LEMMA DocRange == Doc \subseteq 0 .. NumDocs /\ 0 \in 0 .. NumDocs
<1>1. NumDocs \in Nat
  BY NumDocsAssumption
<1> QED BY <1>1 DEF Doc

LEMMA WaitingType ==
  ASSUME NEW docs \in SUBSET Doc, NEW next \in {"free", "next"}
  PROVE  Waiting(next, docs) \in Work /\ Waiting(next, docs).pc = next
<1>1. 0 \in 0 .. NumDocs
  BY DocRange
<1>2. next \in WorkPC /\ "absent" \in Status
  BY DEF WorkPC, Status
<1> QED BY <1>1, <1>2 DEF Waiting, Work

LEMMA QueueType ==
  ASSUME NEW docs \in SUBSET Doc
  PROVE  Queued(docs) \in Work /\ Queued(docs).pc = "next"
  BY WaitingType DEF Queued

LEMMA NoWorkType == NoWork \in Work /\ NoWork.pc = "free"
  BY WaitingType DEF NoWork

LEMMA NoRequestType == NoRequest \in Request /\ NoRequest.pc = "idle"
  BY DEF NoRequest, Request

LEMMA ContinueType ==
  ASSUME Workers, NEW w \in Worker, Continue(w)
  PROVE  Workers'
<1>1. work[w].queue \in SUBSET Doc
  BY DEF Workers, Work
<1>2. Queued(work[w].queue) \in Work /\ Queued(work[w].queue).pc = "next"
  BY <1>1, QueueType
<1>3. work' = [work EXCEPT ![w] = Queued(work[w].queue)]
  BY DEF Continue, Workers
<1> QED BY <1>2, <1>3, TaskType

LEMMA GoToType ==
  ASSUME Workers, NEW w \in Worker, NEW next \in WorkPC, work[w].at \in Doc, GoTo(w, next)
  PROVE  Workers'
<1> DEFINE t == [work[w] EXCEPT !.pc = next]
<1>1. t \in Work /\ t.at \in Doc
  BY DEF Workers, Work
<1>2. work' = [work EXCEPT ![w] = t]
  BY DEF GoTo, Workers, Work
<1> QED BY <1>1, <1>2, TaskType

-----------------------------------------------------------------------------
(* One lemma per kind of step. *)

LEMMA UploadType ==
  ASSUME IInv, NEW a \in Admin, Upload(a)
  PROVE  IInv'
<1>1. PICK n \in 1 .. MaxFiles : \E files \in [1 .. n -> Content] :
        req' = [req EXCEPT ![a] = [pc |-> "check", files |-> files, added |-> {}]]
  BY DEF Upload
<1>2. PICK files \in [1 .. n -> Content] :
        req' = [req EXCEPT ![a] = [pc |-> "check", files |-> files, added |-> {}]]
  BY <1>1
<1>8. n \in Nat /\ files \in Seq(Content)
  BY LimitsAssumption
<1> DEFINE r == [pc |-> "check", files |-> files, added |-> {}]
<1>3. req' = [req EXCEPT ![a] = r]
  BY <1>2
<1>4. r \in Request /\ r.pc = "check"
  BY <1>8 DEF Request
<1>5. Requests'
  <2> HIDE DEF r
  <2> QED BY <1>3, <1>4, RequestType DEF IInv
<1>6. SectionsInv'
  BY DEF IInv, Upload, SectionsInv, Rows, ReadyIsIndexed, DeletedIsGone, Exists
<1>7. Workers' /\ Counters'
  BY LimitsAssumption DEF IInv, Upload, Workers, Counters
<1> QED BY <1>5, <1>6, <1>7 DEF IInv

LEMMA CheckType ==
  ASSUME Requests, NEW a \in Admin, Check(a)
  PROVE  Requests'
<1>1. req[a] \in Request /\ req[a].files # <<>>
  BY DEF Requests, Check
<1>2. CASE req' = [req EXCEPT ![a].files = Tail(@)]
  <2> DEFINE r == [req[a] EXCEPT !.files = Tail(@)]
  <2>1. Tail(req[a].files) \in Seq(Content)
    BY <1>1 DEF Request
  <2>2. r \in Request /\ r.pc = "check"
    BY <1>1, <2>1 DEF Request, Check
  <2>3. req' = [req EXCEPT ![a] = r]
    BY <1>1, <1>2 DEF Request
  <2> HIDE DEF r
  <2> QED BY <2>2, <2>3, RequestType
<1>3. CASE req' = [req EXCEPT ![a].pc = "insert"]
  <2> DEFINE r == [req[a] EXCEPT !.pc = "insert"]
  <2>1. r \in Request /\ r.files # <<>>
    BY <1>1 DEF Request
  <2>2. req' = [req EXCEPT ![a] = r]
    BY <1>1, <1>3 DEF Request
  <2> HIDE DEF r
  <2> QED BY <2>1, <2>2, RequestType
<1> QED BY <1>2, <1>3 DEF Check

LEMMA InsertType ==
  ASSUME Requests, NEW a \in Admin, Insert(a)
  PROVE  Requests'
<1>1. PICK d \in Doc : req' = [req EXCEPT ![a] =
                          [pc |-> "check", files |-> Tail(@.files), added |-> @.added \cup {d}]]
  BY DEF Insert
<1>2. req[a] \in Request /\ req[a].files # <<>>
  BY DEF Requests, Insert
<1> DEFINE r == [pc |-> "check", files |-> Tail(req[a].files), added |-> req[a].added \cup {d}]
<1>3. req' = [req EXCEPT ![a] = r]
  BY <1>1, <1>2 DEF Requests
<1>4. Tail(req[a].files) \in Seq(Content) /\ req[a].added \cup {d} \in SUBSET Doc
  BY <1>2 DEF Request
<1>5. r \in Request /\ r.pc = "check"
  BY <1>4 DEF Request
<1> HIDE DEF r
<1> QED BY <1>3, <1>5, RequestType

LEMMA RespondType ==
  ASSUME Requests, Workers, NEW a \in Admin, Respond(a)
  PROVE  Requests' /\ Workers'
<1>1. PICK w \in Worker : work' = [work EXCEPT ![w] = Queued(Tasks(a))]
  BY DEF Respond
<1>2. Tasks(a) \in SUBSET Doc
  BY DEF Tasks, Requests, Request
<1>3. Workers'
  BY <1>1, <1>2, QueueType, TaskType
<1>4. Requests'
  BY NoRequestType, RequestType DEF Respond
<1> QED BY <1>3, <1>4

LEMMA RequestStepType ==
  ASSUME IInv, NEW a \in Admin, RequestStep(a)
  PROVE  IInv'
<1>1. Counters'
  BY DEF IInv, RequestStep, Counters
<1>2. CASE Check(a)
  BY <1>1, <1>2, CheckType
     DEF IInv, Check, Workers, SectionsInv, Rows, ReadyIsIndexed, DeletedIsGone, Exists
<1>3. CASE Insert(a)
  <2>1. req[a] \in Request /\ req[a].files # <<>> /\ req[a].files \in Seq(Content)
    BY <1>3 DEF IInv, Requests, Insert, Request
  <2>2. SectionsInv'
    BY <1>3, <2>1, InsertKeeps DEF IInv
  <2>3. Workers'
    BY <1>3 DEF IInv, Insert, Workers
  <2> QED BY <1>1, <1>3, <2>2, <2>3, InsertType DEF IInv
<1>4. CASE Respond(a)
  BY <1>1, <1>4, RespondType
     DEF IInv, Respond, SectionsInv, Rows, ReadyIsIndexed, DeletedIsGone, Exists
<1> QED BY <1>2, <1>3, <1>4 DEF RequestStep

LEMMA LoadType ==
  ASSUME Workers, NEW w \in Worker, Load(w)
  PROVE  Workers'
<1>1. PICK d \in work[w].queue :
        work' = [work EXCEPT ![w] =
          IF Exists(d)
            THEN [pc |-> "loaded", queue |-> @.queue \ {d}, at |-> d, gone |-> 0,
                  seen |-> doc[d].status]
            ELSE Queued(@.queue \ {d})]
  BY DEF Load
<1>2. work[w] \in Work /\ work[w].queue \in SUBSET Doc /\ d \in Doc /\ d \in 0 .. NumDocs
  BY DocRange DEF Workers, Work
<1>3. CASE Exists(d)
  <2> DEFINE t == [pc |-> "loaded", queue |-> work[w].queue \ {d}, at |-> d, gone |-> 0,
                   seen |-> doc[d].status]
  <2>1. doc[d].status \in Status
    BY <1>3 DEF Exists, Stored, Status
  <2>2. t \in Work /\ t.at = d
    BY <1>2, <2>1 DEF Work, WorkPC
  <2>3. work' = [work EXCEPT ![w] = t]
    BY <1>1, <1>3, <1>2 DEF Workers, Work
  <2> HIDE DEF t
  <2> QED BY <1>2, <2>2, <2>3, TaskType
<1>4. CASE ~Exists(d)
  <2>1. work[w].queue \ {d} \in SUBSET Doc
    BY <1>2
  <2>2. work' = [work EXCEPT ![w] = Queued(work[w].queue \ {d})]
    BY <1>1, <1>4 DEF Workers
  <2> QED BY <2>1, <2>2, QueueType, TaskType
<1> QED BY <1>3, <1>4

LEMMA ReplaceType ==
  ASSUME Rows, Workers, NEW w \in Worker, Replace(w)
  PROVE  Workers'
<1>1. work[w] \in Work /\ work[w].at \in Doc
  BY DEF Workers, Replace
<1> DEFINE t == [work[w] EXCEPT !.pc = "replaced", !.gone = doc[work[w].at].batch]
<1>2. doc[work[w].at].batch \in Nat
  BY <1>1 DEF Rows, DocRow
<1>3. t \in Work /\ t.at \in Doc
  BY <1>1, <1>2 DEF Work, WorkPC
<1>4. work' = [work EXCEPT ![w] = t]
  BY <1>1 DEF Replace, Workers, Work
<1> HIDE DEF t
<1> QED BY <1>3, <1>4, TaskType

LEMMA ReloadType ==
  ASSUME Rows, Workers, NEW w \in Worker, Reload(w)
  PROVE  Workers'
<1>1. work[w] \in Work /\ work[w].at \in Doc
  BY DEF Workers, Reload
<1>2. CASE Exists(work[w].at)
  <2> DEFINE t == [work[w] EXCEPT !.pc = "reloaded", !.seen = doc[work[w].at].status]
  <2>1. doc[work[w].at].status \in Status
    BY <1>1 DEF Rows, DocRow
  <2>2. t \in Work /\ t.at \in Doc
    BY <1>1, <2>1 DEF Work, WorkPC
  <2>3. work' = [work EXCEPT ![w] = t]
    BY <1>1, <1>2 DEF Reload, Workers, Work
  <2> HIDE DEF t
  <2> QED BY <2>2, <2>3, TaskType
<1>3. CASE ~Exists(work[w].at)
  BY <1>3, ContinueType DEF Reload
<1> QED BY <1>2, <1>3

LEMMA WorkStepType ==
  ASSUME IInv, NEW w \in Worker, WorkStep(w)
  PROVE  IInv'
<1>1. Requests' /\ Counters'
  BY DEF IInv, WorkStep, Requests, Counters
<1>2. ASSUME UNCHANGED doc PROVE SectionsInv'
  BY <1>2 DEF IInv, SectionsInv, Rows, ReadyIsIndexed, DeletedIsGone, Exists
<1>3. work[w].pc \notin {"free", "next"} => work[w].at \in Doc
  BY DEF IInv, Workers
<1>4. CASE Load(w)
  BY <1>1, <1>2, <1>4, LoadType DEF IInv, Load
<1>5. CASE EndOfWork(w)
  BY <1>1, <1>2, <1>5, NoWorkType, TaskType DEF IInv, EndOfWork
<1>6. CASE Replace(w)
  BY <1>1, <1>2, <1>6, ReplaceType DEF IInv, Replace, SectionsInv
<1>7. CASE ProcessingFails(w)
  <2>1. work[w].at \in Doc /\ GoTo(w, "failed") /\ UNCHANGED doc /\ "failed" \in WorkPC
    BY <1>3, <1>7 DEF ProcessingFails, WorkPC
  <2> QED BY <1>1, <1>2, <2>1, GoToType DEF IInv
<1>8. CASE Store(w)
  <2>1. work[w].at \in Doc /\ "failed" \in WorkPC
    BY <1>3, <1>8 DEF Store, WorkPC
  <2>2. Workers'
    BY <1>8, <2>1, ContinueType, GoToType DEF IInv, Store
  <2> QED BY <1>1, <1>8, <2>1, <2>2, StoreKeeps DEF IInv
<1>9. CASE Reload(w)
  BY <1>1, <1>2, <1>9, ReloadType DEF IInv, Reload, SectionsInv
<1>10. CASE MarkFailed(w)
  <2>1. work[w].at \in Doc
    BY <1>3, <1>10 DEF MarkFailed
  <2>2. Workers'
    BY <1>10, ContinueType, NoWorkType, TaskType DEF IInv, MarkFailed
  <2> QED BY <1>1, <1>10, <2>1, <2>2, MarkFailedKeeps DEF IInv
<1> QED BY <1>4, <1>5, <1>6, <1>7, <1>8, <1>9, <1>10 DEF WorkStep

LEMMA ProcessStepType ==
  ASSUME IInv, DeleteDocument \/ Crash \/ Start \/ ResumeSelect
  PROVE  IInv'
<1>1. ASSUME UNCHANGED doc PROVE SectionsInv'
  BY <1>1 DEF IInv, SectionsInv, Rows, ReadyIsIndexed, DeletedIsGone, Exists
<1>2. CASE DeleteDocument
  <2>1. Requests' /\ Workers' /\ Counters'
    BY <1>2, LimitsAssumption DEF IInv, DeleteDocument, Requests, Workers, Counters
  <2> QED BY <1>2, <2>1, DeleteKeeps DEF IInv
<1>3. CASE Crash
  <2>1. Requests' /\ Workers'
    BY <1>3, NoRequestType, NoWorkType DEF Crash, Requests, Workers
  <2>2. Counters'
    BY <1>3, LimitsAssumption DEF IInv, Crash, Counters
  <2> QED BY <1>1, <1>3, <2>1, <2>2 DEF IInv, Crash
<1>4. CASE Start
  BY <1>1, <1>4 DEF IInv, Start, Requests, Workers, Counters
<1>5. CASE ResumeSelect
  <2>1. PICK w \in Worker :
          work' = [work EXCEPT ![w] = Queued({d \in Doc : doc[d].status \in Leftover})]
    BY <1>5 DEF ResumeSelect
  <2>2. Workers'
    <3> DEFINE docs == {d \in Doc : doc[d].status \in Leftover}
    <3>1. docs \in SUBSET Doc
      OBVIOUS
    <3> HIDE DEF docs
    <3> QED BY <2>1, <3>1, QueueType, TaskType DEF IInv, docs
  <2>3. Requests' /\ Counters'
    BY <1>5 DEF IInv, ResumeSelect, Requests, Counters
  <2> QED BY <1>1, <1>5, <2>2, <2>3 DEF IInv, ResumeSelect
<1> QED BY <1>2, <1>3, <1>4, <1>5

-----------------------------------------------------------------------------
LEMMA Inductive == Spec => []IInv
<1>1. Init => IInv
  <2> SUFFICES ASSUME Init PROVE IInv
    OBVIOUS
  <2>1. NoRow \in DocRow /\ NoRow.status = "absent" /\ NoRow.batch = 0
    BY DEF NoRow, DocRow, Status
  <2>2. SectionsInv
    BY <2>1 DEF Init, SectionsInv, Rows, ReadyIsIndexed, DeletedIsGone, Exists
  <2>3. Requests /\ Workers
    BY NoRequestType, NoWorkType DEF Init, Requests, Workers
  <2>4. Counters
    BY LimitsAssumption DEF Init, Counters
  <2> QED BY <2>2, <2>3, <2>4 DEF IInv
<1>2. IInv /\ [Next]_vars => IInv'
  <2> SUFFICES ASSUME IInv, [Next]_vars PROVE IInv'
    OBVIOUS
  <2>1. CASE Next
    BY <2>1, UploadType, RequestStepType, WorkStepType, ProcessStepType DEF Next
  <2>2. CASE UNCHANGED vars
    BY <2>2 DEF vars, IInv, SectionsInv, Rows, ReadyIsIndexed, DeletedIsGone, Exists,
                Requests, Workers, Counters
  <2> QED BY <2>1, <2>2
<1> QED BY <1>1, <1>2, PTL DEF Spec

(* Rows, requests, tasks and counters have their types.                    *)
THEOREM DocumentsTyped == Spec => []TypeOK
<1>1. IInv => TypeOK
  BY DEF IInv, SectionsInv, Rows, Requests, Workers, Counters, TypeOK
<1> QED BY <1>1, Inductive, PTL

(* A ready document has its sections, however many attempts at it overlap  *)
(* and wherever the process stops.                                         *)
THEOREM ReadyHasSections == Spec => []ReadyIsIndexed
<1>1. IInv => ReadyIsIndexed
  BY DEF IInv, SectionsInv
<1> QED BY <1>1, Inductive, PTL

(* A deleted document has no sections, whatever was processing it.         *)
THEOREM DeletedHasNone == Spec => []DeletedIsGone
<1>1. IInv => DeletedIsGone
  BY DEF IInv, SectionsInv
<1> QED BY <1>1, Inductive, PTL

-----------------------------------------------------------------------------
(* With no upload before the resume task has read its list, a document has *)
(* one task: the request that added it, then a worker. What it has is      *)
(* unfinished, so the task never meets another outcome than its own.       *)
NothingRuns ==
  api # "up" => /\ \A a \in Admin : req[a] = NoRequest
                /\ \A w \in Worker : work[w] = NoWork

AskedOnce == \A a, b \in Admin : \A d \in Doc : Asked(a, d) /\ Asked(b, d) => a = b

HasTask(d) == (\E w \in Worker : Holds(w, d)) \/ (\E a \in Admin : Asked(a, d))

TasksAreUnfinished == \A d \in Doc : HasTask(d) => doc[d].status \in {"processing", "deleted"}

(* A session has loaded `processing`, and does not come back to its        *)
(* document.                                                               *)
TasksAreFresh ==
  \A w \in Worker :
    /\ work[w].at \notin work[w].queue
    /\ work[w].pc \in {"loaded", "replaced", "reloaded"} => work[w].seen = "processing"

OnlyReadyIsIndexed == \A d \in Doc : doc[d].batch # 0 => doc[d].status = "ready"

Once == NothingRuns /\ OneAttempt /\ AskedOnce /\ TasksAreUnfinished /\ TasksAreFresh /\ OnlyReadyIsIndexed

(* A task goes on with what it had, or settles the document it is at.      *)
LEMMA TaskKeepsOnce ==
  ASSUME IInv, Once, NEW w \in Worker, NEW t, work' = [work EXCEPT ![w] = t],
         UNCHANGED <<req, api>>, api = "up",
         t.queue \subseteq work[w].queue, t.at \in work[w].queue \cup {work[w].at, 0},
         t.at \notin t.queue,
         t.pc \in {"loaded", "replaced", "reloaded"} => t.seen = "processing",
         \A d \in Doc : \/ doc'[d] = doc[d]
                        \/ /\ d = work[w].at /\ d \notin t.queue /\ d # t.at
                           /\ doc'[d].batch # 0 => doc'[d].status = "ready"
  PROVE  Once'
<1> USE DEF Once
<1>1. work'[w] = t /\ \A v \in Worker \ {w} : work'[v] = work[v]
  BY DEF IInv, Workers
<1>2. 0 \notin Doc
  BY DEF Doc
<1>3. \A d \in Doc, v \in Worker : Holds(v, d)' => Holds(v, d)
  BY <1>1, <1>2 DEF Holds
<1>4. \A d \in Doc, a \in Admin : Asked(a, d)' <=> Asked(a, d)
  BY DEF Asked
<1>5. NothingRuns'
  BY DEF NothingRuns
<1>6. OneAttempt' /\ AskedOnce'
  BY <1>3, <1>4 DEF OneAttempt, AskedOnce
<1>7. TasksAreUnfinished'
  <2> SUFFICES ASSUME NEW d \in Doc, HasTask(d)' PROVE doc'[d].status \in {"processing", "deleted"}
    BY DEF TasksAreUnfinished
  <2>1. HasTask(d)
    BY <1>3, <1>4 DEF HasTask
  <2>2. CASE doc'[d] = doc[d]
    BY <2>1, <2>2 DEF TasksAreUnfinished
  <2>3. CASE d = work[w].at /\ d \notin t.queue /\ d # t.at
    <3>1. Holds(w, d) /\ ~Holds(w, d)'
      BY <1>1, <2>3 DEF Holds
    <3>2. \A v \in Worker \ {w} : ~Holds(v, d)'
      BY <1>3, <3>1 DEF OneAttempt
    <3>3. \A a \in Admin : ~Asked(a, d)'
      BY <1>4, <3>1 DEF OneAttempt
    <3> QED BY <3>1, <3>2, <3>3 DEF HasTask
  <2> QED BY <2>2, <2>3
<1>8. TasksAreFresh'
  BY <1>1 DEF TasksAreFresh
<1>9. OnlyReadyIsIndexed'
  BY DEF OnlyReadyIsIndexed
<1> QED BY <1>5, <1>6, <1>7, <1>8, <1>9

LEMMA WorkStepOnce ==
  ASSUME IInv, Once, NEW w \in Worker, WorkStep(w)
  PROVE  Once'
<1>1. UNCHANGED <<req, api>> /\ work[w] \in Work
  BY DEF WorkStep, IInv, Workers
<1>2. api = "up"
  <2>1. work[w].pc # "free"
    BY DEF WorkStep, Load, EndOfWork, Replace, ProcessingFails, Store, Reload, MarkFailed
  <2> QED BY <2>1, NoWorkType DEF Once, NothingRuns
<1>3. work[w].at \notin work[w].queue /\ 0 \notin work[w].queue
  BY <1>1 DEF Once, TasksAreFresh, Work, Doc
<1>4. \A docs \in SUBSET Doc :
        /\ Queued(docs).queue = docs /\ Queued(docs).at = 0 /\ Queued(docs).pc = "next"
        /\ NoWork.queue = {} /\ NoWork.at = 0 /\ NoWork.pc = "free"
  BY DEF Queued, NoWork, Waiting
<1>5. /\ work[w].queue \in SUBSET Doc
      /\ work[w].pc \notin {"free", "next"} => work[w].at \in Doc
  BY <1>1 DEF Work, IInv, Workers
(* The task goes on to the next document, or ends. *)
<1>6. ASSUME NEW docs \in SUBSET work[w].queue, Continue(w) \/ work' = [work EXCEPT ![w] = Queued(docs)]
                                                \/ work' = [work EXCEPT ![w] = NoWork],
             \A d \in Doc : \/ doc'[d] = doc[d]
                            \/ d = work[w].at /\ (doc'[d].batch # 0 => doc'[d].status = "ready")
      PROVE  Once'
  <2>1. PICK t \in {Queued(work[w].queue), Queued(docs), NoWork} : work' = [work EXCEPT ![w] = t]
    BY <1>6 DEF Continue, IInv, Workers
  <2>2. t.queue \subseteq work[w].queue /\ t.at = 0 /\ t.pc \in {"next", "free"}
    <3>1. docs \in SUBSET Doc /\ work[w].queue \in SUBSET Doc
      BY <1>1 DEF Work
    <3> QED BY <1>4, <2>1, <3>1
  <2>3. \A d \in Doc : \/ doc'[d] = doc[d]
                       \/ /\ d = work[w].at /\ d \notin t.queue /\ d # t.at
                          /\ doc'[d].batch # 0 => doc'[d].status = "ready"
    BY <1>3, <1>6, <2>2 DEF Doc
  <2>4. t.at \notin t.queue
    BY <1>3, <2>2
  <2> HIDE DEF Once
  <2> QED BY <1>1, <1>2, <2>1, <2>2, <2>3, <2>4, TaskKeepsOnce
(* The task stays at its document. *)
<1>7. ASSUME NEW t, work' = [work EXCEPT ![w] = t], t.queue = work[w].queue, t.at = work[w].at,
             t.pc \in {"loaded", "replaced", "reloaded"} => t.seen = "processing", UNCHANGED doc
      PROVE  Once'
  BY <1>1, <1>2, <1>3, <1>7, TaskKeepsOnce
<1>8. CASE Load(w)
  <2>1. PICK d \in work[w].queue :
          /\ work' = [work EXCEPT ![w] =
               IF Exists(d)
                 THEN [pc |-> "loaded", queue |-> work[w].queue \ {d}, at |-> d, gone |-> 0,
                       seen |-> doc[d].status]
                 ELSE Queued(work[w].queue \ {d})]
          /\ UNCHANGED doc
    BY <1>8 DEF Load, IInv, Workers
  <2>2. CASE Exists(d)
    <3> DEFINE t == [pc |-> "loaded", queue |-> work[w].queue \ {d}, at |-> d, gone |-> 0,
                     seen |-> doc[d].status]
    <3>1. work' = [work EXCEPT ![w] = t]
      BY <2>1, <2>2
    <3>2. /\ t.queue \subseteq work[w].queue /\ t.at \in work[w].queue /\ t.at \notin t.queue
          /\ t.seen = doc[d].status
      OBVIOUS
    <3>3. d \in Doc /\ Holds(w, d)
      BY <1>5, <2>1 DEF Holds
    <3>4. doc[d].status = "processing"
      BY <2>2, <3>3 DEF Once, TasksAreUnfinished, HasTask, Exists, Stored
    <3> HIDE DEF t
    <3> QED BY <1>1, <1>2, <2>1, <3>1, <3>2, <3>4, TaskKeepsOnce
  <2>3. CASE ~Exists(d)
    BY <1>6, <2>1, <2>3
  <2> QED BY <2>2, <2>3
<1>9. CASE EndOfWork(w)
  BY <1>6, <1>9 DEF EndOfWork
<1>10. CASE Replace(w)
  <2> DEFINE t == [work[w] EXCEPT !.pc = "replaced", !.gone = doc[work[w].at].batch]
  <2>1. t.queue = work[w].queue /\ t.at = work[w].at /\ t.seen = work[w].seen
    BY <1>1 DEF Work
  <2>2. work' = [work EXCEPT ![w] = t] /\ UNCHANGED doc /\ work[w].pc = "loaded"
    BY <1>1, <1>10 DEF Replace, IInv, Workers, Work
  <2>3. work[w].seen = "processing"
    BY <2>2 DEF Once, TasksAreFresh
  <2> HIDE DEF t
  <2> QED BY <1>7, <2>1, <2>2, <2>3
<1>11. ASSUME GoTo(w, "failed"), UNCHANGED doc PROVE Once'
  <2> DEFINE t == [work[w] EXCEPT !.pc = "failed"]
  <2>1. t.queue = work[w].queue /\ t.at = work[w].at /\ t.pc = "failed"
    BY <1>1 DEF Work
  <2>2. work' = [work EXCEPT ![w] = t]
    BY <1>1, <1>11 DEF GoTo, IInv, Workers, Work
  <2> HIDE DEF t
  <2> QED BY <1>7, <1>11, <2>1, <2>2
<1>12. CASE ProcessingFails(w)
  BY <1>11, <1>12 DEF ProcessingFails
<1>13. CASE Store(w)
  <2> DEFINE d == work[w].at
  <2>1. work[w].pc = "replaced" /\ d \in Doc /\ work[w].seen = "processing"
    BY <1>5, <1>13 DEF Store, Once, TasksAreFresh
  <2>2. CASE ~Storable(d, work[w].gone)
    BY <1>11, <1>13, <2>2 DEF Store
  <2>3. CASE Storable(d, work[w].gone)
    <3>1. doc[d].status = "processing"
      BY <2>1, <2>3 DEF Once, TasksAreUnfinished, HasTask, Holds, Storable, Exists, Stored
    <3>2. Continue(w) /\ doc' = [doc EXCEPT ![d] = [status |-> Column(@.status, work[w].seen, "ready"),
                                                   content |-> @.content, batch |-> @.batch + 1]]
      BY <1>13, <2>3 DEF Store
    <3>3. doc'[d].status = "ready" /\ \A e \in Doc \ {d} : doc'[e] = doc[e]
      BY <2>1, <3>1, <3>2 DEF Column, IInv, SectionsInv, Rows
    <3> QED BY <1>6, <3>2, <3>3
  <2> QED BY <2>2, <2>3
<1>14. CASE Reload(w)
  <2>1. UNCHANGED doc /\ work[w].pc = "failed" /\ work[w].at \in Doc
    BY <1>5, <1>14 DEF Reload
  <2>2. CASE ~Exists(work[w].at)
    BY <1>6, <1>14, <2>1, <2>2 DEF Reload
  <2>3. CASE Exists(work[w].at)
    <3> DEFINE t == [work[w] EXCEPT !.pc = "reloaded", !.seen = doc[work[w].at].status]
    <3>1. t.queue = work[w].queue /\ t.at = work[w].at /\ t.seen = doc[work[w].at].status
      BY <1>1 DEF Work
    <3>2. work' = [work EXCEPT ![w] = t]
      BY <1>1, <1>14, <2>3 DEF Reload, IInv, Workers, Work
    <3>3. doc[work[w].at].status = "processing"
      BY <2>1, <2>3 DEF Once, TasksAreUnfinished, HasTask, Holds, Exists, Stored
    <3> HIDE DEF t
    <3> QED BY <1>7, <2>1, <3>1, <3>2, <3>3
  <2> QED BY <2>2, <2>3
<1>15. CASE MarkFailed(w)
  <2> DEFINE d == work[w].at
  <2>1. d \in Doc /\ work[w].seen = "processing"
    BY <1>5, <1>15 DEF MarkFailed, Once, TasksAreFresh
  <2>2. CASE ~Exists(d)
    BY <1>6, <1>15, <2>1, <2>2 DEF MarkFailed
  <2>3. CASE Exists(d)
    <3>1. doc[d].status = "processing"
      BY <2>1, <2>3 DEF Once, TasksAreUnfinished, HasTask, Holds, Exists, Stored
    <3>2. Continue(w) /\ doc' = [doc EXCEPT ![d].status = Column(@, work[w].seen, "failed")]
      BY <1>15, <2>3 DEF MarkFailed
    <3>3. doc'[d].batch = doc[d].batch /\ \A e \in Doc \ {d} : doc'[e] = doc[e]
      BY <2>1, <3>2 DEF IInv, SectionsInv, Rows, DocRow
    <3>4. doc[d].batch = 0
      BY <2>1, <3>1 DEF Once, OnlyReadyIsIndexed
    <3> QED BY <1>6, <3>2, <3>3, <3>4
  <2> QED BY <2>2, <2>3
<1> QED BY <1>8, <1>9, <1>10, <1>12, <1>13, <1>14, <1>15 DEF WorkStep

(* A request without a new document.                                       *)
LEMMA RequestKeepsOnce ==
  ASSUME IInv, Once, NEW a \in Admin, NEW r, req' = [req EXCEPT ![a] = r],
         r.added \subseteq req[a].added, UNCHANGED <<doc, work, api>>, api = "up"
  PROVE  Once'
<1>1. req'[a] = r /\ \A b \in Admin \ {a} : req'[b] = req[b]
  BY DEF IInv, Requests
<1>2. \A d \in Doc, b \in Admin : Asked(b, d)' => Asked(b, d)
  BY <1>1 DEF Asked
<1>3. \A d \in Doc, w \in Worker : Holds(w, d)' <=> Holds(w, d)
  BY DEF Holds
<1>4. NothingRuns'
  BY DEF NothingRuns
<1>5. OneAttempt' /\ AskedOnce'
  BY <1>2, <1>3 DEF Once, OneAttempt, AskedOnce
<1>6. TasksAreUnfinished'
  <2>1. \A d \in Doc : HasTask(d)' => HasTask(d)
    BY <1>2, <1>3 DEF HasTask
  <2> QED BY <2>1 DEF Once, TasksAreUnfinished
<1>7. TasksAreFresh' /\ OnlyReadyIsIndexed'
  BY DEF Once, TasksAreFresh, OnlyReadyIsIndexed
<1> QED BY <1>4, <1>5, <1>6, <1>7 DEF Once

LEMMA UploadOnce ==
  ASSUME IInv, Once, NEW a \in Admin, Upload(a), Quiet
  PROVE  Once'
<1>1. PICK n \in 1 .. MaxFiles : \E files \in [1 .. n -> Content] :
        req' = [req EXCEPT ![a] = [pc |-> "check", files |-> files, added |-> {}]]
  BY DEF Upload
<1>2. PICK files \in [1 .. n -> Content] :
        req' = [req EXCEPT ![a] = [pc |-> "check", files |-> files, added |-> {}]]
  BY <1>1
<1> DEFINE r == [pc |-> "check", files |-> files, added |-> {}]
<1>3. req' = [req EXCEPT ![a] = r] /\ r.pc = "check" /\ r.added = {}
  BY <1>2
<1> HIDE DEF r
<1>4. api = "up"
  <2>1. req'[a] # req[a]
    BY <1>3 DEF Upload, IInv, Requests
  <2> QED BY <2>1 DEF Upload, Quiet, IInv, Counters
<1> QED BY <1>3, <1>4, RequestKeepsOnce DEF Upload

(* A new document is one that no request or task had.                      *)
LEMMA InsertOnce ==
  ASSUME IInv, Once, NEW a \in Admin, Insert(a), UNCHANGED api, api = "up"
  PROVE  Once'
<1>1. PICK d \in Doc :
        /\ doc[d].status = "absent"
        /\ doc' = [doc EXCEPT ![d] = [status |-> "processing", batch |-> 0,
                                      content |-> Head(req[a].files)]]
        /\ req' = [req EXCEPT ![a] = [pc |-> "check", files |-> Tail(@.files),
                                      added |-> @.added \cup {d}]]
  BY DEF Insert
<1>2. /\ doc'[d].status = "processing" /\ doc'[d].batch = 0
      /\ \A e \in Doc \ {d} : doc'[e] = doc[e]
  BY <1>1 DEF IInv, SectionsInv, Rows
<1>3. /\ req'[a].added = req[a].added \cup {d}
      /\ \A b \in Admin \ {a} : req'[b] = req[b]
  BY <1>1 DEF IInv, Requests
<1>4. ~HasTask(d)
  BY <1>1 DEF Once, TasksAreUnfinished
<1>5. \A e \in Doc, w \in Worker : Holds(w, e)' <=> Holds(w, e)
  BY DEF Insert, Holds
<1>6. \A e \in Doc, b \in Admin : Asked(b, e)' <=> Asked(b, e) \/ (b = a /\ e = d)
  BY <1>3 DEF Asked
<1>7. NothingRuns'
  BY DEF NothingRuns
<1>8. OneAttempt' /\ AskedOnce'
  BY <1>4, <1>5, <1>6 DEF Once, OneAttempt, AskedOnce, HasTask
<1>9. TasksAreUnfinished'
  <2>1. \A e \in Doc \ {d} : HasTask(e)' <=> HasTask(e)
    BY <1>5, <1>6 DEF HasTask
  <2> QED BY <1>2, <2>1 DEF Once, TasksAreUnfinished
<1>10. TasksAreFresh' /\ OnlyReadyIsIndexed'
  BY <1>2 DEF Insert, Once, TasksAreFresh, OnlyReadyIsIndexed
<1> QED BY <1>7, <1>8, <1>9, <1>10 DEF Once

(* The response hands its documents to a free worker.                      *)
LEMMA RespondOnce ==
  ASSUME IInv, Once, NEW a \in Admin, Respond(a), UNCHANGED api, api = "up"
  PROVE  Once'
<1>1. PICK w \in Worker : work[w].pc = "free" /\ work' = [work EXCEPT ![w] = Queued(req[a].added)]
  BY DEF Respond, Tasks
<1>2. /\ work'[w].queue = req[a].added /\ work'[w].at = 0 /\ work'[w].pc = "next"
      /\ \A v \in Worker \ {w} : work'[v] = work[v]
  BY <1>1 DEF IInv, Workers, Queued, Waiting
<1>3. req'[a].added = {} /\ \A b \in Admin \ {a} : req'[b] = req[b]
  BY DEF Respond, NoRequest, IInv, Requests
<1>4. req[a].added \in SUBSET Doc /\ 0 \notin Doc
  BY DEF IInv, Requests, Request, Doc
<1>5. \A d \in Doc, v \in Worker : Holds(v, d)' => Holds(v, d) \/ (v = w /\ Asked(a, d))
  BY <1>2, <1>4 DEF Holds, Asked
<1>6. \A d \in Doc, b \in Admin : Asked(b, d)' => Asked(b, d) /\ b # a
  BY <1>3 DEF Asked
<1>7. NothingRuns'
  BY DEF NothingRuns
<1>8. OneAttempt' /\ AskedOnce'
  BY <1>5, <1>6 DEF Once, OneAttempt, AskedOnce
<1>9. TasksAreUnfinished'
  <2>1. \A d \in Doc : HasTask(d)' => HasTask(d)
    BY <1>5, <1>6 DEF HasTask
  <2> QED BY <2>1 DEF Respond, Once, TasksAreUnfinished
<1>10. TasksAreFresh' /\ OnlyReadyIsIndexed'
  BY <1>2, <1>4 DEF Respond, Once, TasksAreFresh, OnlyReadyIsIndexed
<1> QED BY <1>7, <1>8, <1>9, <1>10 DEF Once

LEMMA RequestStepOnce ==
  ASSUME IInv, Once, NEW a \in Admin, RequestStep(a)
  PROVE  Once'
<1>1. UNCHANGED api /\ api = "up"
  <2>1. req[a].pc # "idle"
    BY DEF RequestStep, Check, Insert, Respond
  <2> QED BY <2>1, NoRequestType DEF RequestStep, Once, NothingRuns
<1>2. CASE Check(a)
  <2>1. PICK r : req' = [req EXCEPT ![a] = r] /\ r.added = req[a].added
    <3> DEFINE s == [req[a] EXCEPT !.files = Tail(@)]
               t == [req[a] EXCEPT !.pc = "insert"]
    <3>1. req[a] \in Request
      BY DEF IInv, Requests
    <3>2. s.added = req[a].added /\ t.added = req[a].added
      BY <3>1 DEF Request
    <3>3. req' = [req EXCEPT ![a] = s] \/ req' = [req EXCEPT ![a] = t]
      BY <1>2, <3>1 DEF Check, Request
    <3> HIDE DEF s, t
    <3> QED BY <3>2, <3>3
  <2> QED BY <1>1, <1>2, <2>1, RequestKeepsOnce DEF Check
<1> QED BY <1>1, <1>2, InsertOnce, RespondOnce DEF RequestStep

(* A restart asks for what is unfinished when nothing runs.                *)
LEMMA ProcessStepOnce ==
  ASSUME IInv, Once, DeleteDocument \/ Crash \/ Start \/ ResumeSelect
  PROVE  Once'
<1>1. /\ NoWork.queue = {} /\ NoWork.at = 0 /\ NoWork.pc = "free" /\ NoRequest.added = {}
      /\ 0 \notin Doc
  BY DEF NoWork, Waiting, NoRequest, Doc
<1>2. CASE DeleteDocument
  <2>1. PICK d \in Doc : doc' = [doc EXCEPT ![d].status = "deleted", ![d].batch = 0]
    BY <1>2 DEF DeleteDocument
  <2>2. /\ doc'[d].status = "deleted" /\ doc'[d].batch = 0
        /\ \A e \in Doc \ {d} : doc'[e] = doc[e]
    BY <2>1 DEF IInv, SectionsInv, Rows, DocRow
  <2>3. NothingRuns' /\ OneAttempt' /\ AskedOnce' /\ TasksAreFresh'
    BY <1>2 DEF DeleteDocument, Once, NothingRuns, OneAttempt, AskedOnce, TasksAreFresh, Holds, Asked
  <2>4. TasksAreUnfinished' /\ OnlyReadyIsIndexed'
    BY <1>2, <2>2
       DEF DeleteDocument, Once, TasksAreUnfinished, OnlyReadyIsIndexed, HasTask, Holds, Asked
  <2> QED BY <2>3, <2>4 DEF Once
<1>3. CASE Crash
  <2>1. /\ \A a \in Admin : req'[a] = NoRequest
        /\ \A w \in Worker : work'[w] = NoWork
    BY <1>3 DEF Crash
  <2>2. \A d \in Doc : ~HasTask(d)'
    BY <1>1, <2>1 DEF HasTask, Holds, Asked
  <2>3. NothingRuns'
    BY <2>1 DEF NothingRuns
  <2>4. OneAttempt' /\ AskedOnce' /\ TasksAreUnfinished'
    BY <2>2 DEF HasTask, OneAttempt, AskedOnce, TasksAreUnfinished
  <2>5. TasksAreFresh' /\ OnlyReadyIsIndexed'
    BY <1>1, <1>3, <2>1 DEF Crash, Once, TasksAreFresh, OnlyReadyIsIndexed
  <2> QED BY <2>3, <2>4, <2>5 DEF Once
<1>4. CASE Start
  BY <1>4 DEF Start, Once, NothingRuns, OneAttempt, AskedOnce, TasksAreUnfinished, TasksAreFresh,
              OnlyReadyIsIndexed, HasTask, Holds, Asked
<1>5. CASE ResumeSelect
  <2> DEFINE docs == {d \in Doc : doc[d].status = "processing"}
  <2>1. PICK w \in Worker : work' = [work EXCEPT ![w] = Queued(docs)]
    BY <1>5 DEF ResumeSelect, Leftover
  <2>2. /\ work'[w].queue = docs /\ work'[w].at = 0 /\ work'[w].pc = "next"
        /\ \A v \in Worker \ {w} : work'[v] = NoWork
    BY <1>5, <2>1 DEF ResumeSelect, Once, NothingRuns, IInv, Workers, Queued, Waiting
  <2>3. \A a \in Admin : req'[a] = NoRequest
    BY <1>5 DEF ResumeSelect, Once, NothingRuns
  <2>4. \A d \in Doc, v \in Worker : Holds(v, d)' => v = w /\ doc[d].status = "processing"
    BY <1>1, <2>2 DEF Holds
  <2>5. \A d \in Doc, a \in Admin : ~Asked(a, d)'
    BY <1>1, <2>3 DEF Asked
  <2>6. NothingRuns'
    BY <1>5 DEF ResumeSelect, NothingRuns
  <2>7. OneAttempt' /\ AskedOnce'
    BY <2>4, <2>5 DEF OneAttempt, AskedOnce
  <2>8. TasksAreUnfinished'
    BY <1>5, <2>4, <2>5 DEF ResumeSelect, TasksAreUnfinished, HasTask
  <2>9. TasksAreFresh' /\ OnlyReadyIsIndexed'
    BY <1>1, <1>5, <2>2 DEF ResumeSelect, Once, TasksAreFresh, OnlyReadyIsIndexed
  <2> QED BY <2>6, <2>7, <2>8, <2>9 DEF Once
<1> QED BY <1>2, <1>3, <1>4, <1>5

LEMMA AlwaysOnce == QuietSpec => [](IInv /\ Once)
<1>1. Init => Once
  <2> SUFFICES ASSUME Init PROVE Once
    OBVIOUS
  <2>1. \A d \in Doc : ~HasTask(d) /\ doc[d].batch = 0
    BY DEF Init, HasTask, Holds, Asked, NoWork, Waiting, NoRequest, NoRow, Doc
  <2>2. NothingRuns /\ TasksAreFresh
    BY DEF Init, NothingRuns, TasksAreFresh, NoWork, Waiting
  <2> QED BY <2>1, <2>2 DEF Once, OneAttempt, AskedOnce, TasksAreUnfinished, OnlyReadyIsIndexed,
                            HasTask
<1>2. IInv /\ Once /\ [Next /\ Quiet]_vars => Once'
  <2> SUFFICES ASSUME IInv, Once, [Next /\ Quiet]_vars PROVE Once'
    OBVIOUS
  <2>1. CASE Next /\ Quiet
    BY <2>1, UploadOnce, RequestStepOnce, WorkStepOnce, ProcessStepOnce DEF Next
  <2>2. CASE UNCHANGED vars
    BY <2>2 DEF vars, Once, NothingRuns, OneAttempt, AskedOnce, TasksAreUnfinished, TasksAreFresh,
                OnlyReadyIsIndexed, HasTask, Holds, Asked
  <2> QED BY <2>1, <2>2
<1>3. QuietSpec => Spec
  BY PTL DEF QuietSpec, Spec
<1> QED BY <1>1, <1>2, <1>3, Inductive, PTL DEF QuietSpec

LEMMA OnceIsSafe == Once => OneAttempt /\ FailedIsNotIndexed
  BY DEF Once, OnlyReadyIsIndexed, FailedIsNotIndexed

(* However many admins upload and however often the process stops, no two  *)
(* tasks process the same document, and a document that failed has no      *)
(* sections (process_document, resume_unfinished_documents).               *)
THEOREM OneTaskPerDocument == QuietSpec => [](OneAttempt /\ FailedIsNotIndexed)
  BY AlwaysOnce, OnceIsSafe, PTL

(* What is ready or failed stays so until it is deleted: the tasks that    *)
(* are left, also those of the resume task, are about other documents.     *)
THEOREM OutcomeIsFinal == QuietSpec => SettledForGood
<1> DEFINE Settled == \A d \in Doc : doc[d].status \in {"ready", "failed"} =>
                                       doc'[d].status \in {doc[d].status, "deleted"}
<1>1. IInv /\ Once /\ [Next /\ Quiet]_vars => [Settled]_vars
  <2> SUFFICES ASSUME IInv, Once, Next PROVE Settled
    OBVIOUS
  <2> USE DEF IInv, SectionsInv, Rows
  <2>1. CASE UNCHANGED doc
    BY <2>1
  <2>2. ASSUME NEW w \in Worker, WorkStep(w) PROVE Settled
    <3>1. UNCHANGED doc \/ \E row : doc' = [doc EXCEPT ![work[w].at] = row]
      BY <2>2 DEF WorkStep, Load, EndOfWork, Replace, ProcessingFails, Store, Reload, MarkFailed
    <3>2. work[w].at \in Doc => doc[work[w].at].status \notin {"ready", "failed"}
      BY DEF Once, TasksAreUnfinished, HasTask, Holds
    <3> QED BY <3>1, <3>2
  <2>3. ASSUME NEW a \in Admin, Insert(a) PROVE Settled
    <3>1. PICK d \in Doc : doc[d].status = "absent" /\ \E row : doc' = [doc EXCEPT ![d] = row]
      BY <2>3 DEF Insert
    <3> QED BY <3>1
  <2>4. CASE DeleteDocument
    <3>1. PICK d \in Doc : doc' = [doc EXCEPT ![d].status = "deleted", ![d].batch = 0]
      BY <2>4 DEF DeleteDocument
    <3>2. doc'[d].status = "deleted" /\ \A e \in Doc \ {d} : doc'[e] = doc[e]
      BY <3>1 DEF DocRow
    <3> QED BY <3>2
  <2> QED BY <2>1, <2>2, <2>3, <2>4
          DEF Next, Upload, RequestStep, Check, Respond, Crash, Start, ResumeSelect
<1> QED BY <1>1, AlwaysOnce, PTL DEF QuietSpec, SettledForGood

-----------------------------------------------------------------------------
(* Every admin who has found a text missing may still insert it, and no    *)
(* one else: with a copy there, none joins them.                           *)
Text == Content \cup {NoText}

Copies(c) == {d \in Doc : Exists(d) /\ doc[d].content = c}

Inserters(c) == {a \in Admin : req[a].pc = "insert" /\ Head(req[a].files) = c}

CopiesInv ==
  \A c \in Text :
    Copies(c) # {} => Cardinality(Copies(c)) + Cardinality(Inserters(c)) <= Cardinality(Admin)

(* What every step but an INSERT does: it adds no row, and lets only an    *)
(* admin who finds no copy go on to one.                                   *)
Fewer ==
  /\ \A d \in Doc : Exists(d)' => Exists(d) /\ doc'[d].content = doc[d].content
  /\ \A a \in Admin : req'[a].pc = "insert" => req'[a] = req[a] \/ ~Known(Head(req'[a].files))

LEMMA InsertOrFewer ==
  ASSUME IInv, Next, ~\E a \in Admin : Insert(a)
  PROVE  Fewer
<1> USE DEF IInv, SectionsInv, Rows, Requests
<1>1. ASSUME UNCHANGED doc PROVE \A d \in Doc : Exists(d)' => Exists(d) /\ doc'[d].content = doc[d].content
  BY <1>1 DEF Exists
<1>2. ASSUME NEW a \in Admin, Upload(a) PROVE Fewer
  <2>1. \A b \in Admin : req'[b].pc = "insert" => req'[b] = req[b]
    BY <1>2 DEF Upload
  <2> QED BY <1>1, <1>2, <2>1 DEF Fewer, Upload
<1>3. ASSUME NEW a \in Admin, Check(a) PROVE Fewer
  <2>1. req[a] \in Request
    OBVIOUS
  <2>2. \A b \in Admin : req'[b].pc = "insert" => req'[b] = req[b] \/ ~Known(Head(req'[b].files))
    <3>1. CASE Known(Head(req[a].files))
      BY <1>3, <2>1, <3>1 DEF Check, Request
    <3>2. CASE ~Known(Head(req[a].files))
      <4>1. req' = [req EXCEPT ![a].pc = "insert"]
        BY <1>3, <3>2 DEF Check
      <4>2. req'[a].files = req[a].files /\ \A b \in Admin \ {a} : req'[b] = req[b]
        BY <2>1, <4>1 DEF Request
      <4> QED BY <3>2, <4>2
    <3> QED BY <3>1, <3>2
  <2> QED BY <1>1, <1>3, <2>2 DEF Fewer, Check
<1>4. ASSUME NEW a \in Admin, Respond(a) PROVE Fewer
  <2>1. \A b \in Admin : req'[b].pc = "insert" => req'[b] = req[b]
    BY <1>4, NoRequestType DEF Respond
  <2> QED BY <1>1, <1>4, <2>1 DEF Fewer, Respond
<1>5. ASSUME NEW w \in Worker, WorkStep(w) PROVE Fewer
  <2>1. CASE UNCHANGED doc
    BY <1>1, <1>5, <2>1 DEF Fewer, WorkStep
  <2>2. CASE Store(w)
    <3> DEFINE d == work[w].at
    <3>1. CASE Storable(d, work[w].gone)
      <4>1. Exists(d) /\ \E n : doc' = [doc EXCEPT ![d] = [status |-> n, content |-> @.content,
                                                          batch |-> @.batch + 1]]
        BY <2>2, <3>1 DEF Store, Storable
      <4>2. \A e \in Doc : Exists(e)' => Exists(e) /\ doc'[e].content = doc[e].content
        BY <4>1 DEF Exists
      <4> QED BY <1>5, <4>2 DEF Fewer, WorkStep
    <3>2. CASE ~Storable(d, work[w].gone)
      BY <2>1, <2>2, <3>2 DEF Store
    <3> QED BY <3>1, <3>2
  <2>3. CASE MarkFailed(w)
    <3> DEFINE d == work[w].at
    <3>1. CASE Exists(d) /\ doc' = [doc EXCEPT ![d].status = Column(@, work[w].seen, "failed")]
      <4>1. \A e \in Doc : Exists(e)' => Exists(e) /\ doc'[e].content = doc[e].content
        BY <3>1 DEF Exists, DocRow
      <4> QED BY <1>5, <4>1 DEF Fewer, WorkStep
    <3> QED BY <2>1, <2>3, <3>1 DEF MarkFailed
  <2> QED BY <1>5, <2>1, <2>2, <2>3
          DEF WorkStep, Load, EndOfWork, Replace, ProcessingFails, Reload
<1>6. CASE DeleteDocument
  <2>1. PICK d \in Doc : doc' = [doc EXCEPT ![d].status = "deleted", ![d].batch = 0]
    BY <1>6 DEF DeleteDocument
  <2>2. \A e \in Doc : Exists(e)' => Exists(e) /\ doc'[e].content = doc[e].content
    BY <2>1 DEF Exists, DocRow, Stored
  <2> QED BY <1>6, <2>2 DEF Fewer, DeleteDocument
<1>7. CASE Crash
  <2>1. \A a \in Admin : req'[a].pc # "insert"
    BY <1>7, NoRequestType DEF Crash
  <2> QED BY <1>1, <1>7, <2>1 DEF Fewer, Crash
<1>8. CASE Start \/ ResumeSelect
  BY <1>1, <1>8 DEF Fewer, Start, ResumeSelect
<1> QED BY <1>2, <1>3, <1>4, <1>5, <1>6, <1>7, <1>8 DEF Next, RequestStep

LEMMA CopiesAreFinite ==
  ASSUME IsFiniteSet(Admin), NEW c
  PROVE  IsFiniteSet(Copies(c)) /\ IsFiniteSet(Inserters(c))
<1>1. IsFiniteSet(Doc)
  BY NumDocsAssumption, FS_Interval DEF Doc
<1>2. Copies(c) \in SUBSET Doc /\ Inserters(c) \in SUBSET Admin
  BY DEF Copies, Inserters
<1> QED BY <1>1, <1>2, FS_Subset

(* Fewer of both.                                                          *)
LEMMA SmallerIsBounded ==
  ASSUME IsFiniteSet(Admin), CopiesInv, NEW c \in Text,
         Copies(c)' \subseteq Copies(c),
         Copies(c)' # {} => Inserters(c)' \subseteq Inserters(c),
         Copies(c)' # {}
  PROVE  Cardinality(Copies(c)') + Cardinality(Inserters(c)') <= Cardinality(Admin)
<1>1. IsFiniteSet(Copies(c)) /\ IsFiniteSet(Inserters(c))
  BY CopiesAreFinite
<1> DEFINE S == Copies(c)
           T == Inserters(c)
           P == Copies(c)'
           Q == Inserters(c)'
<1>2. P \in SUBSET S /\ Q \in SUBSET T /\ IsFiniteSet(S) /\ IsFiniteSet(T) /\ S # {}
  BY <1>1
<1>3. Cardinality(S) + Cardinality(T) <= Cardinality(Admin)
  BY <1>2 DEF CopiesInv
<1> HIDE DEF S, T, P, Q
<1>4. /\ Cardinality(P) <= Cardinality(S) /\ Cardinality(Q) <= Cardinality(T)
      /\ IsFiniteSet(P) /\ IsFiniteSet(Q)
  BY <1>2, FS_Subset
<1>5. /\ Cardinality(S) \in Nat /\ Cardinality(T) \in Nat /\ Cardinality(P) \in Nat
      /\ Cardinality(Q) \in Nat /\ Cardinality(Admin) \in Nat
  BY <1>2, <1>4, FS_CardinalityType
<1>6. Cardinality(P) + Cardinality(Q) <= Cardinality(Admin)
  BY <1>3, <1>4, <1>5
<1> QED BY <1>6 DEF P, Q

LEMMA FewerIsBounded ==
  ASSUME IsFiniteSet(Admin), CopiesInv, Fewer
  PROVE  CopiesInv'
<1> SUFFICES ASSUME NEW c \in Text, Copies(c)' # {}
             PROVE  Cardinality(Copies(c)') + Cardinality(Inserters(c)') <= Cardinality(Admin)
  BY DEF CopiesInv
<1>1. Copies(c)' \subseteq Copies(c)
  BY DEF Copies, Fewer
<1>2. Known(c)
  BY <1>1 DEF Known, Copies
<1>3. Inserters(c)' \subseteq Inserters(c)
  BY <1>2 DEF Inserters, Fewer
<1> QED BY <1>1, <1>3, SmallerIsBounded

(* One more copy, one inserter less; or the first copy.                    *)
LEMMA InsertIsBounded ==
  ASSUME IsFiniteSet(Admin), IInv, CopiesInv, NEW a \in Admin, Insert(a)
  PROVE  CopiesInv'
<1> SUFFICES ASSUME NEW c \in Text, Copies(c)' # {}
             PROVE  Cardinality(Copies(c)') + Cardinality(Inserters(c)') <= Cardinality(Admin)
  BY DEF CopiesInv
<1> USE DEF IInv, SectionsInv, Rows, Requests
<1>1. PICK d \in Doc :
        /\ doc[d].status = "absent"
        /\ doc' = [doc EXCEPT ![d] = [status |-> "processing", batch |-> 0,
                                      content |-> Head(req[a].files)]]
        /\ req' = [req EXCEPT ![a] = [pc |-> "check", files |-> Tail(@.files),
                                      added |-> @.added \cup {d}]]
  BY DEF Insert
<1>2. /\ doc'[d].content = Head(req[a].files) /\ doc'[d].status = "processing"
      /\ \A e \in Doc \ {d} : doc'[e] = doc[e]
      /\ req'[a].pc = "check" /\ \A b \in Admin \ {a} : req'[b] = req[b]
  BY <1>1
<1>3. CASE c # Head(req[a].files)
  <2>1. Copies(c)' \subseteq Copies(c)
    BY <1>2, <1>3 DEF Copies, Exists
  <2>2. Inserters(c)' \subseteq Inserters(c)
    BY <1>2 DEF Inserters
  <2> QED BY <2>1, <2>2, SmallerIsBounded
<1>4. CASE c = Head(req[a].files)
  <2> DEFINE S == Copies(c)
             T == Inserters(c)
             P == Copies(c)'
             Q == Inserters(c)'
  <2>1. P = S \cup {d} /\ d \notin S
    BY <1>1, <1>2, <1>4 DEF Copies, Exists, Stored
  <2>2. Q = T \ {a} /\ a \in T
    BY <1>2, <1>4 DEF Inserters, Insert
  <2>3. IsFiniteSet(S) /\ IsFiniteSet(T) /\ T \in SUBSET Admin
    BY CopiesAreFinite DEF Inserters
  <2>4. S # {} => Cardinality(S) + Cardinality(T) <= Cardinality(Admin)
    BY DEF CopiesInv
  <2> HIDE DEF S, T, P, Q
  <2>5. Cardinality(P) = Cardinality(S) + 1 /\ Cardinality(Q) = Cardinality(T) - 1
    BY <2>1, <2>2, <2>3, FS_AddElement, FS_RemoveElement
  <2>6. /\ Cardinality(S) \in Nat /\ Cardinality(T) \in Nat /\ Cardinality(Admin) \in Nat
        /\ Cardinality(T) <= Cardinality(Admin)
        /\ S = {} => Cardinality(S) = 0
    BY <2>3, FS_CardinalityType, FS_Subset, FS_EmptySet
  <2>7. Cardinality(P) + Cardinality(Q) <= Cardinality(Admin)
    BY <2>4, <2>5, <2>6
  <2> QED BY <2>7 DEF P, Q
<1> QED BY <1>3, <1>4

LEMMA AlwaysBounded ==
  ASSUME IsFiniteSet(Admin)
  PROVE  Spec => []CopiesInv
<1>1. Init => CopiesInv
  BY DEF Init, CopiesInv, Copies, Exists, NoRow, Stored
<1>2. IInv /\ CopiesInv /\ [Next]_vars => CopiesInv'
  <2> SUFFICES ASSUME IInv, CopiesInv, [Next]_vars PROVE CopiesInv'
    OBVIOUS
  <2>1. CASE UNCHANGED vars
    BY <2>1, FewerIsBounded DEF vars, Fewer, Exists
  <2>2. CASE \E a \in Admin : Insert(a)
    BY <2>2, InsertIsBounded
  <2>3. CASE Next /\ ~\E a \in Admin : Insert(a)
    BY <2>3, InsertOrFewer, FewerIsBounded
  <2> QED BY <2>1, <2>2, <2>3
<1> QED BY <1>1, <1>2, Inductive, PTL DEF Spec

(* The look for a text and its INSERT are two statements, and no           *)
(* constraint is on the text (add_document): admins who upload the same    *)
(* one together may each store it, but never more copies than there are    *)
(* admins, whatever is uploaded, deleted and restarted.                    *)
THEOREM OneCopyPerAdmin ==
  ASSUME IsFiniteSet(Admin)
  PROVE  Spec => [](\A c \in Content :
                      Cardinality({d \in Doc : Exists(d) /\ doc[d].content = c}) <= Cardinality(Admin))
<1>1. ASSUME CopiesInv, NEW c \in Content
      PROVE  Cardinality(Copies(c)) <= Cardinality(Admin)
  <2>1. IsFiniteSet(Copies(c)) /\ IsFiniteSet(Inserters(c))
    BY CopiesAreFinite
  <2>2. /\ Cardinality(Copies(c)) \in Nat /\ Cardinality(Inserters(c)) \in Nat
        /\ Cardinality(Admin) \in Nat
        /\ Copies(c) = {} => Cardinality(Copies(c)) = 0
    BY <2>1, FS_CardinalityType, FS_EmptySet
  <2>3. Copies(c) # {} => Cardinality(Copies(c)) + Cardinality(Inserters(c)) <= Cardinality(Admin)
    BY <1>1 DEF CopiesInv, Text
  <2> QED BY <2>2, <2>3
<1>2. CopiesInv => \A c \in Content :
                     Cardinality({d \in Doc : Exists(d) /\ doc[d].content = c}) <= Cardinality(Admin)
  BY <1>1 DEF Copies
<1> QED BY <1>2, AlwaysBounded, PTL

LEMMA OneIsFew ==
  ASSUME \A a, b \in Admin : a = b
  PROVE  IsFiniteSet(Admin) /\ Cardinality(Admin) <= 1
<1>1. CASE Admin = {}
  BY <1>1, FS_EmptySet
<1>2. CASE Admin # {}
  <2>1. PICK a : Admin = {a}
    BY <1>2
  <2>2. IsFiniteSet({a}) /\ Cardinality({a}) = 1
    BY FS_Singleton
  <2>3. IsFiniteSet(Admin) /\ Cardinality(Admin) = 1
    BY <2>1, <2>2, Zenon
  <2> QED BY <2>3
<1> QED BY <1>1, <1>2

LEMMA AloneIsDistinct ==
  ASSUME \A a, b \in Admin : a = b, Rows, CopiesInv
  PROVE  NoDuplicates
<1> SUFFICES ASSUME NEW d \in Doc, NEW e \in Doc, Exists(d), Exists(e),
                    doc[d].content = doc[e].content, d # e
             PROVE  FALSE
  BY DEF NoDuplicates
<1> DEFINE c == doc[d].content
           S == Copies(c)
           T == Inserters(c)
<1>1. c \in Text /\ {d, e} \in SUBSET S
  BY DEF Rows, DocRow, Text, Copies
<1>2. IsFiniteSet(Admin) /\ Cardinality(Admin) <= 1
  BY OneIsFew
<1>3. IsFiniteSet(S) /\ IsFiniteSet(T)
  BY <1>2, CopiesAreFinite
<1>4. Cardinality(S) + Cardinality(T) <= Cardinality(Admin)
  BY <1>1 DEF CopiesInv
<1> HIDE DEF c, S, T
<1> DEFINE others == S \ {d}
<1>5. IsFiniteSet(others) /\ Cardinality(others) = Cardinality(S) - 1 /\ others # {}
  BY <1>1, <1>3, FS_RemoveElement
<1> HIDE DEF others
<1>6. /\ Cardinality(S) \in Nat /\ Cardinality(T) \in Nat /\ Cardinality(Admin) \in Nat
      /\ Cardinality(others) \in Nat /\ Cardinality(others) # 0
  BY <1>2, <1>3, <1>5, FS_CardinalityType, FS_EmptySet
<1> QED BY <1>2, <1>4, <1>5, <1>6

(* Where one admin uploads, once the resume task has read its list: a      *)
(* document is processed by one task, its text is stored once, and one     *)
(* that failed has no sections. (One copy per admin is one copy.)          *)
THEOREM EachTextIsProcessedOnce ==
  ASSUME \A a, b \in Admin : a = b
  PROVE  QuietSpec => []ProcessedOnce
<1>1. IsFiniteSet(Admin)
  BY OneIsFew
<1>2. Spec => []CopiesInv
  BY <1>1, AlwaysBounded
<1>3. QuietSpec => Spec
  <2>1. [Next /\ Quiet]_vars => [Next]_vars
    OBVIOUS
  <2> QED BY <2>1, PTL DEF QuietSpec, Spec
<1>4. IInv /\ Once /\ CopiesInv => ProcessedOnce
  BY OnceIsSafe, AloneIsDistinct DEF ProcessedOnce, IInv, SectionsInv
<1> QED BY <1>2, <1>3, <1>4, AlwaysOnce, PTL
=============================================================================
