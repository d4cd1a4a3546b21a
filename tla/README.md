# RAPT: verification project

RAPT answers customer-support tickets with a human in the loop. A business's
customer (through a public form) or its staff file a ticket; an *agent graph*
labels it, searches the knowledge base, looks up the order, drafts a reply and
decides whether to escalate it; a reviewer then approves the draft, edits it, or
asks for another run. Nothing is sent without a reviewer. The system is a FastAPI
backend over PostgreSQL (`src/backend`), a React application (`src/frontend`) and
a Docker deployment (`src/deploy`).

This directory holds TLA+ modules of the parts whose correctness depends on the
order of events, TLC configurations that check them, and TLAPS proofs. The
modules are translated from the code; `PROJECT.json` gives the source lines of
every definition.

## 1. Inventory

| Component | State it keeps | Operations | Made hard by | What makes it correct |
|---|---|---|---|---|
| **Ticket lifecycle** (`agents/runner.py`, `graph.py`, `nodes.py`, `recovery.py`, `services/tickets.py`, `agents.py`, `reviews.py`) | rows `tickets`, `draft_responses`; background tasks in the API process, each with an ORM session that keeps what it loaded | create, run (five nodes, one commit each), rerun, approve, edit, resume at start | runs, requests and the resume task interleave at every await; stale session values; node failures; restarts | no ticket is forgotten; none reaches the queue without a flag; a resolved ticket has an approved draft; one run per ticket; the reviewer approves what he saw and signs it |
| **Review desk** (`frontend/.../TicketDetail.tsx`, `ReviewPanel.tsx`, `DraftEditor.tsx`) | the page a reviewer has open | open a ticket, approve, edit, rerun | the page is older than the row | the server used by these clients keeps the promise of `ReviewBoard` |
| **Drafter chain** (`agents/drafter.py`) | the chain the settings build; per call: the attempts so far | draft through each link of the chain, call a busy one again, mask contact details, restrict by tenant | providers that fail, rate-limit, answer nothing | the first usable draft wins, every attempt is recorded, no provider outside its tenants is called |
| **Triage corrections** (`services/reviews.py` correct_triage, `frontend/.../TriageCard.tsx`) | `corrected_*` columns | set, change or clear a correction; collect the corrections as training rows | compares with labels a rerun may replace; two requests of one ticket | a stored correction is signed, differs from the label it corrects, and is exported with no older version than the one that predicted that label |
| **Help documents** (`services/knowledge_documents.py`, `routers/knowledge_base.py`) | rows `kb_documents`, `knowledge_base` | upload, paste, process in the background, resume at start, delete | processing races deletion and resumption | a ready document has its sections; a deleted one none; every document settles once |
| **Entries, sections, search** (`services/knowledge_base.py`, `ml/embeddings.py`, `ml/text_features.py`) | the same rows edited one by one; a cache of embeddings shared by threads | add, edit, delete, search, embed | two edits of a row, a deletion under another, a cache that is cleared while it is used | what search compares is what it shows; counts match; nobody waits for ever |
| **Contact form and customers** (`services/contact.py`, `routers/public.py`, `settings.py`, `customers.py`) | rows `tenants`, `customers`, `tickets` | find or create the customer, file a ticket; switch the form; add customers; delete or reseed a tenant | two first messages of one customer; the operator's script under a message | one customer per address; no ticket without its customer; only a crossing loses a message |
| **Accounts, sign-in, team** (`core/security.py`, `core/deps.py`, `routers/auth.py`, `services/team.py`, `scripts/tenants.py`) | rows `users`, signed cookies | sign in and out, invite, change, deactivate, reset | authentication and work are two transactions; a cookie outlives a change | an admin remains; a reset signs out; no overlap grants anything |
| **Rate limiter** (`core/ratelimit.py`) | times per key, in memory | allow, reset | window edges; two limiters in a row | exactly the limit per window |
| **Escalation and triage inference** (`agents/escalation.py`, `ml/weak_labels.py`, `ml/store.py`) | none | rules over patterns, tone, labels, confidences, amounts | rules that cancel each other; class weights | a text that matches more is labelled no lower for training; nothing at stake goes unflagged |
| **Splitting of documents** (`knowledge/chunking.py`) | none | blocks to sections | limits, headings that come back | no word lost, sections fit, titles distinct |
| **Export and training** (`scripts/export_feedback.py`, `ml_training.py`, `train_*.py`, `ml/store.py`) | CSV files, bundles, metrics, the served version and the API's copy | export, train, save, serve, the signal to retrain | scripts of a timer and of people on the same files, killed anywhere | whole exports are read; a version stays what it is; the signal counts right |
| **Backups** (`deploy/backup-loop.sh`, `backup-now.sh`) | dump files | dump nightly or by hand, delete old ones | a failure or a stop during a dump | a night's dump is complete and kept its days |
| **Tenancy** (`core/tenancy.py`, `core/admin_db.py`, migration `e4b8d2a9c6f1`) | the transaction's `app.tenant_id`; row-level security | scope a session; same-tenant foreign keys | one connection pool for all tenants | no row crosses tenants |
| **Metrics, agent trace, order of the queue** (`services/metrics.py`, `models/agent_log.py`, `services/reviews.py`) | rows that runs append | count, group, sort | two approved drafts of one ticket | the shares are of what they say |
| **Text extraction, data preparation, seeding, web pages** | none of their own | parse, build data sets, fill a database, show and send | libraries and one-off scripts | |

Components interact through the database rows, through FastAPI background tasks
(a request's task begins after its response is sent), through two start-up tasks
(`main.py` `lifespan`: resume documents, resume runs) that share the event loop
with requests, and through the pages, which hold what they last fetched.

## 2. Plan

Done:

1. `TicketLifecycle` (the core), `ReviewDesk` and `ReviewBoard` (its use by the web
   application, and the abstract specification), `TicketLifecycleProofs` (both halves).
2. `DraftChain` and `FirstUsable` (the links of a draft, retries and records, and
   what they promise), `DraftChainProofs`.
3. `KnowledgeDocuments` (upload, processing, resumption, deletion),
   `KnowledgeDocumentsProofs`.
4. `TriageCorrections` (corrections against reruns, and their export),
   `TriageCorrectionsProofs`.
5. `KnowledgeEntries` (sections and entries changed one by one, and the cache of
   embeddings), `KnowledgeEntriesProofs`. It takes over where `KnowledgeDocuments` stores
   the sections.
6. `TeamAccounts` (sign-ins, sessions, the team page, the operator's commands),
   `TeamAccountsProofs`.
7. `ContactForm` (messages, customers, the operator's scripts), `ContactFormProofs`.
8. `TrainingLoop` (exports, training runs, versions, the signal to retrain), with its
   proofs in `TriageCorrectionsProofs`: it learns from what that module stores.
9. The small parts that share no state, `RateLimiter`, `EscalationRules`,
   `ClassWeights`, `Chunking`, `Backups` and `Tenancy`, which `Rules` puts side by side for
   one run (`MCRules`), and `RulesProofs`.

10. Proofs of what remains true where people do not wait for each other:
    corrections that overlap (`OverlapsKeepTheExport`) and admins who upload one text
    together (`OneCopyPerAdmin`).

Next: the trace and the metrics, as far as anything in them depends on an order of
events.

The set of runs stays at a dozen, so that all of them are read: properties about
one hazard are named parts of one conjunction, and a difference between code and
comment that is clear without a run is told in section 5.

## 3. Modules

### TicketLifecycle

The rows of `tickets` (the columns a run, a rerun or a review changes) and
`draft_responses`; the agent runs alive in the API process; each reviewer's page
and request in flight; the resume task. A step is what one session does between
two awaits on the database: one SELECT, or the statements of one COMMIT. So two
requests, two runs or a run and the resume task interleave at every await, as
they do in one event loop over READ COMMITTED transactions.

| Variable | In the code |
|---|---|
| `ticket` | `tickets`: status, category and urgency (`triage`: both null or both set), `needs_escalation` (`flag`), `escalation_reason` (`reason`: none, the rules', a failure's) |
| `drafts` | `draft_responses` of each ticket by `created_at`: approved, `reviewer_id`, `edited_text` (the author stands for the text) |
| `run` | `run_agent_graph` tasks: where they are, and the ticket as their session holds it |
| `desk` | a reviewer's open page (with the draft it showed) or request between two awaits |
| `api`, `queue` | the process, and the rows `resume_unfinished_runs` has still to run |

Sessions are made with `expire_on_commit=False` and SQLAlchemy writes only the
columns that differ from what it loaded. `Flush` and `FlushDraft` say exactly
that: a commit leaves other sessions' writes in the columns this session did not
change. This is what makes a stale run reopen a resolved ticket, and what lets an
edit keep its text under another reviewer's name (section 5).

| Action | Code |
|---|---|
| `CreateTicket`, `ScheduleRun` | `create_ticket` and the router's `add_task`; between them the response is sent, and a crash loses the task |
| `Begin`, `MarkInProgress` | `run_agent_graph` up to its first commit |
| `Triage` ... `Escalation` | one node with `logged`'s commit; `NodeFails` is `logged`'s except branch, for any node |
| `Finish`, `Reload`, `EndFailed` | the end of `run_agent_graph`, and its exception handler |
| `ReadForRerun`, `CommitRerun` | `prepare_rerun` |
| `ReadForApprove`, `ReadDraft`, `CommitApprove` | `_pending_draft` (two SELECTs) and `approve` |
| `Crash`, `Start`, `ResumeSelect`, `ResumeNext` | the process ends; the container is restarted; the start-up task |

### ReviewDesk and ReviewBoard

`ReviewDesk` is the same server used one request at a time: the rerun button only
on a ticket awaiting review (`TicketDetail.tsx`), one reviewer's page or request at
once, nothing before the resume task has read its list. The server's actions are
those of `TicketLifecycle`, unchanged. What holds here and fails there is what the
code leaves to its clients, so the two modules together say which guarantees rest
on the server and which on the usage.

`ReviewBoard` is the abstract specification: a ticket is submitted, delivered to
reviewers, sent back, and resolved once, for good, by the reviewer who answers
for it. `ReviewDesk` implements it under the mapping `Stage` and `Answerer`, with
crashes, failures, resumed runs and refused requests as stutters: `BoardInOrder` is
its steps, `BoardKept` adds that what is worked on is delivered.

### KnowledgeDocuments

| Variable | In the code |
|---|---|
| `doc` | `kb_documents`: status and text (`content_hash`); `batch`: which attempt's sections are in `knowledge_base` (0: none). Deleted and not yet inserted rows are kept apart, so a deletion can be told from a row that never was |
| `req` | an admin's upload request: the files left, and those accepted so far |
| `work` | background work: the tasks of one response, which Starlette runs one after the other, or the resume task. `queue` is a set because both work by age; `seen` is the status the session loaded; `gone` the batch its open transaction deletes |
| `api` | the process, with the time before the resume task has read its list |

| Action | Code |
|---|---|
| `Upload`, `Check`, `Insert`, `Respond` | the router's loop over files, `add_document`'s duplicate check and its insert with a commit, the response with its background tasks |
| `Load`, `Replace`, `Store` | `process_document`: its SELECT; splitting, embedding and the DELETE of earlier sections, which others see at the commit; the INSERTs and the commit, refused by the foreign key if the document is gone, and by the unique position if another batch is there |
| `ProcessingFails`, `Reload`, `MarkFailed` | its except branch, with the commit that raises `StaleDataError` when the row was deleted meanwhile; that error ends the whole work |
| `DeleteDocument` | the row and its sections in one transaction |
| `Crash`, `Start`, `ResumeSelect` | as in `TicketLifecycle` |

Texts are values, `Good` are those with an acceptable number of sections, and an
attempt on a good text may fail too (the embedding model, the database). `Spec`
lets requests overlap the resume task, and two admins overlap each other.
`QuietSpec` has no upload before the resume list is read; the code assumes as much
where it says that what it finds unfinished is orphaned, and the properties about
a single attempt and the end of processing are stated under it.

### DraftChain and FirstUsable

One call of the drafter: the chain `_default_drafter` builds from any settings
(keys, a second Groq model, a pinned or the offline drafter), and `ChainDrafter`'s
loop over it. What a call comes back with is *usable*; *busy* (a status worth another
call) or *timeout*, which Groq and Cerebras are called again after (`Waits`);
*unreachable*, or *bad* (any other status, or text that will not do); or *garbled* (a
success that cannot be read, such as a body that is not JSON).

| Action | Code |
|---|---|
| `Skip` | a link restricted to tenants this ticket's is not among |
| `Ask`, `Answered` | `link.draft`, with the retries of Groq and Cerebras; `CallAgain`, `MoveOn`, `Drafted`, `Escape` are what may follow an answer |
| `Exhausted` | `DraftError` with all attempts |
| `WritePlaceholder` | `OfflineDrafter` |

`MoveOn` is what a `DraftError` leads to, and `Escape` any other exception: `Uncaught` has
what no drafter turns into a `DraftError`, which is a garbled answer, and a timeout or
a connection that fails in the SDK of Gemini (`except genai_errors.APIError` catches
only answers with an error status). The SDK of Claude raises `APIConnectionError` for
both, which is caught. The masking of contact details and the prompts are left out:
they change no decision here.
`FirstUsable` is the abstract specification: options are considered in order, and
the first that will do is taken. `DraftChain` implements it, over the links the
tenant may use: every step does (`TakesInOrder`), and unless an exception escapes the
chain, it comes to an end (`TakesFirstUsable`).

### TriageCorrections

One ticket's labels, the reviewers' `corrected_*` columns, its predictions and
the pages open on it. `corrected_at` is the number of predictions at that time,
which is all that any property needs of the clock. A run's only step that matters
here is its triage commit (`Triage`), which relabels the ticket and adds a
prediction; `Restart` loses a run and starts it again. `OpenForm`, `Cancel`,
`Submit` and `CommitCorrection` are `TriageCard.tsx` and the two halves of
`correct_triage`: the SELECT, and the assignments with the commit, which writes
the columns that differ from what its session loaded (`Column`).

`TurnSpec` has one form or request open at a time, and no rerun while one is. With
requests that overlap (`Spec`), a commit may leave one reviewer's labels with
another's name, or a correction that agrees with a label set meanwhile: the
server has no version check, and this is left to its users.

`SelectTickets` and `SelectPredictions` are the two SELECTs of `collect`, between which
anything else may commit; one export after another, with `export` what the latest has
of this ticket. `since` notes which prediction its label was, for the property.

### KnowledgeEntries

One document whose sections are stored, and entries added one by one, in one
tenant. A text is a title with a content, and the vector of a text is the text:
so that a vector that does not fit its text can be told.

| Variable | In the code |
|---|---|
| `row` | `knowledge_base`: text and embedding of each entry; `overtaken` notes that an edit began from a text that was replaced before it was stored |
| `document` | `kb_documents`: is it there, and `section_count` |
| `cache` | the keys of `_EMBED_CACHE` |
| `request` | requests between two awaits, or the thread of `asyncio.to_thread` that embeds for them |

| Action | Code |
|---|---|
| `Create`, `Update`, `EmbedOnly` | `create_entry`, `update_entry` up to their call of `embed`; a search; the batch of a new document |
| `Check`, `Encode`, `Stack` | `embed()`: what is missing (and the clearing of a full cache), the model, the rows of the result |
| `StoreNew`, `StoreEdit` | the commit; an UPDATE holds the columns that differ from what was loaded (`Merged`), and the vector always |
| `Delete`, `Flush`, `Count`, `Commit` | `delete_entry`, `refresh_section_count` and the commit |
| `Drop`, `Lock`, `Cascade` | `delete_document`: the row, then its sections |
| `BreakDeadlock` | PostgreSQL (`deadlock_timeout`) |

### ContactForm

| Variable | In the code |
|---|---|
| `tenant` | the business: there, and is its form on |
| `customers` | how many rows of `customers` have an address, so that two can be told from one |
| `tickets`, `message` | the stored tickets, and each message with the statement its request is at |
| `script` | `delete_tenant` or a reseed with `--reset`, and what it has deleted and not committed |

`Find`, `Honeypot`, `Admit`, `Lookup` and `InsertCustomer` are statements of
`send_message` and `_customer`, with the unique constraint as `Taken`. The INSERT of the
ticket takes its two foreign keys in the order they were created (`ReferToTenant`,
`ReferToCustomer`); then come the COMMIT (`Store`), and the refresh with the receipt
(`Reply`), which may fail while the ticket is stored: such a message, or one whose
request a restart ends there, is `unanswered`, not `failed`. Rows that are deleted or
inserted and not committed make whoever needs them wait (`Deleted`, `Inserted`), and
rows that are referred to make who deletes them wait (`HoldsTenant`, `HoldsCustomer`).
A message that holds the tenant and waits for a customer whose deletion waits for the
tenant is a deadlock: `BreakDeadlock` ends either. `Switch`, `AddCustomer` are the
staff's; `DeleteTickets`, `DeleteCustomers`, `EndScript` the operator's; `Restart` ends
every request. What a limiter decides is any outcome.

### TeamAccounts

| Variable | In the code |
|---|---|
| `user` | `users`: role, activity, password and `password_changed_at`. A password is the time it was made, so the newest is the largest |
| `token` | the cookies people hold: whose, `iat`, and (for the properties) the password they rest on |
| `signing`, `request` | a sign-in between its verification and its token; a request of an admin, or a command of the operator, between its two transactions |
| `clock` | microseconds; each reading advances it |
| `lapsed` | a commit made an admin none, for the operator or for someone who was none himself any more |

`Find` and `Enter` are `login`; `Leave` is logout or expiry; `Accepted` is
`get_current_user`; `Authenticate` and `RunScript` begin an invitation, change or
reset, `Load` and `Commit` are its work, with `Column` for the columns a session
writes. Passwords that are wrong and requests that a limiter refuses are no steps.

### TrainingLoop

One of the two classifiers, as they share only the file. `file` and `tmp` are
`corrections.csv` and the file it is written to first, `exporter` and `trainer` the
scripts at the statement they are at, `bundle` and `metrics` the artifacts of the
version in the repository and of a new one, `served` the setting, `cached` the
bundle the API has loaded. An export without corrections is a file too, with its
header; only a file that another export has moved is missing. `Collect`, `Open`, `Close`,
`Replace` are the export, with a writer that keeps the file it opened when another moves it; `Start`,
`ReadFeedback`, `Fit`, `OpenBundle`, `CloseBundle`, `WriteMetrics` a training run; `Kill`
stops any script anywhere; `Serve` and `Load` are the operator and the API. A changed
correction is another correction. `Signal` is `served_model_status`.

### RateLimiter, EscalationRules, ClassWeights, Chunking, Backups, Tenancy

`RateLimiter` has the two limiters in a row that stand before the contact form and
before sign-in, with their deques (`hits`, `groupHits`) and, for the properties, all
that they recorded (`log`, `groupLog`). `EscalationRules` is a text that is written
(`Write`: what it matches it goes on matching, but shouting is a share of its words and
the compound score one of the whole, so that either may come and go) until the models
are asked about it (`Predict`, with any answer): the weak labels of the training set,
the label and confidence of a bundle from probabilities and weights, and the
escalation rules. `ClassWeights` is the loop of `tune_class_weights`, a setting at a time;
a score is a number of small steps, of which `Grain` make one fourth digit, and the
comparison is of what it is rounded to (`Rounded`). `Backups` has the nightly loop (`NextDay`, `DumpEnds`,
`Move`, `DumpFails`, `Prune`), dumps by hand (`BackupNow`, `EndByHand`) and the container (`Stop`, `StartLoop`).

`Chunking` is `chunk`, an iteration of a loop at a time: `ReadBlock` is one of the loop
over blocks, with the group a heading opens (`Open`) and the first lines of
`_split_long` (`Begin`); `TakeUnit` and `LastUnits` are its loop over units, `Cut` and
`AddPiece` the loop that cuts what is too long by itself, each with the packing of
`chunk` (`Add`), and `Finish` is the end. The code runs one loop after the other, over
lists; the model sends each piece on at once, which gives the same sections, since
each list is read once and in its order. A character is its place in the document, so
that a lost, repeated or displaced one shows. Where a text has its tokens is up to
the tokenizer (`BeginsToken`, any operator): they may be spread unevenly, and those of a
part need not be those it had in the whole. `cut` marks a section that a part which
was cut by characters begins. A heading
is its words, with `(part 2)` as one of them, so that a heading which reads like a part,
or like a path of two, can be told.

| Variable | In the code |
|---|---|
| `blocks`, `read` | how far the text has been read |
| `headings` | `headings`; the group's title is in `section` |
| `sections`, `section` | `sections` before they are numbered, and `title` with `current` |
| `ends`, `at`, `unit` | `units` not yet taken, and `current` of `_split_long` |
| `piece` | `piece` |

`Rules` is the composition: a behaviour is about one of the six, and the others stay as
they began. `MCRules` has the values for TLC.

`Tenancy` is what the other modules take for granted, each being about one tenant.
`rows` are those of all tenant tables (their tenant and one reference), `setting` is
`app.tenant_id` on each connection, and `sessions` are those of requests, tasks and
scripts, with the connection of their transaction and, for the properties, the rows
they were ever shown. `OpenSession` and `CloseSession` are `tenant_session` and its end;
`BeginTransaction` takes any free connection and is `_scope_transaction`; `Visible` is the
policy `tenant_isolation`, or for the owner the filter `tenant_of`; `Insert` has the
column default, NOT NULL and the composite foreign key, `DeleteRow` the references
that keep a row. Each transaction ends with `EndTransaction`, after which PostgreSQL
has dropped the setting (`After`): sessions never reset it themselves.

## 4. What is checked

| Run | Bounds | Shows |
|---|---|---|
| `lifecycle` | 1 ticket, 1 reviewer, 2 run slots, 1 rerun, 1 crash, fair | `NoOrphan`, `QueueFlagged`, `ResolvedIsApproved`, `ReachesReview`. One ticket is enough: no action reads two tickets but `ResumeNext`, which only orders them. Two runs alive at once give every race between runs |
| `review_desk` | 2 tickets, 2 reviewers who take turns, 2 run slots, 2 reruns, 1 crash, fair | `RunsAreSingle`, `ReasonMatchesFlag`, `ApprovesWhatWasSeen`, `OneSignedAnswer`, and `BoardKept`: the refinement of `ReviewBoard` with its liveness |
| `documents` | 2 documents, 2 texts, 2 admins, 2 uploads of one file, 3 work slots, 1 deletion, 1 crash | `ReadyIsIndexed`, `DeletedIsGone` with overlapping attempts at one document |
| `documents_settle` | 4 documents, 2 texts, 1 admin, 2 uploads of up to two files, 1 crash, fair, quiet start | `ProcessedOnce` (one attempt at a time, no text twice, a failed document not indexed) and `Settles` (each comes to an end, for good) |
| `draft_chain` | every setting, 3 calls per link, any answer, fair | `CallsAsRecorded`, `FailsOnlyIfAllDo`, `TakesFirstUsable`: the refinement of `FirstUsable` with its end |
| `corrections` | 2 categories, 2 urgencies, 2 reviewers who take turns, 3 predictions | `Signed`, `AgreesOnlyIfRelabelled`, `ExportNamesItsModel`, `TakesEffect` |
| `entries` | 2 sections, 1 other entry, 2 titles and 2 contents, 1 query, 2 requests, a cache of 2, batches of 2, fair | `IndexConsistent` (types, the count, the size of the cache), `VectorOfText`, `RequestsAnswered` |
| `embed_cache` | as `entries` | `EmbedsEveryText` fails (section 5) |
| `contact` | 2 messages, 3 spellings of 2 addresses, 2 scripts, fair | `CustomersConsistent` (types, one customer per address, a customer for each ticket), `LostOnlyIfCrossed`, `MessagesAnswered` |
| `team` | 3 people of whom 2 admins, 2 requests at once and in all, 2 sign-ins | `SessionsConsistent` (types, a reset signs out, a new password works), `AdminRemains`, `GrantsAreAsked` |
| `training` | 2 corrections, 2 exports, 2 training runs, 2 versions, both models, kills anywhere | `ModelsConsistent` (types, versions stay, metrics describe their bundle), `ReadsWholeExports`, `SignalIsExact` |
| `rules` | limits 2 and 3 in a window of 2, 4 ticks, 2 visitors of 1 business; 6 patterns, probabilities of 0 to 60 %, weights 1, 1.5, 2; 3 settings of 4 scores (rounded to 0, 0, 1 and 2, two of them from halfway); 4 of 10 blocks, 5 tokens, eight characters of a token each and then eight within the last; 5 days, kept 2, 1 manual dump; 2 tenants, 2 sessions with 2 connections, a script with its own, 2 rows | `LimitIsExact`, `StakesAreFlagged`, `MoreIsNoLess`, `TunedAsPromised`, `SectionsCarryAll`, `DumpsAsPromised`, `TenantsApart`, and the types |

The bounds are constants of the modules (`NumTickets`, `Run`, `Reviewer`,
`MaxReruns`, `MaxCrashes`; `NumDocs`, `Worker`, `MaxUploads`, `MaxFiles`,
`MaxDeletes`; `Attempts`; `MaxPredictions`; `MaxMessages`, `MaxScripts`; `MaxRequests`,
`MaxSignIns`; `CacheMax`, `Batch`; `Horizon`; `Settings`; `Blocks`; `Days`, `MaxManual`)
and appear in the guards that use them. Two documents with the same text and one
with another are the cases the duplicate check tells apart; three work slots are
the tasks of two responses beside the resume task; two labels of a kind let a
correction agree, disagree and be overtaken by a relabelling, for which the third
prediction is needed. Two requests on an entry are every pair of statements that
can cross, and the cache starts with any content, so that it is full at once. Two
messages of one address, in two spellings, with one of another beside a script
that is itself beside them; two admins who change each other, and a third person
to be made an admin. Two exports with two training runs are the overlaps a timer
and a person make. The six patterns are one or two of each kind that counts
differently, and two weak ones with a medium one are needed for the sums; a window
of 2 has hits at both its edges and one within; four blocks let a heading come back
after a deeper one, and the ten blocks are texts that fit, that are split at
sentences or at words, and that are cut, also where their tokens lie at one end
(and the part comes out too long), below headings of which one comes back, one
is the document's title and one reads like a part. A connection that serves one session after
another, of the other tenant or of none, while a second one is in use, is what two
sessions and two connections give; two rows are one that refers to the other.

TLC checks for deadlock in `corrections`, where something is always possible. Elsewhere
the bounded requests, messages, reruns and crashes are used up in the end, or the
draft is done, and nothing is left to do; that nobody waits for another for ever is
what the liveness properties say (`RequestsAnswered`, `MessagesAnswered`). Symmetry (reviewers,
admins, slots, labels, corrections, scripts) is used only in runs without liveness.

Fairness. The steps of runs, requests and background work are weakly fair because
the event loop resumes every task whose await is over (providers have timeouts,
and a failing node or attempt is a step too); in `DraftChain` `Next` is, for the
same timeouts and bounded waits. A statement that waits for a row is not enabled
until the row is free, and `BreakDeadlock` is fair because PostgreSQL looks for
deadlocks by itself. The operator's script, once begun, runs on. `Start` is weakly
fair because the API container has `restart: unless-stopped`
(`deploy/docker-compose.yml`), `ResumeSelect` and `ResumeNext` because `lifespan` starts
that task. No fairness is given to reviewers, admins, visitors, failures or
crashes.

Each property has a mutant: a definition of the model changed the way a bug in
the code would change it, under which TLC finds the property violated. They are
the `Mutant...` operators beside the definitions they change; nothing else uses
them.

## 5. Where the code and its comments differ

`embed_cache` is a run in which TLC finds the claim violated. `embed()` promises one
row per text; it lists what its cache lacks and, when that does not fit, clears the
whole cache, the texts of this very call that it had found in it included. Only the
missing ones are put back, and the read of the others is a `KeyError`. With a full
cache (50 000 texts), a document that shares one section with what was embedded
before ends `failed`. A clear by another thread in between does the same.

The other differences were met while modelling. The properties are stated so as to
leave out exactly these cases (`crossed`, `lapsed`, `overtaken`, `drifted`, `shared`
mark them), or hold under a specification that has none of them (`DeskSpec`, `TurnSpec`,
`QuietSpec`). Such a property shows that nothing else leads there; it is no evidence that
the case itself cannot happen, and the `note` of the hazard in `PROJECT.json` says so.

- `prepare_rerun` is meant to refuse a second request "instead of starting a parallel
  run"; its read and its commit are two statements, and it lets a rerun of a ticket
  that is still `new` through (`DeskSpec` has no such request).
- A run that is alive while its ticket is resolved reopens it; a second approved
  draft breaks "one per resolved ticket", and of two edits at once one may keep its
  text under the other's name (`OneApproval` and `EditIsSigned` are stated for
  `DeskSpec`).
- A document deleted while its failure is being recorded ends the work behind it: the
  handler's own commit raises, "one bad file doesn't stop the others" fails, and the
  others stay `processing` until a restart (`documents_settle` has no deletion).
- `ChainDrafter` "tries each provider in order and returns the first usable draft"
  (`drafter.py:309`), but goes on only after a `DraftError`. A timeout or a failing
  connection of Gemini (`:174-176`), or a success of any provider that cannot be read
  (`:262`), raises past it: the providers that remain are not asked, the record of
  attempts is lost, and the run fails (`Escape`). `FailsOnlyIfAllDo` says what is left of
  the promise then: those before were asked.
- Deletions of two sections that cross leave a `section_count` that counts one of
  them (`CountIsExact`). `seed_knowledge_base --reset` leaves it stale, too.
- "The model version behind each ticket's current label is its newest prediction"
  (`export_feedback.py:89`) is true of the database, not of what the export has read:
  labels and predictions come from two SELECTs under READ COMMITTED, and a rerun's
  triage that commits in between gives the old label with the new version.
  `ExportNamesItsModel` says what is left: the version is that of the label, or newer.
- Edits of one entry that cross are merged by column, with the vector of the later:
  search then compares a text that is not shown (`VectorOfText`).
- Sections are numbered "so titles stay distinct"; a heading that comes back next to
  one that reads like its part (`Returns` twice, and once `Returns (part 1)`) gives two
  sections of one title (`ReadsAsPart`).
- What is still too long by itself is cut by characters, in proportion to its tokens
  (`chunking.py:44`), and what is cut off is not counted again. Where the tokens lie
  closer together at its beginning it has more of them than the limit, and nothing
  bounds by how much: "each within max_tokens" (`chunking.py:24`) fails for such a part,
  of which the end may then be past what is embedded. It holds for every other
  section (`Fits`).
- "Maximise macro-F1 [...]; if none reach it, the highest recall wins"
  (`ml_training.py:102`) is true of scores rounded to four digits (`:112`): the setting kept
  may have less than the maximum, by one fourth digit at most, while the minimal
  recall is compared as it is (`TunedAsPromised`).
- "Tickets whose run failed before it, don't count" (`services/metrics.py:5`), and
  `needs_escalation` is "null until the Escalation Agent runs" (`models/ticket.py:48`); but
  a failed run sets it, too (`runner.py:54`), and the rate counts every ticket that has
  it (`metrics.py:50`), so that a ticket which failed before its rules ran counts as
  decided, and as escalated. `QueueFlagged` tells the two apart: what has no draft carries the
  flag of a failure, not of a decision.
- A message whose refresh fails after the commit (`contact.py:62`), or whose request a
  restart ends there, is a ticket although its visitor gets an error or nothing
  (`Reply`). Without a restart its agent run is not begun either: the ticket waits for
  the resume task of the next start.
- A message that the limiter of the business refuses has used up one of its
  visitor's. The limiters are in memory and forget everything at a restart.
- "Password reset signs everyone out" (`models/tenant.py:38`): a sign-in that has verified
  the old password before the reset commits gets its token after the reset's time,
  and keeps it (`crossed` in `SessionsConsistent`).
- Two admins who upload one text at once both find it missing, and both store it
  (`ProcessedOnce` has one admin; `OneCopyPerAdmin` bounds the copies).
- Two admins who change each other at once, each authenticated before the other's
  commit, leave a tenant without an admin (`AdminRemains`).
- Every export writes the same temporary file, so two at once may publish half of
  one (`ReadsWholeExports`).
- The signal to retrain compares counts: what was cleared and what was added cancel
  out. The urgency script counts the rows of the file when it ends, used or not
  (`SignalIsExact`).
- Two training runs of one new version both pass the check that it is new
  (`VersionsStay`).
- `backup-now.sh` leaves what it wrote when it fails, under the name of a dump; the
  nightly loop deletes old dumps also in nights whose dump failed, so that after
  `KEEP_DAYS` such nights none is left; a `.partial` of a stopped container stays.

## 6. What is proved

`TicketLifecycleProofs`, for every number of tickets, reviewers, run slots,
reruns and crashes, from the assumptions named in `TicketLifecycle` (the bounds
are natural numbers, `HasOrder` a set of tickets, `Nobody` not a reviewer):

- `TypeCorrect`: `Spec => []TypeOK`, by one lemma per kind of step.
- `NothingIsForgotten`: `Spec => []NoOrphan`. `NoOrphan` alone is not inductive: a
  run whose exception handler loaded a ticket that was already `awaiting_review`
  will not write the status again (the ORM sees no change), so it moves nothing
  on. `OrphanInv` counts only runs that will (`Mover`), and adds that inside the
  graph a session holds `in_progress`, so that its last commit does write.
- `QueueIsFlagged`: `Spec => []QueueFlagged`. `FlagKnown` follows the flag from the session
  that set it to the row, and from the row to the request that approves: a session
  that holds one implies the row has one. `Undrafted` says that before the first draft
  the rules have not run, so that nothing but a failure's flag is in the row or held
  by a run.
- `ResolvedHasApproval`: `Spec => []ResolvedIsApproved`. The invariant adds that the
  draft a request is about to approve exists; a run never writes `resolved` over a
  row that is not, and drafts are only appended.

The second half is about `ReviewDesk`, with the same generality, and so about what the
web application adds to the server: `OneRunAtATime` (`RunsAreSingle`), `ReasonGoesWithFlag`
(`ReasonMatchesFlag`), `NothingUnseenIsApproved` (`ApprovesWhatWasSeen`), `OneAnswerIsSent`
(`OneSignedAnswer`), and `ImplementsReviewBoard`: every step is a step of `ReviewBoard` or
a stutter. All rest on one invariant, `DeskInv`, that says why nothing which a session
or a page has loaded goes stale:

- `Hands`: a ticket is with one run, or owed one, or in the resume task's list, and
  is then unfinished; or it is before the one reviewer, and then waits for review;
  a session's ticket is the row (`SessionsAreFresh`), and before the resume task has
  read its list nothing runs (`Quiet`).
- `ReasonMatchesFlag`, which follows from it, since a fresh session's commit writes
  what it has (`FlushFresh`).
- `Answers`: a page shows the newest draft and its request approves that one; a draft
  of a ticket that is not resolved is as it was written (`DraftsAreOpen`), so that
  the approved one is the only one, and the reviewer's.

`KnowledgeDocumentsProofs`, for every number of documents, admins, work slots,
uploads, files, deletions and crashes.

- Under `Spec` (any overlap): `DocumentsTyped`, `ReadyHasSections` and `DeletedHasNone`. The
  two invariants are inductive together with the types of the rows, the requests,
  the work and the counters: a commit that may leave the status as it stands leaves
  a batch behind in any case, a batch goes only with its row, and a batch is stored
  only for a row that is there (`Storable`, the foreign key).
- Under `QuietSpec`: `OneTaskPerDocument` (`OneAttempt` and `FailedIsNotIndexed`) and the
  action property `OutcomeIsFinal` (`SettledForGood`). `Once` adds that a document is in
  the hands of one request or one task (`AskedOnce`), that what a task has still to do
  is unfinished or deleted and was loaded as `processing` (`TasksAreUnfinished`,
  `TasksAreFresh`), that nothing runs before the resume task has read its list
  (`NothingRuns`), and that only a ready document is indexed.
- Under `Spec`, for any finite number of admins: `OneCopyPerAdmin`. The check for a
  duplicate and the INSERT are two statements and no constraint is on the text, so
  admins who upload one text together may each store it; there are never more copies
  than admins. `CopiesInv` counts the copies of a text with those who have found it
  missing and have yet to insert it (`Inserters`): once there is a copy, nobody joins
  them, and each leaves with one copy.
- Under `QuietSpec` with at most one admin (the hypothesis of the theorem): `EachTextIsProcessedOnce`
  (`ProcessedOnce`), which is `OneTaskPerDocument` with one copy per admin.

`DraftChainProofs`, for every number of calls per link and any answers: `ChainTyped`,
`FailsLast` (`FailsOnlyIfAllDo`), `CallsAreRecorded` (`CallsAsRecorded`) and
`ImplementsFirstUsable` (every step is a step of `FirstUsable` or a stutter; an answer that
escapes the chain is a stutter that nothing follows). `Behind` says that every link
the loop has left was barred or gave up; `Ordered` that the link being called comes
before those that remain, so it is the preferred one. `CallsInv` ties the record to the
calls: what is recorded is what was tried, in the order of the chain, and the link
under way has had `try - 1` slow answers and nothing else.

`TriageCorrectionsProofs`, its first half, for every set of labels and reviewers and
every number of predictions, under `TurnSpec`: `CorrectionsTyped`, `CorrectionIsSigned`,
`OnlyDisagreements`, `ExportIsConsistent` and the action property `LastWord`. Three facts make
them inductive: `Recorded`, the newest prediction is the label; `Undisturbed`, an open
form or a request meets no run and no other reviewer, and what the request has read
is still what the row holds; and `ExportFollows`, what an export has read of the ticket
was predicted before it reads the predictions. Under `Spec`, where they do meet, `Undisturbed` is gone,
and with it who signed and what agrees; `OverlapsKeepTheExport` shows that the types
and `ExportNamesItsModel` remain: a request writes no label, and `Recorded` needs only
that the ticket had one when the request was let in (`Asked`). An export may meet a
run under either specification.

Its second half is about `TrainingLoop`, for every number of exports, training runs and
versions and any finite set of corrections: `ExportsAreReadWhole` (`ReadsWholeExports`),
`ModelsStayConsistent` (`ModelsConsistent`) and `SignalStaysExact` (`SignalIsExact`). `LoopInv` has,
beside the types,

- `Described`: a version's bundle is by a run that trains that version and has begun to
  save, and an unforced run trains the new one (`Authors`), beside the two parts of the
  property;
- `ExportsApart`: as long as no two exports had the temporary file at once, they take
  turns at it, and what one moves is whole;
- `NumbersMatch`: the number a run notes, and then writes, is that of the corrections it
  was fitted to, unless the file changed under it (`drifted`).

That `Signal`, a difference of two numbers, is then the number of corrections not yet
seen is a lemma about cardinalities.

`TeamAccountsProofs`, for every number of people, requests and sign-ins:
`SessionsFollowPasswords` (`SessionsConsistent`), `AnAdminRemains` (`AdminRemains`) and the action
property `NothingUnaskedIsGranted` (`GrantsAreAsked`). `TeamInv` adds what a request may ask
(`RequestsAreProper`: one that is about to commit does not take its author's own role),
that a password and its time are stored together (`PasswordsAreDated`), and that a
session, unless it was opened during a reset, is older than each reset stored since
and than each about to be stored (`SessionsAreDated`). That last clause is what makes it
inductive: the token is issued before the reset commits, but the reset's time is
taken later.

`ContactFormProofs`, for every number of messages and scripts and any spellings:
`CustomersStayConsistent` (`CustomersConsistent`) and `LostIsCrossed` (`LostOnlyIfCrossed`).
`FormInv` adds the uncommitted side of both constraints (of one address, one
transaction at a time has inserted a row, and while it has none is stored; a script
that has deleted customers leaves no ticket of theirs), `FindingsHold`: what a
message has found is still so unless it was crossed, and `LocksHold`: what it refers
to is still there, crossed or not.

`KnowledgeEntriesProofs`, for every number of sections, entries, texts and requests,
every size of the cache and of a batch: `IndexStaysConsistent` (`IndexConsistent`) and
`VectorsFollowTexts` (`VectorOfText`). `IndexInv` has three ideas. `HeldOnce`: a row that is
deleted and not committed is held by one request. `Counted`: a count about to be
stored is never too low, is exact unless it was crossed, and differs from the one
the session loaded while its section is there, so that the commit writes it.
`RoomWasLeft`: a bound on the cache alone is not inductive, since several threads
may each have found room; but the one that was the last to find something missing
left room for its own, and each other adds at most a batch.

`RulesProofs`, for every value of the constants of the small parts:

- `LimitersAreExact` (`LimitIsExact`), for any limits, window, visitors and groups. A deque
  holds the latest entries of its log and the earlier ones have left the window
  (`Follows`); what `Recent` drops is found by the least index that has not expired.
- `StakesComeToAPerson` (`StakesAreFlagged`), under the hypothesis `MinConfidence > 50`: a
  label that only its weight chose has at most half of the probability, and is
  flagged for it if the minimum is above that. The default is 0.6
  (`core/config.py:65`); with 0.5 TLC finds two labels that share the probability
  evenly, and an order that is not flagged.
- `MoreIsNeverLess`, the action property `MoreIsNoLess`, for any set of the patterns: the
  label the rules give for training. It says nothing of the models, whose answer to a
  longer text may be any.
- `TuningKeepsThePromise` (`TunedAsPromised`): no setting tried is above the best so far
  (`BestIsHighest`), for a comparison of tuples that is shown to be an order. Rounding
  moves a score by half a digit at most (`RoundedIsNear`), so what is not rounded to
  more is not more by a whole one (`RoundingIsFair`).
- `BackupsAreKept` (`DumpsAsPromised`), inductive with the types.
- `SplitsCarryAll` (`SectionsCarryAll`), for any blocks of any length and any tokenizer that
  gives a text no more tokens than its characters and the special ones, from
  `TokenAssumption` (a limit of at least two tokens: `SECTION_TOKENS` is 300) and
  `BlockAssumption`. `NothingLost` speaks of complete sections only. `SplitInv` says
  where everything else is: the section being filled, the piece and the unit in hand
  follow each other without a gap up to where units were taken (`InHand`), and the
  units to come lie ahead, in their order, up to the end of what was read
  (`UnitsAhead`). That a part which is cut off is neither empty nor the whole, whatever
  its tokens, is arithmetic (`ShareIsAPart`); that titles
  differ follows from the ranks of sections that share theirs (`PartsDiffer`).
- `TenantsStayApart` (`TenantsApart`), for every number of tenants, sessions, connections
  and rows, from `TenancyAssumption` (`None` is none of them; scripts are sessions, and
  their connections are connections). `ApartInv` adds to the types: `Exclusive`, no
  connection is under two sessions; `Scoped`, a transaction's setting is its session's
  tenant, and a free connection has none (without which a session that has no
  tenant, and so sets none, would get that of the one before); `Shown`, a row that
  was shown keeps its tenant, as ids are not used again; `RowsBelong`.
- `PartsAreTyped` (`TypeOK`) and `PartsTogether`: `Rules` implements the specification of
  each of its parts, so that all of the above holds of the composition, too, which is
  what the run checks.

The proofs asked for these assumptions on constants beyond the bounds: an address
has a spelling (`Spelling # {}`), there is a text and an entry, requests at the
knowledge base are finitely many and at least one (`RequestAssumption`), and
corrections are finitely many (`CorrectionAssumption`).

The type invariants of `TicketLifecycle`, `KnowledgeDocuments`, `DraftChain`,
`TriageCorrections` and `Rules` are theorems of their own; those of the other components
are parts of their inductive invariants, and so hold for every value of the constants
too. With them, every invariant and every action property that a passing run checks
is a theorem.

Only model-checked is liveness (`ReachesReview`, `Settles`, `RequestsAnswered`,
`MessagesAnswered`, and what `BoardKept` and `TakesFirstUsable` have beyond `BoardInOrder`
and `TakesInOrder`), which is out of the prover's reach.

## 7. Not modelled

- Database failures inside a request or a run (connection loss, serialization
  errors), other than the contact form's: a failing `refresh` after the commit of a
  rerun, which leaves the ticket `in_progress` with no run, or a failing SELECT of the
  resume task, would leave the ticket to the next start.
  `NoOrphan`, `ReachesReview` and `Settles` are about processes that stop, nodes and
  attempts that fail and requests that overlap, with a database that answers.
- `agent_logs` rows, texts and prompts, `updated_at`. A `retry-after` that is not a
  number of seconds (`drafter.py:268` takes "nan").
- Corrections by requests that overlap are modelled (`Spec`) but not run: the runs of
  `TriageCorrections` and `ReviewDesk` are of people who take turns. Section 3 says what
  may happen otherwise; what holds all the same is checked on `TicketLifecycle` and
  proved by `OverlapsKeepTheExport`.
- Several API instances: the code says it needs a lease first.
- Of tenancy: what rows hold, and so every UPDATE (the policies have one condition
  for what is read and what is written); the grants of the API's role, and the
  SECURITY DEFINER functions that show a session without a tenant what it needs to
  find one (sign-in's user, the business of a contact form, what the start-up tasks
  resume). How PostgreSQL
  enforces a policy is taken as it is documented.
- Text extraction, fitting and scoring of models: libraries. Their results are values
  that the modules take as input.
- Review metrics, the order of the queue and the agent trace: reads that change
  nothing. What they count on is `OneApproval`.
- Data preparation, evaluation, seeding and set-up: scripts run once, in one process.
- The web application beyond the review desk, and `restore.sh`, `deploy.sh` and
  `setup-server.sh`: each sends one request, or runs its commands in order.
