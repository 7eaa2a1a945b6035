------------------------------ MODULE Support ------------------------------
(***************************************************************************)
(* The support desk: one customer's Telegram chat (chats share no row).     *)
(* Telegram delivers an update until it is answered with 200, twice if an   *)
(* answer is late; a request stores it and hands a file over to a task that *)
(* downloads it.  Staff read, answer and erase the conversation while the   *)
(* nightly purge erases it for having been silent too long.  The ping to    *)
(* the staff group and the live-inbox events change no state and are left   *)
(* out; that publishing an event may fail is not.                           *)
(***************************************************************************)
EXTENDS Naturals, FiniteSets

CONSTANTS
  Updates,    \* the customer's messages, by their Telegram ids
  Kinds,      \* which of "text", "file" and "start" they may be
  Requests,   \* webhook requests in progress at a time
  Desks,      \* operators' requests and runs of the purge
  Workers,    \* Celery workers that download
  MaxConvs,   \* bound on the conversations ever created for the chat
  MaxTries,   \* downloads of one file: the first and its retries
  MaxFaults,  \* bound on crashes and failures of Redis, the broker or storage
  None

ASSUME NoneAssumption == None \notin Updates
ASSUME BoundsAssumption == MaxConvs \in Nat \ {0} /\ MaxTries \in Nat \ {0} /\ MaxFaults \in Nat
ASSUME FiniteAssumption == IsFiniteSet(Updates) /\ IsFiniteSet(Requests)

VARIABLES
  kind,       \* what each update is
  tg,         \* Telegram's view of an update: "unsent", "due", "acked"
  conv,       \* the chat's conversation [id, unread, recent]; id 0: none
  used,       \* the last id given to a conversation
  rows,       \* inbound support_message rows: [conv, upd, by, key]; key 0: NULL
  files,      \* object storage: [conv, upd, by, n], n numbering the random keys
  jobs,       \* support.fetch_attachment messages: [row, n]
  req,        \* a webhook request: [pc, upd, seen]
  desk,       \* a request or task on the conversation: [pc, conv, keys]
  work,       \* a worker's download: [pc, job]
  faults,
  stored,     \* history: the updates some request committed
  overlap,    \* history: the updates two requests handled at a time
  unseen,     \* history: the rows staff were neither shown nor had answered
  unrecorded, \* history: texts the customer was sent and no row tells of
  lost,       \* history: the rows and texts a fault touched
  strays,     \* history: files a fault or a late download left without a row
  spared      \* history: conversations that came back to life under the purge

history == <<stored, overlap, unseen, unrecorded, lost, strays, spared>>
vars == <<kind, tg, conv, used, rows, files, jobs, req, desk, work, faults, history>>

NoConv == [id |-> 0, unread |-> 0, recent |-> TRUE]
Seen(c) == [id |-> c.id, unread |-> c.unread]
NoReq == [pc |-> "idle", upd |-> None, seen |-> Seen(NoConv)]
NoDesk == [pc |-> "idle", conv |-> 0, keys |-> {}]
NoWork == [pc |-> "idle", job |-> [row |-> <<0, None, None>>, n |-> 0]]

\* An inbound row is told apart by its conversation, its update and the request that wrote it.
Name(r) == <<r.conv, r.upd, r.by>>
Inbound(c, u, h) == [conv |-> c, upd |-> u, by |-> h, key |-> 0]
KeyOf(name, n) == [conv |-> name[1], upd |-> name[2], by |-> name[3], n |-> n]

Init ==
  /\ kind \in [Updates -> Kinds]
  /\ tg = [u \in Updates |-> "unsent"]
  /\ conv = NoConv
  /\ used = 0
  /\ rows = {} /\ files = {} /\ jobs = {}
  /\ req = [h \in Requests |-> NoReq]
  /\ desk = [p \in Desks |-> NoDesk]
  /\ work = [w \in Workers |-> NoWork]
  /\ faults = 0
  /\ stored = {} /\ overlap = {} /\ unseen = {} /\ unrecorded = {}
  /\ lost = {} /\ strays = {} /\ spared = {}

Fault == faults < MaxFaults /\ faults' = faults + 1

\* A /start has written the conversation's row and not yet committed: who writes waits.
Locked == \E h \in Requests : req[h].pc = "greeted"

\* An uncommitted message of the conversation: who deletes it waits.
Shared(c) == Locked \/ \E p \in Desks : desk[p].pc = "replied" /\ desk[p].conv = c

-----------------------------------------------------------------------------
\* The webhook

\* The customer writes.
Write(u) ==
  /\ tg[u] = "unsent"
  /\ tg' = [tg EXCEPT ![u] = "due"]
  /\ UNCHANGED <<kind, conv, used, rows, files, jobs, req, desk, work, faults, history>>

\* message_exists
MessageExists(c, u) == \E r \in rows : r.conv = c /\ r.upd = u

\* An update not answered yet arrives, again perhaps.  The conversation is read unlocked,
\* then its messages: a redelivery of one stored is answered and dropped.
Deliver(h, u) ==
  /\ req[h].pc = "idle"
  /\ tg[u] = "due"
  /\ IF conv.id # 0 /\ MessageExists(conv.id, u)
     THEN tg' = [tg EXCEPT ![u] = "acked"] /\ UNCHANGED <<req, overlap>>
     ELSE /\ req' = [req EXCEPT ![h] = [pc |-> "new", upd |-> u, seen |-> Seen(conv)]]
          /\ overlap' = IF \E g \in Requests : req[g].upd = u THEN overlap \cup {u} ELSE overlap
          /\ UNCHANGED tg
  /\ UNCHANGED <<kind, conv, used, rows, files, jobs, desk, work, faults,
                 stored, unseen, unrecorded, lost, strays, spared>>

\* Creating a conversation that is there by now breaks its uniqueness, a message for one
\* that is gone its foreign key; the answer is 500 and Telegram will be back.
Refuse(h) ==
  /\ req[h].pc = "new"
  /\ ~Locked
  /\ conv.id # req[h].seen.id
  /\ req' = [req EXCEPT ![h] = NoReq]
  /\ UNCHANGED <<kind, tg, conv, used, rows, files, jobs, desk, work, faults, history>>

\* Mutant: a new conversation keeps its default of zero.
BumpedUnlessNew(h) == IF req[h].seen.id = 0 THEN 0 ELSE req[h].seen.unread + 1

\* bump_activity: the counter is written back as the number read plus one.
Bumped(h) == req[h].seen.unread + 1

\* The conversation found, or one created.
IdFor(h) == IF req[h].seen.id = 0 THEN used + 1 ELSE req[h].seen.id

\* The row and the message as they are committed.
Commit(h) ==
  LET c == IdFor(h)
  IN  /\ conv' = [id |-> c, unread |-> Bumped(h), recent |-> TRUE]
      /\ used' = IF conv.id = 0 THEN c ELSE used
      /\ rows' = rows \cup {Inbound(c, req[h].upd, h)}
      /\ unseen' = unseen \cup {<<c, req[h].upd, h>>}
      /\ stored' = stored \cup {req[h].upd}
      /\ req' = [req EXCEPT ![h].pc = "stored", ![h].seen = [id |-> c, unread |-> 0]]

\* handle_inbound of a text, _handle_attachment of a file.
Store(h) ==
  /\ req[h].pc = "new"
  /\ kind[req[h].upd] # "start"
  /\ ~Locked
  /\ conv.id = req[h].seen.id
  /\ Commit(h)
  /\ UNCHANGED <<kind, tg, files, jobs, desk, work, faults, overlap, unrecorded, lost, strays, spared>>

\* _handle_start: the context line, the counter and the greeting are flushed, and held
\* while the greeting goes out, or fails, ...
Greet(h) ==
  /\ req[h].pc = "new"
  /\ kind[req[h].upd] = "start"
  /\ ~Locked
  /\ conv.id = req[h].seen.id
  /\ unrecorded' \in {unrecorded, unrecorded \cup {<<IdFor(h), req[h].upd, h>>}}
  /\ req' = [req EXCEPT ![h].pc = "greeted"]
  /\ UNCHANGED <<kind, tg, conv, used, rows, files, jobs, desk, work, faults,
                 stored, overlap, unseen, lost, strays, spared>>

\* ... and is committed.
CommitStart(h) ==
  /\ req[h].pc = "greeted"
  /\ Commit(h)
  /\ unrecorded' = unrecorded \ {<<IdFor(h), req[h].upd, h>>}
  /\ UNCHANGED <<kind, tg, files, jobs, desk, work, faults, overlap, lost, strays, spared>>

\* telegram_webhook: the event, the download of a file, and 200.
Answer(h) ==
  LET u == req[h].upd
  IN  /\ req[h].pc = "stored"
      /\ jobs' = IF kind[u] = "file"
                 THEN jobs \cup {[row |-> <<req[h].seen.id, u, h>>, n |-> 1]} ELSE jobs
      /\ tg' = [tg EXCEPT ![u] = "acked"]
      /\ req' = [req EXCEPT ![h] = NoReq]
      /\ UNCHANGED <<kind, conv, used, rows, files, desk, work, faults, history>>

\* The process dies, or Redis or the broker fails after the commit: Telegram will be
\* back, but the update is known by then and its file never asked for.
FailRequest(h) ==
  /\ req[h].pc \in {"greeted", "stored"}
  /\ Fault
  /\ lost' = lost \cup {<<IdFor(h), req[h].upd, h>>}
  /\ req' = [req EXCEPT ![h] = NoReq]
  /\ UNCHANGED <<kind, tg, conv, used, rows, files, jobs, desk, work,
                 stored, overlap, unseen, unrecorded, strays, spared>>

-----------------------------------------------------------------------------
\* Operators

\* get_conversation clears the counter and commits ...
Open(p) ==
  /\ desk[p].pc = "idle"
  /\ conv.id # 0
  /\ ~Locked
  /\ conv' = [conv EXCEPT !.unread = 0]
  /\ desk' = [desk EXCEPT ![p].pc = "opened", ![p].conv = conv.id]
  /\ UNCHANGED <<kind, tg, used, rows, files, jobs, req, work, faults, history>>

\* get_thread, read after the counter was cleared.
Show(p) == {Name(r) : r \in {q \in rows : q.conv = desk[p].conv}}

\* ... and then reads the thread; or the page is left, or the query fails.
Read(p) ==
  /\ desk[p].pc = "opened"
  /\ \/ unseen' = unseen \ Show(p) /\ UNCHANGED <<faults, lost>>
     \/ Fault /\ lost' = lost \cup {Name(r) : r \in rows} /\ UNCHANGED unseen
  /\ desk' = [desk EXCEPT ![p] = NoDesk]
  /\ UNCHANGED <<kind, tg, conv, used, rows, files, jobs, req, work,
                 stored, overlap, unrecorded, strays, spared>>

\* reply: the message is inserted, which keeps the conversation in place, sent, or not, ...
Reply(p) ==
  /\ desk[p].pc = "idle"
  /\ conv.id # 0
  /\ ~Locked
  /\ unrecorded' \in {unrecorded, unrecorded \cup {<<conv.id, None, p>>}}
  /\ desk' = [desk EXCEPT ![p].pc = "replied", ![p].conv = conv.id]
  /\ UNCHANGED <<kind, tg, conv, used, rows, files, jobs, req, work, faults,
                 stored, overlap, unseen, lost, strays, spared>>

\* ... and committed with its outcome, the counter cleared: what came in meanwhile
\* counts as answered.
CommitReply(p) ==
  /\ desk[p].pc = "replied"
  /\ ~Locked
  /\ conv' = [conv EXCEPT !.unread = 0, !.recent = TRUE]
  /\ unseen' = unseen \ Show(p)
  /\ unrecorded' = unrecorded \ {<<desk[p].conv, None, p>>}
  /\ desk' = [desk EXCEPT ![p] = NoDesk]
  /\ UNCHANGED <<kind, tg, used, rows, files, jobs, req, work, faults,
                 stored, overlap, lost, strays, spared>>

\* The process dies between the send and the commit.
FailReply(p) ==
  /\ desk[p].pc = "replied"
  /\ Fault
  /\ lost' = lost \cup {<<desk[p].conv, None, p>>}
  /\ desk' = [desk EXCEPT ![p] = NoDesk]
  /\ UNCHANGED <<kind, tg, conv, used, rows, files, jobs, req, work,
                 stored, overlap, unseen, unrecorded, strays, spared>>

-----------------------------------------------------------------------------
\* Erasure

\* Mutant: the keys are looked for once the rows are gone.
KeysOfDeleted(c) == {}

\* attachment_keys_for_conversation, attachment_keys_stale
KeysOf(c) == {KeyOf(Name(r), r.key) : r \in {q \in rows : q.conv = c /\ q.key # 0}}

\* An operator erases the conversation, or the purge finds it silent: first the keys.
BeginErasure(p, pc) ==
  /\ desk[p].pc = "idle"
  /\ conv.id # 0 /\ conv.id < MaxConvs
  /\ pc = "purge" => ~conv.recent
  /\ desk' = [desk EXCEPT ![p] = [pc |-> pc, conv |-> conv.id, keys |-> KeysOf(conv.id)]]
  /\ UNCHANGED <<kind, tg, conv, used, rows, files, jobs, req, work, faults, history>>

\* Then the rows, with the condition evaluated anew, and the commit.  An operator who
\* finds nothing to delete stops; the purge goes on to remove the keys it read.
Erase(p) ==
  LET c == desk[p].conv
      purge == desk[p].pc = "purge"
      there == conv.id = c /\ (purge => ~conv.recent)
  IN  /\ desk[p].pc \in {"erase", "purge"}
      /\ ~Shared(c)
      /\ conv' = IF there THEN NoConv ELSE conv
      /\ rows' = IF there THEN {r \in rows : r.conv # c} ELSE rows
      /\ unseen' = IF there THEN {n \in unseen : n[1] # c} ELSE unseen
      /\ desk' = [desk EXCEPT ![p] = IF (there \/ purge) /\ @.keys # {}
                                     THEN [@ EXCEPT !.pc = "remove"] ELSE NoDesk]
      /\ spared' = IF purge /\ conv.id = c /\ conv.recent THEN spared \cup {c} ELSE spared
      /\ UNCHANGED <<kind, tg, used, files, jobs, req, work, faults,
                     stored, overlap, unrecorded, lost, strays>>

\* _remove_attachment_keys: a failure is logged and the loop goes on.
RemoveKey(p) ==
  /\ desk[p].pc = "remove"
  /\ \E k \in desk[p].keys :
       /\ \/ files' = files \ {k} /\ UNCHANGED <<faults, strays>>
          \/ Fault /\ strays' = strays \cup {k} /\ UNCHANGED files
       /\ desk' = IF desk[p].keys = {k} THEN [desk EXCEPT ![p] = NoDesk]
                  ELSE [desk EXCEPT ![p].keys = @ \ {k}]
  /\ UNCHANGED <<kind, tg, conv, used, rows, jobs, req, work,
                 stored, overlap, unseen, unrecorded, lost, spared>>

\* Time passes and the conversation falls behind the retention window.
Age ==
  /\ conv.id # 0
  /\ conv.recent
  /\ ~Locked
  /\ conv' = [conv EXCEPT !.recent = FALSE]
  /\ UNCHANGED <<kind, tg, used, rows, files, jobs, req, desk, work, faults, history>>

-----------------------------------------------------------------------------
\* Downloads

\* A worker takes a message, downloads the file and puts it under a key of its own ...
PutFile(w) ==
  /\ work[w].pc = "idle"
  /\ \E j \in jobs :
       /\ jobs' = jobs \ {j}
       /\ files' = files \cup {KeyOf(j.row, j.n)}
       /\ work' = [work EXCEPT ![w] = [pc |-> "put", job |-> j]]
  /\ UNCHANGED <<kind, tg, conv, used, rows, req, desk, faults, history>>

\* An erasure of conversation c that has read its keys.
Erasing(c) == \E p \in Desks : desk[p].pc \in {"erase", "purge"} /\ desk[p].conv = c

\* The key the row gets.
RecordedKey(w) == work[w].job.n

\* ... which the message's row gets, if it is still there.
RecordFile(w) ==
  LET job == work[w].job
      mine == {r \in rows : Name(r) = job.row}
  IN  /\ work[w].pc = "put"
      /\ rows' = (rows \ mine) \cup {[r EXCEPT !.key = RecordedKey(w)] : r \in mine}
      /\ strays' = IF mine = {} \/ Erasing(job.row[1])
                   THEN strays \cup {KeyOf(job.row, job.n)} ELSE strays
      /\ work' = [work EXCEPT ![w] = NoWork]
      /\ UNCHANGED <<kind, tg, conv, used, files, jobs, req, desk, faults,
                     stored, overlap, unseen, unrecorded, lost, spared>>

\* Mutant: the task is not retried.
RetryNever(j) == jobs' = jobs \ {j} /\ UNCHANGED lost

\* autoretry_for: the next attempt, under another key, or the last one was made.
Retry(j) ==
  IF j.n < MaxTries
  THEN jobs' = (jobs \ {j}) \cup {[j EXCEPT !.n = @ + 1]} /\ UNCHANGED lost
  ELSE jobs' = jobs \ {j} /\ lost' = lost \cup {j.row}

\* Telegram or the storage fails the download ...
FailDownload(w) ==
  /\ work[w].pc = "idle"
  /\ \E j \in jobs : Retry(j)
  /\ UNCHANGED <<kind, tg, conv, used, rows, files, req, desk, work, faults,
                 stored, overlap, unseen, unrecorded, strays, spared>>

\* ... or the database the record of it: what was put stays.
FailRecord(w) ==
  /\ work[w].pc = "put"
  /\ Retry(work[w].job)
  /\ strays' = strays \cup {KeyOf(work[w].job.row, work[w].job.n)}
  /\ work' = [work EXCEPT ![w] = NoWork]
  /\ UNCHANGED <<kind, tg, conv, used, rows, files, req, desk, faults,
                 stored, overlap, unseen, unrecorded, spared>>

Handling(h) == Refuse(h) \/ Store(h) \/ Greet(h) \/ CommitStart(h) \/ Answer(h)
Desk(p) == CommitReply(p) \/ Erase(p) \/ RemoveKey(p)
Fetching(w) == PutFile(w) \/ RecordFile(w) \/ FailDownload(w) \/ FailRecord(w)

Next ==
  \/ \E u \in Updates : Write(u)
  \/ \E h \in Requests, u \in Updates : Deliver(h, u)
  \/ \E h \in Requests : Handling(h) \/ FailRequest(h)
  \/ \E p \in Desks : Open(p) \/ Read(p) \/ Reply(p) \/ FailReply(p) \/ Desk(p)
  \/ \E p \in Desks, pc \in {"erase", "purge"} : BeginErasure(p, pc)
  \/ \E w \in Workers : Fetching(w)
  \/ Age

Spec == Init /\ [][Next]_vars

\* Telegram redelivers until it is answered, requests and tasks that began end, and
\* workers take what is queued.  Nobody has to write, read, answer or erase.
FairSpec ==
  /\ Spec
  /\ \A u \in Updates : SF_vars(\E h \in Requests : Deliver(h, u))
  /\ \A h \in Requests : WF_vars(Handling(h))
  /\ \A p \in Desks : WF_vars(Desk(p))
  /\ \A w \in Workers : WF_vars(Fetching(w))

-----------------------------------------------------------------------------
\* Properties

\* Every variable has its type; the counter stays below what the chat can have sent.
TypeOK ==
  LET Conv == [id : 0 .. MaxConvs, unread : 0 .. Cardinality(Updates) * Cardinality(Requests),
               recent : BOOLEAN]
      Names == (0 .. MaxConvs) \X (Updates \cup {None}) \X (Requests \cup Desks \cup {None})
  IN  /\ tg \in [Updates -> {"unsent", "due", "acked"}]
      /\ conv \in Conv
      /\ used \in conv.id .. MaxConvs
      /\ \A r \in rows : Name(r) \in Names /\ r.key \in 0 .. MaxTries
      /\ \A f \in files : <<f.conv, f.upd, f.by>> \in Names /\ f.n \in 1 .. MaxTries
      /\ \A j \in jobs : j.row \in Names /\ j.n \in 1 .. MaxTries
      /\ \A h \in Requests : req[h].seen.id \in 0 .. MaxConvs
      /\ \A p \in Desks : desk[p].conv \in 0 .. MaxConvs
      /\ \A w \in Workers : work[w].job.row \in Names
      /\ unseen \cup unrecorded \cup lost \subseteq Names
      /\ faults \in 0 .. MaxFaults

\* No message of the conversation hides from the operators: while one was neither shown
\* nor answered, the counter is not zero, whatever overlapping requests wrote over each
\* other's count, and though it is cleared before the thread is read.
NothingHides ==
  unseen \subseteq lost \/ conv.unread > 0 \/ \E p \in Desks : desk[p].pc = "opened"

\* An update is in the conversation twice only if Telegram sent it again while it was
\* being handled: a redelivery after an answer that failed is recognised.
DoublesAreOverlaps ==
  \A r, s \in rows : r.conv = s.conv /\ r.upd = s.upd /\ r.by # s.by => r.upd \in overlap

\* What the customer was sent is on record, whoever erases or writes meanwhile, unless
\* the process died between the send and the commit.
SentIsRecorded ==
  \A t \in unrecorded :
    \/ t \in lost
    \/ \E h \in Requests : req[h].pc = "greeted" /\ t = <<IdFor(h), req[h].upd, h>>
    \/ \E p \in Desks : desk[p].pc = "replied" /\ t = <<desk[p].conv, None, p>>

\* A stored file belongs to a message on record or is about to be removed, unless a
\* download ended after the erasure had read its keys or a fault left it behind.
FilesAreKnown ==
  \A f \in files :
    \/ f \in strays
    \/ \E r \in rows : r.key # 0 /\ KeyOf(Name(r), r.key) = f
    \/ \E p \in Desks : f \in desk[p].keys
    \/ \E w \in Workers : work[w].pc = "put" /\ KeyOf(work[w].job.row, work[w].job.n) = f

\* A message that names a file has it, unless the purge removed the files of a
\* conversation that a new message had saved.
KeysLead ==
  \A r \in rows : r.key # 0 => KeyOf(Name(r), r.key) \in files \/ r.conv \in spared

\* Every message Telegram has is stored, whatever crashes, collides with another delivery
\* or erases its conversation on the way.
UpdatesAreKept == \A u \in Updates : (tg[u] = "due") ~> (u \in stored)

\* A file message gets its file, unless it is erased or a fault or the last retry lost it.
FilesArrive ==
  \A u \in Updates, h \in Requests, c \in 1 .. MaxConvs :
    (Inbound(c, u, h) \in rows /\ kind[u] = "file")
      ~> (Inbound(c, u, h) \notin rows \/ <<c, u, h>> \in lost)

\* The conversation shows what was said, once, and what is new in it (handle_inbound,
\* reply, bump_activity).
InboxIsSound == TypeOK /\ NothingHides /\ DoublesAreOverlaps /\ SentIsRecorded

\* The rows and the object store agree on the files there are (_fetch_attachment,
\* purge_stale, delete_conversation).
FilesAreSound == FilesAreKnown /\ KeysLead

\* Messages and their files get where they should be (telegram_webhook, fetch_attachment).
MessagesArrive == UpdatesAreKept /\ FilesArrive
=============================================================================
