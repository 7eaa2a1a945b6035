---------------------------- MODULE SupportProofs ----------------------------
(***************************************************************************)
(* For any number of messages, requests, operators and workers: no message *)
(* hides from the operators, none is on record twice unless two requests   *)
(* handled it, and the rows and the object store agree.                    *)
(***************************************************************************)
EXTENDS Support, FiniteSetTheorems, TLAPS

\* The rows' names; every row belongs to the conversation there is.
Named == {Name(r) : r \in rows}

\* Types: the chat, the requests, the operators, what is stored, the workers.
ChatShape ==
  /\ kind \in [Updates -> Kinds] /\ tg \in [Updates -> {"unsent", "due", "acked"}]
  /\ conv \in [id : Nat, unread : Nat, recent : BOOLEAN] /\ used \in Nat
  /\ faults \in 0 .. MaxFaults
ReqShape ==
  req \in [Requests -> [pc : {"idle", "new", "greeted", "stored"}, upd : Updates \cup {None},
                        seen : [id : Nat, unread : Nat]]]
Keys == [conv : Nat, upd : Updates, by : Requests, n : 1 .. MaxTries]
DeskShape ==
  desk \in [Desks -> [pc : {"idle", "opened", "replied", "erase", "purge", "remove"}, conv : Nat,
                      keys : SUBSET Keys]]
Jobs == [row : Nat \X Updates \X Requests, n : 1 .. MaxTries]
StoreShape ==
  /\ rows \subseteq [conv : Nat, upd : Updates, by : Requests, key : 0 .. MaxTries]
  /\ files \subseteq Keys /\ jobs \subseteq Jobs
WorkShape ==
  /\ DOMAIN work = Workers
  /\ \A w \in Workers : work[w] = NoWork \/ work[w] \in [pc : {"put"}, job : Jobs]

ShapeInv == ChatShape /\ ReqShape /\ DeskShape /\ StoreShape /\ WorkShape

\* Conversations are numbered one after the other, and the last one is not erased.
ConvInv ==
  /\ used =< MaxConvs
  /\ conv.id # 0 => conv.id = used
  /\ conv.id = 0 => used < MaxConvs /\ conv.unread = 0
  /\ \A r \in rows : r.conv = conv.id /\ conv.id # 0
  /\ \A p \in Desks : desk[p].conv =< used
  /\ \A p \in Desks : desk[p].pc \in {"idle", "opened", "replied"} => desk[p].keys = {}
  /\ \A p \in Desks : desk[p].pc \in {"erase", "purge", "remove"} =>
       0 < desk[p].conv /\ desk[p].conv < MaxConvs
  /\ \A h \in Requests : req[h].seen.id =< used
  /\ \A h \in Requests : req[h].pc = "stored" => req[h].seen.id # 0
  /\ \A p \in Desks : desk[p].pc = "replied" => desk[p].conv = conv.id /\ conv.id # 0

\* One request at most holds the conversation's row while it greets.
GreetInv ==
  /\ \A h \in Requests : req[h].pc = "greeted" => req[h].seen.id = conv.id
  /\ \A g, h \in Requests : req[g].pc = "greeted" /\ req[h].pc = "greeted" => g = h

\* What is new is on record, and counted unless staff are about to read it.
UnseenInv ==
  /\ unseen \subseteq Named
  /\ \/ unseen \subseteq lost
     \/ conv.unread > 0
     \/ \E p \in Desks : desk[p].pc = "opened" /\ desk[p].conv = conv.id

Busy(h) == req[h].pc \in {"new", "greeted"}

\* An update is handled once at a time, and is not on record before, unless it overlapped.
OnceInv ==
  /\ \A h \in Requests : req[h].pc = "idle" => req[h].upd = None
  /\ \A h \in Requests : req[h].pc # "idle" => req[h].upd \in Updates
  /\ \A g, h \in Requests : g # h /\ req[g].upd = req[h].upd /\ req[h].upd # None => req[h].upd \in overlap
  /\ \A h \in Requests, r \in rows :
       Busy(h) /\ req[h].seen.id = r.conv /\ r.upd = req[h].upd => r.by # h /\ r.upd \in overlap
  /\ DoublesAreOverlaps

\* The counter is no more than the messages there are.
CountInv ==
  /\ IsFiniteSet(Named)
  /\ conv.unread =< Cardinality(Named)
  /\ \A h \in Requests : Busy(h) /\ req[h].seen.id = conv.id => req[h].seen.unread =< Cardinality(Named)
  /\ \A h \in Requests : Busy(h) /\ req[h].seen.id = 0 => req[h].seen.unread = 0

SentInv ==
  /\ SentIsRecorded
  /\ unrecorded \cup lost \subseteq (1 .. MaxConvs) \X (Updates \cup {None}) \X (Requests \cup Desks)

\* A file is on its way for these rows.
StoredName(h) == <<req[h].seen.id, req[h].upd, h>>
Queued == {j.row : j \in jobs}
Putting == {w \in Workers : work[w].pc = "put"}
Awaited ==
  Queued \cup {work[w].job.row : w \in Putting}
         \cup {StoredName(h) : h \in {g \in Requests : req[g].pc = "stored"}}
KeyName(k) == <<k.conv, k.upd, k.by>>

\* A name of a row there is, or was.
Born(x) == x[1] \in 1 .. used /\ (x[1] = conv.id => x \in Named)

\* Each awaited file has one holder, and no row names it yet.
AwaitedInv ==
  /\ \A i, j \in jobs : i.row = j.row => i = j
  /\ \A v \in Putting : work[v].job.row \notin Queued
  /\ \A v, w \in Putting : work[v].job.row = work[w].job.row => v = w
  /\ \A h \in Requests : req[h].pc = "stored" =>
       StoredName(h) \notin Queued /\ \A w \in Putting : work[w].job.row # StoredName(h)
  /\ \A x \in Awaited : Born(x)
  /\ \A r \in rows : Name(r) \in Awaited => r.key = 0
  /\ \A p \in Desks : \A k \in desk[p].keys :
       KeyName(k) \notin Awaited /\ Born(KeyName(k)) /\ k.conv = desk[p].conv

Erases(p) == desk[p].pc \in {"erase", "purge"}

StorageInv ==
  /\ \A f \in files :
       \/ f \in strays
       \/ \E r \in rows : r.key # 0 /\ KeyOf(Name(r), r.key) = f
       \/ \E p \in Desks : desk[p].pc = "remove" /\ f \in desk[p].keys
       \/ \E w \in Putting : KeyOf(work[w].job.row, work[w].job.n) = f
  /\ \A w \in Putting : KeyOf(work[w].job.row, work[w].job.n) \in files
  /\ KeysLead
  /\ \A p \in Desks : desk[p].pc = "remove" => desk[p].conv # conv.id \/ desk[p].conv \in spared
  /\ \A p \in Desks, r \in rows :
       Erases(p) /\ r.conv = desk[p].conv /\ r.key # 0 =>
         KeyOf(Name(r), r.key) \in desk[p].keys \cup strays

SupportInv ==
  /\ ShapeInv /\ ConvInv /\ GreetInv /\ UnseenInv /\ OnceInv
  /\ CountInv /\ SentInv /\ AwaitedInv /\ StorageInv

LEMMA SupportInit ==
  ASSUME Init PROVE SupportInv
<1>1. /\ conv = [id |-> 0, unread |-> 0, recent |-> TRUE] /\ used = 0 /\ faults = 0
      /\ rows = {} /\ files = {} /\ jobs = {}
      /\ unseen = {} /\ unrecorded = {} /\ lost = {} /\ strays = {}
  BY DEF Init, NoConv
<1>2. \A h \in Requests :
        req[h] = [pc |-> "idle", upd |-> None, seen |-> [id |-> 0, unread |-> 0]]
  BY DEF Init, NoReq, Seen, NoConv
<1>3. \A p \in Desks : desk[p] = [pc |-> "idle", conv |-> 0, keys |-> {}]
  BY DEF Init, NoDesk
<1>4. Named = {} /\ Awaited = {} /\ Putting = {} /\ Queued = {}
  <2>1. \A w \in Workers : work[w].pc = "idle"
    BY DEF Init, NoWork
  <2>. QED  BY <1>1, <1>2, <2>1 DEF Named, Awaited, Putting, Queued
<1>5. ShapeInv
  BY <1>1, BoundsAssumption DEF Init, ShapeInv, ChatShape, ReqShape, DeskShape, StoreShape, WorkShape,
     NoReq, NoDesk, Seen, NoConv
<1>6. ConvInv /\ GreetInv
  BY <1>1, <1>2, <1>3, BoundsAssumption DEF ConvInv, GreetInv
<1>7. UnseenInv /\ OnceInv /\ SentInv
  BY <1>1, <1>2 DEF UnseenInv, OnceInv, SentInv, SentIsRecorded, DoublesAreOverlaps, Busy
<1>8. CountInv
  BY <1>1, <1>2, <1>4, FS_EmptySet DEF CountInv, Busy
<1>9. AwaitedInv /\ StorageInv
  BY <1>1, <1>2, <1>3, <1>4 DEF AwaitedInv, StorageInv, KeysLead, Erases
<1>. QED  BY <1>5, <1>6, <1>7, <1>8, <1>9 DEF SupportInv

\* What each part of the invariant is about.
LEMMA Frames ==
  ASSUME SupportInv
  PROVE  /\ UNCHANGED <<kind, tg, conv, used, faults>> => ChatShape'
         /\ UNCHANGED req => ReqShape'
         /\ UNCHANGED desk => DeskShape'
         /\ UNCHANGED <<rows, files, jobs>> => StoreShape'
         /\ UNCHANGED work => WorkShape'
         /\ UNCHANGED <<conv.id, conv.unread, used, rows, desk, req>> => ConvInv'
         /\ UNCHANGED <<conv.id, req>> => GreetInv'
         /\ UNCHANGED <<unseen, rows, conv.id, conv.unread, desk>> /\ lost \subseteq lost' => UnseenInv'
         /\ UNCHANGED <<req, rows, overlap>> => OnceInv'
         /\ UNCHANGED <<conv.id, conv.unread, rows, req>> => CountInv'
         /\ UNCHANGED <<unrecorded, lost, req, desk, used>> => SentInv'
         /\ UNCHANGED <<jobs, work, req, desk, rows, used, conv.id>> => AwaitedInv'
         /\ UNCHANGED <<files, strays, rows, desk, work, conv.id, spared>> => StorageInv'
<1>1. /\ UNCHANGED <<kind, tg, conv, used, faults>> => ChatShape'
      /\ UNCHANGED req => ReqShape'
      /\ UNCHANGED desk => DeskShape'
      /\ UNCHANGED <<rows, files, jobs>> => StoreShape'
  BY DEF SupportInv, ShapeInv, ChatShape, ReqShape, DeskShape, StoreShape
<1>2. UNCHANGED work => WorkShape'
  BY DEF SupportInv, ShapeInv, WorkShape, NoWork
<1>3. UNCHANGED <<conv.id, conv.unread, used, rows, desk, req>> => ConvInv'
  BY DEF SupportInv, ConvInv
<1>4. UNCHANGED <<conv.id, req>> => GreetInv'
  BY DEF SupportInv, GreetInv
<1>5. UNCHANGED <<unseen, rows, conv.id, conv.unread, desk>> /\ lost \subseteq lost' => UnseenInv'
  BY DEF SupportInv, UnseenInv, Named
<1>6. UNCHANGED <<req, rows, overlap>> => OnceInv'
  BY DEF SupportInv, OnceInv, DoublesAreOverlaps, Busy
<1>7. UNCHANGED <<conv.id, conv.unread, rows, req>> => CountInv'
  BY DEF SupportInv, CountInv, Named, Busy
<1>8. UNCHANGED <<unrecorded, lost, req, desk, used>> => SentInv'
  BY DEF SupportInv, SentInv, SentIsRecorded, IdFor
<1>9. UNCHANGED <<jobs, work, req, desk, rows, used, conv.id>> => AwaitedInv'
  BY DEF SupportInv, AwaitedInv, Awaited, Queued, Putting, StoredName, Born, Named
<1>10. UNCHANGED <<files, strays, rows, desk, work, conv.id, spared>> => StorageInv'
  BY DEF SupportInv, StorageInv, Putting, KeysLead, Erases
<1>. QED  BY <1>1, <1>2, <1>3, <1>4, <1>5, <1>6, <1>7, <1>8, <1>9, <1>10

LEMMA WriteStep ==
  ASSUME SupportInv, NEW u \in Updates, Write(u) PROVE SupportInv'
<1>1. /\ tg' = [tg EXCEPT ![u] = "due"]
      /\ UNCHANGED <<kind, conv, used, rows, files, jobs, req, desk, work, faults,
                     stored, overlap, unseen, unrecorded, lost, strays, spared>>
  BY DEF Write, history
<1>2. ChatShape'
  BY <1>1 DEF SupportInv, ShapeInv, ChatShape
<1>. QED  BY <1>1, <1>2, Frames DEF SupportInv, ShapeInv

LEMMA AgeStep ==
  ASSUME SupportInv, Age PROVE SupportInv'
<1>1. /\ conv' = [conv EXCEPT !.recent = FALSE]
      /\ UNCHANGED <<kind, tg, used, rows, files, jobs, req, desk, work, faults,
                     stored, overlap, unseen, unrecorded, lost, strays, spared>>
  BY DEF Age, history
<1>2. ChatShape' /\ conv'.id = conv.id /\ conv'.unread = conv.unread
  BY <1>1 DEF SupportInv, ShapeInv, ChatShape
<1>. QED  BY <1>1, <1>2, Frames DEF SupportInv, ShapeInv

\* A request that ends.
LEMMA RequestEnds ==
  ASSUME SupportInv, NEW h \in Requests, req' = [req EXCEPT ![h] = NoReq],
         UNCHANGED <<conv, used, rows, desk, overlap>>
  PROVE  /\ \A g \in Requests : g # h => req'[g] = req[g]
         /\ req'[h].pc = "idle"
         /\ ReqShape' /\ ConvInv' /\ GreetInv' /\ OnceInv' /\ CountInv'
<1>1. /\ \A g \in Requests : g # h => req'[g] = req[g]
      /\ req'[h].pc = "idle" /\ req'[h].upd = None /\ req'[h].seen.id = 0
  BY DEF SupportInv, ShapeInv, ReqShape, NoReq, Seen, NoConv
<1>2. ReqShape'
  BY DEF SupportInv, ShapeInv, ReqShape, NoReq, Seen, NoConv
<1>3. ConvInv'
  BY <1>1 DEF SupportInv, ShapeInv, ChatShape, ConvInv
<1>4. GreetInv'
  BY <1>1 DEF SupportInv, GreetInv
<1>5. OnceInv'
  BY <1>1 DEF SupportInv, OnceInv, DoublesAreOverlaps, Busy
<1>6. CountInv'
  BY <1>1 DEF SupportInv, CountInv, Named, Busy
<1>. QED  BY <1>1, <1>2, <1>3, <1>4, <1>5, <1>6

LEMMA RefuseStep ==
  ASSUME SupportInv, NEW h \in Requests, Refuse(h) PROVE SupportInv'
<1>1. /\ req[h].pc = "new" /\ req' = [req EXCEPT ![h] = NoReq]
      /\ UNCHANGED <<kind, tg, conv, used, rows, files, jobs, desk, work, faults,
                     stored, overlap, unseen, unrecorded, lost, strays, spared>>
  BY DEF Refuse, history
<1>2. /\ \A g \in Requests : g # h => req'[g] = req[g]
      /\ req'[h].pc = "idle"
      /\ ReqShape' /\ ConvInv' /\ GreetInv' /\ OnceInv' /\ CountInv'
  BY <1>1, RequestEnds
<1>3. SentInv'
  BY <1>1, <1>2 DEF SupportInv, SentInv, SentIsRecorded, IdFor
<1>4. AwaitedInv'
  <2>1. Awaited' = Awaited
    BY <1>1, <1>2 DEF Awaited, Queued, Putting, StoredName
  <2>. QED  BY <1>1, <1>2, <2>1 DEF SupportInv, AwaitedInv, Queued, Putting, StoredName, Born, Named
<1>. QED  BY <1>1, <1>2, <1>3, <1>4, Frames DEF SupportInv, ShapeInv

LEMMA DeliverStep ==
  ASSUME SupportInv, NEW h \in Requests, NEW u \in Updates, Deliver(h, u) PROVE SupportInv'
<1>1. /\ req[h].pc = "idle"
      /\ UNCHANGED <<kind, conv, used, rows, files, jobs, desk, work, faults,
                     stored, unseen, unrecorded, lost, strays, spared>>
  BY DEF Deliver
<1>2. CASE tg' = [tg EXCEPT ![u] = "acked"] /\ UNCHANGED <<req, overlap>>
  <2>1. ChatShape'
    BY <1>1, <1>2 DEF SupportInv, ShapeInv, ChatShape
  <2>. QED  BY <1>1, <1>2, <2>1, Frames DEF SupportInv, ShapeInv
<1>3. CASE /\ ~(conv.id # 0 /\ MessageExists(conv.id, u)) /\ UNCHANGED tg
           /\ req' = [req EXCEPT ![h] = [pc |-> "new", upd |-> u, seen |-> Seen(conv)]]
           /\ overlap' = IF \E g \in Requests : req[g].upd = u THEN overlap \cup {u} ELSE overlap
  <2>1. /\ \A g \in Requests : g # h => req'[g] = req[g]
        /\ req'[h].pc = "new" /\ req'[h].upd = u
        /\ req'[h].seen.id = conv.id /\ req'[h].seen.unread = conv.unread
        /\ overlap \subseteq overlap' /\ \A g \in Requests : req[g].upd = u => u \in overlap'
    BY <1>3 DEF SupportInv, ShapeInv, ReqShape, Seen
  <2>2. ReqShape'
    BY <1>3 DEF SupportInv, ShapeInv, ReqShape, ChatShape, Seen
  <2>3. ConvInv'
    BY <1>1, <2>1 DEF SupportInv, ShapeInv, ChatShape, ConvInv
  <2>4. GreetInv'
    BY <1>1, <2>1 DEF SupportInv, GreetInv
  <2>5. OnceInv'
    <3>1. \A r \in rows : r.upd # u
      BY <1>3 DEF SupportInv, ConvInv, MessageExists
    <3>2. u # None
      BY NoneAssumption
    <3>3. \A f, g \in Requests :
            f # g /\ req'[f].upd = req'[g].upd /\ req'[g].upd # None => req'[g].upd \in overlap'
      BY <2>1 DEF SupportInv, OnceInv
    <3>4. \A g \in Requests, r \in rows :
            Busy(g)' /\ req'[g].seen.id = r.conv /\ r.upd = req'[g].upd => r.by # g /\ r.upd \in overlap'
      BY <2>1, <3>1 DEF SupportInv, OnceInv, Busy
    <3>5. DoublesAreOverlaps'
      BY <1>1, <2>1 DEF SupportInv, OnceInv, DoublesAreOverlaps
    <3>. QED  BY <1>1, <2>1, <3>3, <3>4, <3>5 DEF SupportInv, OnceInv
  <2>6. CountInv'
    <3>1. conv.id = 0 => conv.unread = 0
      BY DEF SupportInv, ConvInv
    <3>2. Named' = Named
      BY <1>1 DEF Named
    <3>. QED  BY <1>1, <2>1, <3>1, <3>2 DEF SupportInv, CountInv, Busy
  <2>7. SentInv'
    BY <1>1, <2>1 DEF SupportInv, SentInv, SentIsRecorded, IdFor
  <2>8. AwaitedInv'
    <3>1. Awaited' = Awaited
      BY <1>1, <2>1 DEF Awaited, Queued, Putting, StoredName
    <3>. QED  BY <1>1, <2>1, <3>1 DEF SupportInv, AwaitedInv, Queued, Putting, StoredName, Born, Named
  <2>. QED  BY <1>1, <1>3, <2>2, <2>3, <2>4, <2>5, <2>6, <2>7, <2>8, Frames DEF SupportInv, ShapeInv
<1>. QED  BY <1>2, <1>3 DEF Deliver

LEMMA GreetStep ==
  ASSUME SupportInv, NEW h \in Requests, Greet(h) PROVE SupportInv'
<1>1. /\ req[h].pc = "new" /\ ~Locked /\ conv.id = req[h].seen.id
      /\ unrecorded' \in {unrecorded, unrecorded \cup {<<IdFor(h), req[h].upd, h>>}}
      /\ req' = [req EXCEPT ![h].pc = "greeted"]
      /\ UNCHANGED <<kind, tg, conv, used, rows, files, jobs, desk, work, faults,
                     stored, overlap, unseen, lost, strays, spared>>
  BY DEF Greet
<1>2. /\ \A g \in Requests : g # h => req'[g] = req[g]
      /\ req'[h].pc = "greeted" /\ req'[h].upd = req[h].upd /\ req'[h].seen = req[h].seen
      /\ req[h].upd \in Updates
  BY <1>1 DEF SupportInv, ShapeInv, ReqShape, OnceInv
<1>3. ReqShape'
  BY <1>1 DEF SupportInv, ShapeInv, ReqShape
<1>4. ConvInv'
  BY <1>1, <1>2 DEF SupportInv, ConvInv
<1>5. GreetInv'
  BY <1>1, <1>2 DEF SupportInv, GreetInv, Locked
<1>6. OnceInv'
  BY <1>1, <1>2 DEF SupportInv, OnceInv, DoublesAreOverlaps, Busy
<1>7. CountInv'
  BY <1>1, <1>2 DEF SupportInv, CountInv, Named, Busy
<1>8. SentInv'
  <2>1. IdFor(h) \in 1 .. MaxConvs
    BY <1>1, BoundsAssumption DEF SupportInv, ShapeInv, ChatShape, ConvInv, IdFor
  <2>2. \A g \in Requests : IdFor(g)' = IdFor(g)
    BY <1>1, <1>2 DEF IdFor
  <2>3. \A g \in Requests : req[g].pc = "greeted" => req'[g] = req[g] /\ g # h
    BY <1>1, <1>2
  <2>4. unrecorded' \cup lost' \subseteq (1 .. MaxConvs) \X (Updates \cup {None}) \X (Requests \cup Desks)
    BY <1>1, <1>2, <2>1 DEF SupportInv, SentInv
  <2>5. ASSUME NEW t \in unrecorded, t \notin lost
        PROVE  \/ \E g \in Requests : req'[g].pc = "greeted" /\ t = <<IdFor(g)', req'[g].upd, g>>
               \/ \E p \in Desks : desk'[p].pc = "replied" /\ t = <<desk'[p].conv, None, p>>
    BY <1>1, <2>2, <2>3, <2>5 DEF SupportInv, SentInv, SentIsRecorded
  <2>6. \E g \in Requests :
          req'[g].pc = "greeted" /\ <<IdFor(h), req[h].upd, h>> = <<IdFor(g)', req'[g].upd, g>>
    BY <1>2, <2>2
  <2>7. SentIsRecorded'
    BY <1>1, <2>5, <2>6 DEF SentIsRecorded
  <2>. QED  BY <2>4, <2>7 DEF SentInv
<1>9. AwaitedInv'
  <2>1. Awaited' = Awaited
    BY <1>1, <1>2 DEF Awaited, Queued, Putting, StoredName
  <2>. QED  BY <1>1, <1>2, <2>1 DEF SupportInv, AwaitedInv, Queued, Putting, StoredName, Born, Named
<1>. QED  BY <1>1, <1>3, <1>4, <1>5, <1>6, <1>7, <1>8, <1>9, Frames DEF SupportInv, ShapeInv

LEMMA AnswerStep ==
  ASSUME SupportInv, NEW h \in Requests, Answer(h) PROVE SupportInv'
<1>. DEFINE job == [row |-> StoredName(h), n |-> 1]
<1>1. /\ req[h].pc = "stored" /\ req' = [req EXCEPT ![h] = NoReq]
      /\ jobs' = jobs \/ jobs' = jobs \cup {job}
      /\ tg' = [tg EXCEPT ![req[h].upd] = "acked"]
      /\ UNCHANGED <<kind, conv, used, rows, files, desk, work, faults,
                     stored, overlap, unseen, unrecorded, lost, strays, spared>>
  BY DEF Answer, StoredName, history
<1>2. /\ \A g \in Requests : g # h => req'[g] = req[g]
      /\ req'[h].pc = "idle"
      /\ ReqShape' /\ ConvInv' /\ GreetInv' /\ OnceInv' /\ CountInv'
  BY <1>1, RequestEnds
<1>3. ChatShape'
  BY <1>1 DEF SupportInv, ShapeInv, ChatShape
<1>4. StoredName(h) \in Nat \X Updates \X Requests
  BY <1>1 DEF SupportInv, ShapeInv, ReqShape, OnceInv, StoredName
<1>5. StoreShape'
  <2>1. job \in Jobs
    BY <1>4, BoundsAssumption DEF Jobs
  <2>. QED  BY <1>1, <2>1 DEF SupportInv, ShapeInv, StoreShape
<1>6. SentInv'
  BY <1>1, <1>2 DEF SupportInv, SentInv, SentIsRecorded, IdFor
<1>7. AwaitedInv'
  <2>1. Queued' \subseteq Queued \cup {StoredName(h)} /\ Putting' = Putting
    BY <1>1 DEF Queued, Putting
  <2>2. StoredName(h) \in Awaited
    BY <1>1 DEF Awaited
  <2>3. Awaited' \subseteq Awaited
    BY <1>1, <1>2, <2>1, <2>2 DEF Awaited, StoredName
  <2>4. \A i \in jobs : i.row # StoredName(h)
    BY <1>1 DEF SupportInv, AwaitedInv, Queued
  <2>5. \A i, j \in jobs' : i.row = j.row => i = j
    BY <1>1, <2>4 DEF SupportInv, AwaitedInv
  <2>6. \A v \in Putting : work[v].job.row \notin Queued'
    BY <1>1, <2>1 DEF SupportInv, AwaitedInv
  <2>7. \A g \in Requests : req'[g].pc = "stored" =>
          /\ StoredName(g)' = StoredName(g) /\ req[g].pc = "stored" /\ StoredName(g) # StoredName(h)
    BY <1>2 DEF StoredName
  <2>8. \A g \in Requests : req'[g].pc = "stored" =>
          StoredName(g)' \notin Queued' /\ \A w \in Putting : work[w].job.row # StoredName(g)'
    BY <2>1, <2>7 DEF SupportInv, AwaitedInv
  <2>9. \A x : Born(x)' = Born(x)
    BY <1>1 DEF Born, Named
  <2>10. \A x \in Awaited' : Born(x)'
    BY <2>3, <2>9 DEF SupportInv, AwaitedInv
  <2>11. \A r \in rows' : Name(r) \in Awaited' => r.key = 0
    BY <1>1, <2>3 DEF SupportInv, AwaitedInv
  <2>12. \A p \in Desks : \A k \in desk'[p].keys :
           KeyName(k) \notin Awaited' /\ Born(KeyName(k))' /\ k.conv = desk'[p].conv
    BY <1>1, <2>3, <2>9 DEF SupportInv, AwaitedInv
  <2>13. \A v, w \in Putting : work[v].job.row = work[w].job.row => v = w
    BY DEF SupportInv, AwaitedInv
  <2>. QED  BY <1>1, <2>1, <2>5, <2>6, <2>8, <2>10, <2>11, <2>12, <2>13 DEF AwaitedInv
<1>. QED  BY <1>1, <1>2, <1>3, <1>5, <1>6, <1>7, Frames DEF SupportInv, ShapeInv

LEMMA FailRequestStep ==
  ASSUME SupportInv, NEW h \in Requests, FailRequest(h) PROVE SupportInv'
<1>1. /\ req[h].pc \in {"greeted", "stored"} /\ req' = [req EXCEPT ![h] = NoReq]
      /\ lost' = lost \cup {<<IdFor(h), req[h].upd, h>>} /\ Fault
      /\ UNCHANGED <<kind, tg, conv, used, rows, files, jobs, desk, work,
                     stored, overlap, unseen, unrecorded, strays, spared>>
  BY DEF FailRequest
<1>2. /\ \A g \in Requests : g # h => req'[g] = req[g]
      /\ req'[h].pc = "idle"
      /\ ReqShape' /\ ConvInv' /\ GreetInv' /\ OnceInv' /\ CountInv'
  BY <1>1, RequestEnds
<1>3. ChatShape'
  BY <1>1, BoundsAssumption DEF SupportInv, ShapeInv, ChatShape, Fault
<1>4. SentInv'
  <2>1. IdFor(h) \in 1 .. MaxConvs /\ req[h].upd \in Updates
    BY <1>1, BoundsAssumption
    DEF SupportInv, ShapeInv, ChatShape, ReqShape, ConvInv, GreetInv, OnceInv, IdFor
  <2>2. unrecorded' \cup lost' \subseteq (1 .. MaxConvs) \X (Updates \cup {None}) \X (Requests \cup Desks)
    BY <1>1, <2>1 DEF SupportInv, SentInv
  <2>3. \A g \in Requests : g # h => IdFor(g)' = IdFor(g)
    BY <1>1, <1>2 DEF IdFor
  <2>4. ASSUME NEW t \in unrecorded, t \notin lost'
        PROVE  \/ \E g \in Requests : req'[g].pc = "greeted" /\ t = <<IdFor(g)', req'[g].upd, g>>
               \/ \E p \in Desks : desk'[p].pc = "replied" /\ t = <<desk'[p].conv, None, p>>
    BY <1>1, <1>2, <2>3, <2>4 DEF SupportInv, SentInv, SentIsRecorded
  <2>5. SentIsRecorded'
    BY <1>1, <2>4 DEF SentIsRecorded
  <2>. QED  BY <2>2, <2>5 DEF SentInv
<1>5. AwaitedInv'
  <2>1. Awaited' \subseteq Awaited
    BY <1>1, <1>2 DEF Awaited, Queued, Putting, StoredName
  <2>2. \A x : Born(x)' = Born(x)
    BY <1>1 DEF Born, Named
  <2>. QED  BY <1>1, <1>2, <2>1, <2>2 DEF SupportInv, AwaitedInv, Queued, Putting, StoredName
<1>. QED  BY <1>1, <1>2, <1>3, <1>4, <1>5, Frames DEF SupportInv, ShapeInv

\* A message gets on record, in the conversation there is or in the next one.
LEMMA CommitStep ==
  ASSUME SupportInv, NEW h \in Requests, NEW x, x = <<IdFor(h), req[h].upd, h>>,
         Busy(h), conv.id = req[h].seen.id,
         \A g \in Requests : req[g].pc = "greeted" => g = h,
         Commit(h), UNCHANGED <<kind, tg, files, jobs, desk, work, faults, overlap, lost, strays, spared>>
  PROVE  /\ ShapeInv' /\ ConvInv' /\ GreetInv' /\ UnseenInv' /\ OnceInv'
         /\ CountInv' /\ AwaitedInv' /\ StorageInv'
         /\ \A g \in Requests : g # h => req'[g] = req[g]
<1>. DEFINE c == IdFor(h)
            u == req[h].upd
            new == Inbound(c, u, h)
<1>0. x = <<c, u, h>>
  OBVIOUS
<1>1. /\ conv' = [id |-> c, unread |-> Bumped(h), recent |-> TRUE]
      /\ used' = IF conv.id = 0 THEN c ELSE used
      /\ rows' = rows \cup {new} /\ unseen' = unseen \cup {x}
      /\ req' = [req EXCEPT ![h].pc = "stored", ![h].seen = [id |-> c, unread |-> 0]]
  BY DEF Commit
<1>2. /\ conv.id \in Nat /\ used \in Nat /\ u \in Updates /\ c = IF conv.id = 0 THEN used + 1 ELSE conv.id
      /\ Bumped(h) = req[h].seen.unread + 1 /\ req[h].seen.unread \in Nat
  BY DEF SupportInv, ShapeInv, ChatShape, ReqShape, OnceInv, IdFor, Bumped, Busy
<1>3. /\ c \in 1 .. MaxConvs /\ used' = c /\ conv'.id = c /\ used =< c
      /\ conv.id # 0 => c = conv.id /\ used = c
      /\ conv.id = 0 => c = used + 1 /\ rows = {}
  BY <1>1, <1>2, BoundsAssumption DEF SupportInv, ConvInv
<1>4. /\ \A g \in Requests : g # h => req'[g] = req[g]
      /\ req'[h].pc = "stored" /\ req'[h].upd = u /\ req'[h].seen.id = c
  BY <1>1 DEF SupportInv, ShapeInv, ReqShape
<1>5. /\ new.conv = c /\ new.upd = u /\ new.by = h /\ new.key = 0 /\ Name(new) = x
      /\ new \in [conv : Nat, upd : Updates, by : Requests, key : 0 .. MaxTries]
  BY <1>2, <1>3, BoundsAssumption DEF Inbound, Name
<1>6. Named' = Named \cup {x}
  BY <1>1, <1>5 DEF Named
<1>7. x \notin Named
  <2>. SUFFICES ASSUME NEW r \in rows, Name(r) = x PROVE FALSE
    BY DEF Named
  <2>1. r.conv = c /\ r.upd = u /\ r.by = h
    BY DEF Name
  <2>2. r.conv = conv.id
    BY DEF SupportInv, ConvInv
  <2>. QED  BY <2>1, <2>2 DEF SupportInv, OnceInv
<1>8. ASSUME NEW y, Born(y) PROVE y # x /\ Born(y)'
  <2>1. y[1] \in 1 .. used /\ (y[1] = conv.id => y \in Named)
    BY <1>8 DEF Born
  <2>2. y # x
    <3>1. x[1] = c
      OBVIOUS
    <3>. QED  BY <1>2, <1>3, <1>7, <2>1, <3>1
  <2>3. y[1] \in 1 .. used'
    BY <1>2, <1>3, <2>1
  <2>4. y[1] = conv'.id => y \in Named'
    BY <1>2, <1>3, <1>6, <2>1
  <2>. QED  BY <2>2, <2>3, <2>4 DEF Born
<1>. HIDE DEF new, c, u
<1>9. ShapeInv'
  <2>1. conv' \in [id : Nat, unread : Nat, recent : BOOLEAN] /\ used' \in Nat
    BY <1>1, <1>2, <1>3
  <2>2. ChatShape'
    BY <2>1 DEF SupportInv, ShapeInv, ChatShape
  <2>3. ReqShape'
    <3>1. [id |-> c, unread |-> 0] \in [id : Nat, unread : Nat]
      BY <1>3
    <3>. QED  BY <1>1, <3>1 DEF SupportInv, ShapeInv, ReqShape
  <2>4. StoreShape'
    BY <1>1, <1>5 DEF SupportInv, ShapeInv, StoreShape
  <2>. QED  BY <2>2, <2>3, <2>4, Frames DEF SupportInv, ShapeInv
<1>10. ConvInv'
  <2>1. \A r \in rows' : r.conv = c
    BY <1>1, <1>3, <1>5 DEF SupportInv, ConvInv
  <2>2. \A p \in Desks : desk[p].conv \in Nat /\ desk[p].conv =< used
    BY DEF SupportInv, ConvInv, ShapeInv, DeskShape
  <2>3. \A p \in Desks : desk[p].conv =< c
    BY <1>2, <1>3, <2>2
  <2>4. \A g \in Requests : req'[g].seen.id =< c
    BY <1>2, <1>3, <1>4 DEF SupportInv, ConvInv, ShapeInv, ReqShape
  <2>. QED  BY <1>3, <1>4, <2>1, <2>3, <2>4 DEF SupportInv, ConvInv
<1>11. GreetInv'
  BY <1>4 DEF GreetInv
<1>12. UnseenInv'
  BY <1>1, <1>2, <1>6 DEF SupportInv, UnseenInv
<1>13. OnceInv'
  <2>1. \A g \in Requests : g # h /\ req[g].upd = u => u \in overlap
    BY <1>2, NoneAssumption DEF SupportInv, OnceInv, u
  <2>2. ASSUME NEW g \in Requests, NEW r \in rows', Busy(g)', req'[g].seen.id = r.conv, r.upd = req'[g].upd
        PROVE  r.by # g /\ r.upd \in overlap'
    <3>1. g # h /\ req'[g] = req[g] /\ Busy(g)
      BY <1>4, <2>2 DEF Busy
    <3>. QED  BY <1>1, <1>5, <2>1, <2>2, <3>1 DEF SupportInv, OnceInv
  <2>3. ASSUME NEW r \in rows, r.conv = c, r.upd = u PROVE u \in overlap
    BY <1>3, <2>3 DEF SupportInv, OnceInv, u
  <2>4. DoublesAreOverlaps'
    BY <1>1, <1>5, <2>3 DEF SupportInv, OnceInv, DoublesAreOverlaps
  <2>5. \A f, g \in Requests : req'[f].upd = req[f].upd /\ (req'[f].pc = "idle" => req[f].pc = "idle")
    BY <1>4 DEF u
  <2>6. \A g \in Requests : req'[g].pc # "idle" => req'[g].upd \in Updates
    BY <1>2, <1>4 DEF SupportInv, OnceInv
  <2>. QED  BY <2>2, <2>4, <2>5, <2>6 DEF SupportInv, OnceInv
<1>14. CountInv'
  <2>1. IsFiniteSet(Named) /\ Cardinality(Named) \in Nat
    BY FS_CardinalityType DEF SupportInv, CountInv
  <2>2. IsFiniteSet(Named') /\ Cardinality(Named') = Cardinality(Named) + 1
    BY <1>6, <1>7, <2>1, FS_AddElement
  <2>3. req[h].seen.unread =< Cardinality(Named)
    BY DEF SupportInv, CountInv
  <2>4. ASSUME NEW g \in Requests, Busy(g)', req'[g].seen.id = c
        PROVE  req'[g].seen.unread =< Cardinality(Named')
    <3>1. g # h /\ req'[g] = req[g] /\ Busy(g)
      BY <1>4, <2>4 DEF Busy
    <3>2. req[g].seen.id =< used /\ req[g].seen.unread \in Nat
      BY DEF SupportInv, ShapeInv, ReqShape, ConvInv
    <3>3. c = conv.id
      BY <1>2, <1>3, <2>4, <3>1, <3>2
    <3>4. req[g].seen.unread =< Cardinality(Named)
      BY <2>4, <3>1, <3>3 DEF SupportInv, CountInv
    <3>. QED  BY <2>1, <2>2, <3>1, <3>2, <3>4
  <2>5. conv'.unread =< Cardinality(Named')
    BY <1>1, <1>2, <2>1, <2>2, <2>3
  <2>6. ASSUME NEW g \in Requests, Busy(g)', req'[g].seen.id = 0 PROVE req'[g].seen.unread = 0
    BY <1>4, <2>6 DEF SupportInv, CountInv, Busy
  <2>. QED  BY <1>3, <2>2, <2>4, <2>5, <2>6 DEF CountInv
<1>15. AwaitedInv'
  <2>1. StoredName(h)' = x /\ \A g \in Requests : g # h => StoredName(g)' = StoredName(g)
    BY <1>0, <1>4 DEF StoredName
  <2>2. Queued' = Queued /\ Putting' = Putting /\ work' = work /\ jobs' = jobs /\ desk' = desk
    BY DEF Queued, Putting
  <2>3. Awaited' \subseteq Awaited \cup {x}
    BY <1>4, <2>1, <2>2 DEF Awaited
  <2>4. x \notin Awaited
    BY <1>8 DEF SupportInv, AwaitedInv
  <2>5. Born(x)'
    <3>1. x[1] = c /\ x \in Named'
      BY <1>0, <1>6
    <3>2. c \in 1 .. used'
      BY <1>3
    <3>. QED  BY <3>1, <3>2 DEF Born
  <2>6. ASSUME NEW y \in Awaited' PROVE Born(y)'
    <3>1. CASE y = x
      BY <2>5, <3>1
    <3>2. CASE y # x
      <4>1. Born(y)
        BY <2>3, <2>6, <3>2 DEF SupportInv, AwaitedInv
      <4>. QED  BY <1>8, <4>1
    <3>. QED  BY <3>1, <3>2
  <2>7. \A r \in rows' : Name(r) \in Awaited' => r.key = 0
    <3>1. \A r \in rows : Name(r) \in Named
      BY DEF Named
    <3>. QED  BY <1>1, <1>5, <1>7, <2>3, <3>1 DEF SupportInv, AwaitedInv
  <2>8. \A p \in Desks : \A k \in desk[p].keys :
          KeyName(k) \notin Awaited' /\ Born(KeyName(k))' /\ k.conv = desk[p].conv
    BY <1>8, <2>3 DEF SupportInv, AwaitedInv
  <2>9. ASSUME NEW g \in Requests, req'[g].pc = "stored"
        PROVE  StoredName(g)' \notin Queued /\ \A w \in Putting : work[w].job.row # StoredName(g)'
    <3>1. CASE g = h
      BY <2>1, <2>4, <3>1 DEF Awaited
    <3>2. CASE g # h
      BY <1>4, <2>1, <2>9, <3>2 DEF SupportInv, AwaitedInv
    <3>. QED  BY <3>1, <3>2
  <2>. QED  BY <2>2, <2>6, <2>7, <2>8, <2>9 DEF SupportInv, AwaitedInv
<1>16. StorageInv'
  <2>1. Putting' = Putting
    BY DEF Putting
  <2>2. KeysLead'
    BY <1>1, <1>5 DEF SupportInv, StorageInv, KeysLead
  <2>3. \A p \in Desks : desk[p].pc = "remove" => desk[p].conv # c \/ desk[p].conv \in spared
    BY <1>2, <1>3 DEF SupportInv, StorageInv, ConvInv, ShapeInv, DeskShape
  <2>4. \A p \in Desks, r \in rows' :
          Erases(p)' /\ r.conv = desk[p].conv /\ r.key # 0 =>
            KeyOf(Name(r), r.key) \in desk[p].keys \cup strays
    BY <1>1, <1>5 DEF SupportInv, StorageInv, Erases
  <2>5. \A f \in files : (\E r \in rows : r.key # 0 /\ KeyOf(Name(r), r.key) = f)
                      => \E r \in rows' : r.key # 0 /\ KeyOf(Name(r), r.key) = f
    BY <1>1
  <2>. QED  BY <1>3, <2>1, <2>2, <2>3, <2>4, <2>5 DEF SupportInv, StorageInv
<1>. QED  BY <1>4, <1>9, <1>10, <1>11, <1>12, <1>13, <1>14, <1>15, <1>16

LEMMA StoreStep ==
  ASSUME SupportInv, NEW h \in Requests, Store(h) PROVE SupportInv'
<1>1. /\ Busy(h) /\ conv.id = req[h].seen.id /\ ~Locked /\ Commit(h)
      /\ UNCHANGED <<kind, tg, files, jobs, desk, work, faults, overlap, unrecorded, lost, strays, spared>>
  BY DEF Store, Busy
<1>2. \A g \in Requests : req[g].pc # "greeted"
  BY <1>1 DEF Locked
<1>3. \E x : x = <<IdFor(h), req[h].upd, h>>
  OBVIOUS
<1>4. /\ ShapeInv' /\ ConvInv' /\ GreetInv' /\ UnseenInv' /\ OnceInv'
      /\ CountInv' /\ AwaitedInv' /\ StorageInv'
      /\ \A g \in Requests : g # h => req'[g] = req[g]
  BY <1>1, <1>2, <1>3, CommitStep
<1>5. SentInv'
  BY <1>1, <1>2 DEF SupportInv, SentInv, SentIsRecorded
<1>. QED  BY <1>4, <1>5 DEF SupportInv

LEMMA CommitStartStep ==
  ASSUME SupportInv, NEW h \in Requests, CommitStart(h) PROVE SupportInv'
<1>1. /\ req[h].pc = "greeted" /\ Commit(h)
      /\ unrecorded' = unrecorded \ {<<IdFor(h), req[h].upd, h>>}
      /\ UNCHANGED <<kind, tg, files, jobs, desk, work, faults, overlap, lost, strays, spared>>
  BY DEF CommitStart
<1>2. /\ Busy(h) /\ conv.id = req[h].seen.id
      /\ \A g \in Requests : req[g].pc = "greeted" => g = h
  BY <1>1 DEF SupportInv, GreetInv, Busy
<1>3. \E x : x = <<IdFor(h), req[h].upd, h>>
  OBVIOUS
<1>4. /\ ShapeInv' /\ ConvInv' /\ GreetInv' /\ UnseenInv' /\ OnceInv'
      /\ CountInv' /\ AwaitedInv' /\ StorageInv'
      /\ \A g \in Requests : g # h => req'[g] = req[g]
  BY <1>1, <1>2, <1>3, CommitStep
<1>5. SentInv'
  BY <1>1, <1>2 DEF SupportInv, SentInv, SentIsRecorded
<1>. QED  BY <1>4, <1>5 DEF SupportInv

\* An operator moves who is not erasing anything.
LEMMA DeskMoves ==
  ASSUME SupportInv, NEW p \in Desks, NEW d, d = desk'[p],
         DeskShape', \A q \in Desks : q # p => desk'[q] = desk[q],
         d \in [pc : {"idle", "opened", "replied"}, conv : Nat, keys : {{}}], d.conv =< used,
         d.pc = "replied" => d.conv = conv.id /\ conv.id # 0,
         desk[p].pc \in {"idle", "opened", "replied"},
         UNCHANGED <<conv.id, used, rows, files, jobs, req, work, strays, spared>>,
         conv'.unread \in {0, conv.unread}
  PROVE  /\ ConvInv' /\ CountInv' /\ AwaitedInv' /\ StorageInv'
<1>1. desk[p].keys = {} /\ d.keys = {} /\ d.pc \in {"idle", "opened", "replied"}
  BY DEF SupportInv, ConvInv
<1>2. ConvInv'
  BY <1>1 DEF SupportInv, ConvInv
<1>3. CountInv'
  <2>1. Named' = Named /\ Cardinality(Named) \in Nat
    BY FS_CardinalityType DEF SupportInv, CountInv, Named
  <2>. QED  BY <2>1 DEF SupportInv, CountInv, Busy
<1>4. AwaitedInv'
  <2>1. Awaited' = Awaited /\ Queued' = Queued /\ Putting' = Putting
    BY DEF Awaited, Queued, Putting, StoredName
  <2>2. \A x : Born(x)' = Born(x)
    BY DEF Born, Named
  <2>3. \A q \in Desks : \A k \in desk'[q].keys : k \in desk[q].keys /\ desk'[q] = desk[q]
    BY <1>1
  <2>. QED  BY <2>1, <2>2, <2>3 DEF SupportInv, AwaitedInv, StoredName
<1>5. StorageInv'
  <2>1. Putting' = Putting
    BY DEF Putting
  <2>2. \A q \in Desks : /\ desk[q].pc = "remove" => desk'[q] = desk[q]
                         /\ desk'[q].pc = "remove" => desk'[q] = desk[q]
                         /\ Erases(q)' => Erases(q) /\ desk'[q] = desk[q]
    BY <1>1 DEF Erases
  <2>3. KeysLead'
    BY DEF SupportInv, StorageInv, KeysLead
  <2>4. \A q \in Desks : desk'[q].pc = "remove" => desk'[q].conv # conv.id \/ desk'[q].conv \in spared
    BY <2>2 DEF SupportInv, StorageInv
  <2>5. \A q \in Desks, r \in rows :
          Erases(q)' /\ r.conv = desk'[q].conv /\ r.key # 0 =>
            KeyOf(Name(r), r.key) \in desk'[q].keys \cup strays
    BY <2>2 DEF SupportInv, StorageInv
  <2>. QED  BY <2>1, <2>2, <2>3, <2>4, <2>5 DEF SupportInv, StorageInv
<1>. QED  BY <1>2, <1>3, <1>4, <1>5

\* What the customer was sent is on record as before.
LEMMA SentKept ==
  ASSUME SupportInv, NEW p \in Desks, desk[p].pc # "replied",
         \A q \in Desks : q # p => desk'[q] = desk[q], UNCHANGED <<unrecorded, req, used>>,
         lost \subseteq lost',
         lost' \subseteq (1 .. MaxConvs) \X (Updates \cup {None}) \X (Requests \cup Desks)
  PROVE  SentInv'
<1>1. \A g \in Requests : IdFor(g)' = IdFor(g)
  BY DEF IdFor
<1>2. ASSUME NEW t \in unrecorded, t \notin lost'
      PROVE  \/ \E g \in Requests : req'[g].pc = "greeted" /\ t = <<IdFor(g)', req'[g].upd, g>>
             \/ \E q \in Desks : desk'[q].pc = "replied" /\ t = <<desk'[q].conv, None, q>>
  <2>1. CASE \E g \in Requests : req[g].pc = "greeted" /\ t = <<IdFor(g), req[g].upd, g>>
    BY <1>1, <2>1
  <2>2. CASE \E q \in Desks : desk[q].pc = "replied" /\ t = <<desk[q].conv, None, q>>
    BY <2>2
  <2>. QED  BY <1>2, <2>1, <2>2 DEF SupportInv, SentInv, SentIsRecorded
<1>3. SentIsRecorded'
  BY <1>2 DEF SentIsRecorded
<1>. QED  BY <1>3 DEF SupportInv, SentInv

LEMMA OpenStep ==
  ASSUME SupportInv, NEW p \in Desks, Open(p) PROVE SupportInv'
<1>1. /\ desk[p].pc = "idle" /\ conv.id # 0
      /\ conv' = [conv EXCEPT !.unread = 0]
      /\ desk' = [desk EXCEPT ![p].pc = "opened", ![p].conv = conv.id]
      /\ UNCHANGED <<kind, tg, used, rows, files, jobs, req, work, faults,
                     stored, overlap, unseen, unrecorded, lost, strays, spared>>
  BY DEF Open, history
<1>2. conv'.id = conv.id /\ conv'.unread = 0 /\ ChatShape' /\ conv.id \in Nat
  BY <1>1 DEF SupportInv, ShapeInv, ChatShape
<1>3. PICK d : d = desk'[p]
  OBVIOUS
<1>4. /\ d.pc = "opened" /\ d.conv = conv.id /\ d.keys = desk[p].keys
      /\ \A q \in Desks : q # p => desk'[q] = desk[q]
  BY <1>1, <1>3 DEF SupportInv, ShapeInv, DeskShape
<1>5. DeskShape'
  BY <1>1, <1>2 DEF SupportInv, ShapeInv, DeskShape
<1>6. d \in [pc : {"idle", "opened", "replied"}, conv : Nat, keys : {{}}] /\ d.conv =< used
  <2>1. desk[p].keys = {} /\ conv.id =< used
    BY <1>1, <1>2 DEF SupportInv, ShapeInv, ChatShape, ConvInv
  <2>2. d \in [pc : {"idle", "opened", "replied", "erase", "purge", "remove"}, conv : Nat,
               keys : SUBSET Keys]
    BY <1>3, <1>5 DEF DeskShape
  <2>. QED  BY <1>4, <2>1, <2>2
<1>7. ConvInv' /\ CountInv' /\ AwaitedInv' /\ StorageInv'
  BY <1>1, <1>2, <1>3, <1>4, <1>5, <1>6, DeskMoves
<1>8. UnseenInv'
  <2>1. Named' = Named /\ desk'[p].pc = "opened" /\ desk'[p].conv = conv'.id
    BY <1>1, <1>2, <1>3, <1>4 DEF Named
  <2>. QED  BY <1>1, <2>1 DEF SupportInv, UnseenInv
<1>9. SentInv'
  BY <1>1, <1>4, SentKept DEF SupportInv, SentInv
<1>. QED  BY <1>1, <1>2, <1>5, <1>7, <1>8, <1>9, Frames DEF SupportInv, ShapeInv

\* An operator is done who erased nothing.
LEMMA DeskEnds ==
  ASSUME SupportInv, NEW p \in Desks, desk' = [desk EXCEPT ![p] = NoDesk],
         desk[p].pc \in {"opened", "replied"},
         UNCHANGED <<conv.id, used, rows, files, jobs, req, work, strays, spared>>,
         conv'.unread \in {0, conv.unread}
  PROVE  /\ desk'[p].pc = "idle" /\ \A q \in Desks : q # p => desk'[q] = desk[q]
         /\ DeskShape' /\ ConvInv' /\ CountInv' /\ AwaitedInv' /\ StorageInv'
<1>1. PICK d : d = desk'[p]
  OBVIOUS
<1>2. /\ d.pc = "idle" /\ d \in [pc : {"idle", "opened", "replied"}, conv : Nat, keys : {{}}]
      /\ d.conv =< used /\ \A q \in Desks : q # p => desk'[q] = desk[q]
  BY <1>1 DEF SupportInv, ShapeInv, ChatShape, DeskShape, NoDesk
<1>3. DeskShape'
  BY DEF SupportInv, ShapeInv, DeskShape, NoDesk
<1>. QED  BY <1>1, <1>2, <1>3, DeskMoves

\* Who reads the thread of the conversation there is sees all of it.
LEMMA ShowsAll ==
  ASSUME SupportInv, NEW p \in Desks, desk[p].conv = conv.id
  PROVE  Named \subseteq Show(p)
BY DEF SupportInv, ConvInv, Named, Show

LEMMA ReadStep ==
  ASSUME SupportInv, NEW p \in Desks, Read(p) PROVE SupportInv'
<1>1. /\ desk[p].pc = "opened" /\ desk' = [desk EXCEPT ![p] = NoDesk]
      /\ \/ unseen' = unseen \ Show(p) /\ UNCHANGED <<faults, lost>>
         \/ Fault /\ lost' = lost \cup Named /\ UNCHANGED unseen
      /\ UNCHANGED <<kind, tg, conv, used, rows, files, jobs, req, work,
                     stored, overlap, unrecorded, strays, spared>>
  BY DEF Read, Named
<1>2. /\ desk'[p].pc = "idle" /\ \A q \in Desks : q # p => desk'[q] = desk[q]
      /\ DeskShape' /\ ConvInv' /\ CountInv' /\ AwaitedInv' /\ StorageInv'
  BY <1>1, DeskEnds
<1>3. ChatShape'
  BY <1>1, BoundsAssumption DEF SupportInv, ShapeInv, ChatShape, Fault
<1>4. UnseenInv'
  <2>1. Named' = Named /\ unseen' \subseteq unseen /\ lost \subseteq lost'
    BY <1>1 DEF Named
  <2>2. CASE unseen' \subseteq lost' \/ conv'.unread > 0
    BY <2>1, <2>2 DEF SupportInv, UnseenInv
  <2>3. CASE ~(unseen' \subseteq lost' \/ conv'.unread > 0)
    <3>1. PICK q \in Desks : desk[q].pc = "opened" /\ desk[q].conv = conv.id
      BY <1>1, <2>1, <2>3 DEF SupportInv, UnseenInv
    <3>2. unseen' = unseen \ Show(p)
      BY <1>1, <2>1, <2>3 DEF SupportInv, UnseenInv
    <3>3. q # p
      BY <2>3, <3>1, <3>2, ShowsAll DEF SupportInv, UnseenInv
    <3>. QED  BY <1>1, <1>2, <2>1, <3>1, <3>3 DEF SupportInv, UnseenInv
  <2>. QED  BY <2>2, <2>3
<1>5. Named \subseteq (1 .. MaxConvs) \X (Updates \cup {None}) \X (Requests \cup Desks)
  BY BoundsAssumption
  DEF SupportInv, ShapeInv, ChatShape, StoreShape, ConvInv, Named, Name
<1>6. SentInv'
  <2>1. lost' \subseteq (1 .. MaxConvs) \X (Updates \cup {None}) \X (Requests \cup Desks)
    BY <1>1, <1>5 DEF SupportInv, SentInv
  <2>. QED  BY <1>1, <1>2, <2>1, SentKept
<1>. QED  BY <1>1, <1>2, <1>3, <1>4, <1>6, Frames DEF SupportInv, ShapeInv

LEMMA ReplyStep ==
  ASSUME SupportInv, NEW p \in Desks, Reply(p) PROVE SupportInv'
<1>1. /\ desk[p].pc = "idle" /\ conv.id # 0
      /\ unrecorded' \in {unrecorded, unrecorded \cup {<<conv.id, None, p>>}}
      /\ desk' = [desk EXCEPT ![p].pc = "replied", ![p].conv = conv.id]
      /\ UNCHANGED <<kind, tg, conv, used, rows, files, jobs, req, work, faults,
                     stored, overlap, unseen, lost, strays, spared>>
  BY DEF Reply
<1>2. PICK d : d = desk'[p]
  OBVIOUS
<1>3. /\ d.pc = "replied" /\ d.conv = conv.id /\ d.keys = desk[p].keys
      /\ \A q \in Desks : q # p => desk'[q] = desk[q]
  BY <1>1, <1>2 DEF SupportInv, ShapeInv, DeskShape
<1>4. conv.id \in 1 .. MaxConvs /\ conv.id =< used /\ conv.id \in Nat
  BY <1>1, BoundsAssumption DEF SupportInv, ShapeInv, ChatShape, ConvInv
<1>5. DeskShape'
  BY <1>1, <1>4 DEF SupportInv, ShapeInv, DeskShape
<1>6. d \in [pc : {"idle", "opened", "replied"}, conv : Nat, keys : {{}}]
  <2>1. desk[p].keys = {}
    BY <1>1 DEF SupportInv, ConvInv
  <2>2. d \in [pc : {"idle", "opened", "replied", "erase", "purge", "remove"}, conv : Nat,
               keys : SUBSET Keys]
    BY <1>2, <1>5 DEF DeskShape
  <2>. QED  BY <1>3, <2>1, <2>2
<1>7. ConvInv' /\ CountInv' /\ AwaitedInv' /\ StorageInv'
  BY <1>1, <1>2, <1>3, <1>4, <1>5, <1>6, DeskMoves
<1>8. UnseenInv'
  <2>1. Named' = Named /\ \A q \in Desks : desk[q].pc = "opened" => desk'[q] = desk[q]
    BY <1>1, <1>3 DEF Named
  <2>. QED  BY <1>1, <2>1 DEF SupportInv, UnseenInv
<1>9. SentInv'
  <2>1. \A g \in Requests : IdFor(g)' = IdFor(g)
    BY <1>1 DEF IdFor
  <2>2. \A q \in Desks : desk[q].pc = "replied" => desk'[q] = desk[q]
    BY <1>1, <1>3
  <2>3. ASSUME NEW t \in unrecorded, t \notin lost
        PROVE  \/ \E g \in Requests : req'[g].pc = "greeted" /\ t = <<IdFor(g)', req'[g].upd, g>>
               \/ \E q \in Desks : desk'[q].pc = "replied" /\ t = <<desk'[q].conv, None, q>>
    <3>1. CASE \E g \in Requests : req[g].pc = "greeted" /\ t = <<IdFor(g), req[g].upd, g>>
      BY <1>1, <2>1, <3>1
    <3>2. CASE \E q \in Desks : desk[q].pc = "replied" /\ t = <<desk[q].conv, None, q>>
      BY <2>2, <3>2
    <3>. QED  BY <2>3, <3>1, <3>2 DEF SupportInv, SentInv, SentIsRecorded
  <2>4. \E q \in Desks : desk'[q].pc = "replied" /\ <<conv.id, None, p>> = <<desk'[q].conv, None, q>>
    BY <1>2, <1>3
  <2>5. SentIsRecorded'
    BY <1>1, <2>3, <2>4 DEF SentIsRecorded
  <2>6. unrecorded' \cup lost' \subseteq (1 .. MaxConvs) \X (Updates \cup {None}) \X (Requests \cup Desks)
    BY <1>1, <1>4 DEF SupportInv, SentInv
  <2>. QED  BY <2>5, <2>6 DEF SentInv
<1>. QED  BY <1>1, <1>5, <1>7, <1>8, <1>9, Frames DEF SupportInv, ShapeInv

LEMMA CommitReplyStep ==
  ASSUME SupportInv, NEW p \in Desks, CommitReply(p) PROVE SupportInv'
<1>1. /\ desk[p].pc = "replied" /\ ~Locked
      /\ conv' = [conv EXCEPT !.unread = 0, !.recent = TRUE]
      /\ unseen' = unseen \ Show(p)
      /\ unrecorded' = unrecorded \ {<<desk[p].conv, None, p>>}
      /\ desk' = [desk EXCEPT ![p] = NoDesk]
      /\ UNCHANGED <<kind, tg, used, rows, files, jobs, req, work, faults,
                     stored, overlap, lost, strays, spared>>
  BY DEF CommitReply
<1>2. conv'.id = conv.id /\ conv'.unread = 0 /\ ChatShape'
  BY <1>1 DEF SupportInv, ShapeInv, ChatShape
<1>3. /\ desk'[p].pc = "idle" /\ \A q \in Desks : q # p => desk'[q] = desk[q]
      /\ DeskShape' /\ ConvInv' /\ CountInv' /\ AwaitedInv' /\ StorageInv'
  BY <1>1, <1>2, DeskEnds
<1>4. unseen' = {}
  <2>1. desk[p].conv = conv.id
    BY <1>1 DEF SupportInv, ConvInv
  <2>. QED  BY <1>1, <2>1, ShowsAll DEF SupportInv, UnseenInv
<1>5. UnseenInv'
  BY <1>4 DEF UnseenInv
<1>6. SentInv'
  <2>1. \A g \in Requests : req[g].pc # "greeted"
    BY <1>1 DEF Locked
  <2>2. \A t \in unrecorded' :
          \/ t \in lost
          \/ \E q \in Desks : desk[q].pc = "replied" /\ q # p /\ t = <<desk[q].conv, None, q>>
    BY <1>1, <2>1 DEF SupportInv, SentInv, SentIsRecorded
  <2>3. SentIsRecorded'
    BY <1>1, <1>3, <2>2 DEF SentIsRecorded
  <2>. QED  BY <1>1, <2>3 DEF SupportInv, SentInv
<1>. QED  BY <1>1, <1>2, <1>3, <1>5, <1>6, Frames DEF SupportInv, ShapeInv

LEMMA FailReplyStep ==
  ASSUME SupportInv, NEW p \in Desks, FailReply(p) PROVE SupportInv'
<1>1. /\ desk[p].pc = "replied" /\ Fault
      /\ lost' = lost \cup {<<desk[p].conv, None, p>>}
      /\ desk' = [desk EXCEPT ![p] = NoDesk]
      /\ UNCHANGED <<kind, tg, conv, used, rows, files, jobs, req, work,
                     stored, overlap, unseen, unrecorded, strays, spared>>
  BY DEF FailReply
<1>2. ChatShape'
  BY <1>1, BoundsAssumption DEF SupportInv, ShapeInv, ChatShape, Fault
<1>3. /\ desk'[p].pc = "idle" /\ \A q \in Desks : q # p => desk'[q] = desk[q]
      /\ DeskShape' /\ ConvInv' /\ CountInv' /\ AwaitedInv' /\ StorageInv'
  BY <1>1, DeskEnds
<1>4. UnseenInv'
  <2>1. Named' = Named /\ \A q \in Desks : desk[q].pc = "opened" => desk'[q] = desk[q]
    BY <1>1, <1>3 DEF Named
  <2>. QED  BY <1>1, <2>1 DEF SupportInv, UnseenInv
<1>5. SentInv'
  <2>1. desk[p].conv \in 1 .. MaxConvs
    BY <1>1, BoundsAssumption DEF SupportInv, ShapeInv, ChatShape, ConvInv
  <2>2. unrecorded' \cup lost' \subseteq (1 .. MaxConvs) \X (Updates \cup {None}) \X (Requests \cup Desks)
    BY <1>1, <2>1 DEF SupportInv, SentInv
  <2>3. \A g \in Requests : IdFor(g)' = IdFor(g)
    BY <1>1 DEF IdFor
  <2>4. \A q \in Desks : desk[q].pc = "replied" => q = p \/ desk'[q] = desk[q]
    BY <1>3
  <2>5. ASSUME NEW t \in unrecorded, t \notin lost'
        PROVE  \/ \E g \in Requests : req'[g].pc = "greeted" /\ t = <<IdFor(g)', req'[g].upd, g>>
               \/ \E q \in Desks : desk'[q].pc = "replied" /\ t = <<desk'[q].conv, None, q>>
    BY <1>1, <2>3, <2>4, <2>5 DEF SupportInv, SentInv, SentIsRecorded
  <2>6. SentIsRecorded'
    BY <1>1, <2>5 DEF SentIsRecorded
  <2>. QED  BY <2>2, <2>6 DEF SentInv
<1>. QED  BY <1>1, <1>2, <1>3, <1>4, <1>5, Frames DEF SupportInv, ShapeInv

LEMMA BeginErasureStep ==
  ASSUME SupportInv, NEW p \in Desks, NEW pc \in {"erase", "purge"}, BeginErasure(p, pc)
  PROVE  SupportInv'
<1>. DEFINE keys == KeysOf(conv.id)
<1>1. /\ desk[p].pc = "idle" /\ conv.id # 0 /\ conv.id < MaxConvs
      /\ desk' = [desk EXCEPT ![p] = [pc |-> pc, conv |-> conv.id, keys |-> keys]]
      /\ UNCHANGED <<kind, tg, conv, used, rows, files, jobs, req, work, faults,
                     stored, overlap, unseen, unrecorded, lost, strays, spared>>
  BY DEF BeginErasure, history
<1>2. conv.id \in Nat /\ conv.id = used /\ \A r \in rows : r.conv = conv.id
  BY <1>1 DEF SupportInv, ShapeInv, ChatShape, ConvInv
<1>3. ASSUME NEW k \in keys
      PROVE  /\ k \in Keys /\ k.conv = conv.id
             /\ \E r \in rows : r.key # 0 /\ KeyName(k) = Name(r)
  <2>1. PICK r \in rows : r.key # 0 /\ r.conv = conv.id /\ k = KeyOf(Name(r), r.key)
    BY DEF KeysOf
  <2>2. r \in [conv : Nat, upd : Updates, by : Requests, key : 0 .. MaxTries]
    BY DEF SupportInv, ShapeInv, StoreShape
  <2>3. k = [conv |-> r.conv, upd |-> r.upd, by |-> r.by, n |-> r.key]
    BY <2>1 DEF KeyOf, Name
  <2>4. r.key \in 1 .. MaxTries
    BY <2>1, <2>2, BoundsAssumption
  <2>. QED  BY <2>1, <2>2, <2>3, <2>4 DEF Keys, KeyName, Name
<1>4. \A r \in rows : r.key # 0 => KeyOf(Name(r), r.key) \in keys
  BY <1>2 DEF KeysOf
<1>. HIDE DEF keys
<1>5. /\ desk'[p].pc = pc /\ desk'[p].conv = conv.id /\ desk'[p].keys = keys
      /\ \A q \in Desks : q # p => desk'[q] = desk[q]
  BY <1>1 DEF SupportInv, ShapeInv, DeskShape
<1>6. DeskShape'
  <2>1. keys \subseteq Keys
    BY <1>3
  <2>. QED  BY <1>1, <1>2, <2>1 DEF SupportInv, ShapeInv, DeskShape
<1>7. ConvInv'
  BY <1>1, <1>2, <1>5, BoundsAssumption DEF SupportInv, ConvInv
<1>8. UnseenInv'
  <2>1. Named' = Named /\ \A q \in Desks : desk[q].pc = "opened" => desk'[q] = desk[q]
    BY <1>1, <1>5 DEF Named
  <2>. QED  BY <1>1, <2>1 DEF SupportInv, UnseenInv
<1>9. SentInv'
  BY <1>1, <1>5, SentKept DEF SupportInv, SentInv
<1>10. AwaitedInv'
  <2>1. Awaited' = Awaited /\ Queued' = Queued /\ Putting' = Putting
    BY <1>1 DEF Awaited, Queued, Putting, StoredName
  <2>2. \A x : Born(x)' = Born(x)
    BY <1>1 DEF Born, Named
  <2>3. ASSUME NEW k \in keys PROVE KeyName(k) \notin Awaited /\ Born(KeyName(k))
    <3>1. PICK r \in rows : r.key # 0 /\ KeyName(k) = Name(r)
      BY <1>3
    <3>2. Name(r) \in Named /\ Name(r)[1] = conv.id
      BY <1>2 DEF Named, Name
    <3>3. conv.id \in 1 .. used
      BY <1>1, <1>2
    <3>4. Name(r) \notin Awaited
      BY <3>1 DEF SupportInv, AwaitedInv
    <3>. QED  BY <3>1, <3>2, <3>3, <3>4 DEF Born
  <2>4. \A q \in Desks : \A k \in desk'[q].keys :
          KeyName(k) \notin Awaited' /\ Born(KeyName(k))' /\ k.conv = desk'[q].conv
    BY <1>3, <1>5, <2>1, <2>2, <2>3 DEF SupportInv, AwaitedInv
  <2>. QED  BY <1>1, <2>1, <2>2, <2>4 DEF SupportInv, AwaitedInv, StoredName
<1>11. StorageInv'
  <2>1. Putting' = Putting
    BY <1>1 DEF Putting
  <2>2. \A q \in Desks : /\ desk[q].pc = "remove" => desk'[q] = desk[q]
                         /\ desk'[q].pc = "remove" => desk'[q] = desk[q]
    BY <1>1, <1>5
  <2>3. KeysLead'
    BY <1>1 DEF SupportInv, StorageInv, KeysLead
  <2>4. \A q \in Desks : desk'[q].pc = "remove" => desk'[q].conv # conv.id \/ desk'[q].conv \in spared
    BY <2>2 DEF SupportInv, StorageInv
  <2>5. \A q \in Desks, r \in rows :
          Erases(q)' /\ r.conv = desk'[q].conv /\ r.key # 0 =>
            KeyOf(Name(r), r.key) \in desk'[q].keys \cup strays
    BY <1>4, <1>5 DEF SupportInv, StorageInv, Erases
  <2>. QED  BY <1>1, <2>1, <2>2, <2>3, <2>4, <2>5 DEF SupportInv, StorageInv
<1>. QED  BY <1>1, <1>6, <1>7, <1>8, <1>9, <1>10, <1>11, Frames DEF SupportInv, ShapeInv

\* Who erases goes on to remove keys it read, or is done; nothing else moves but the rows.
LEMMA DeskErases ==
  ASSUME SupportInv, NEW p \in Desks, NEW d, d = desk'[p],
         desk' = [desk EXCEPT ![p] = d],
         desk[p].pc \in {"erase", "purge", "remove"},
         \/ d = NoDesk
         \/ d.pc = "remove" /\ d.conv = desk[p].conv /\ d.keys \subseteq desk[p].keys
              /\ d \in [pc : {"remove"}, conv : Nat, keys : SUBSET Keys],
         \/ UNCHANGED <<conv, rows>>
         \/ conv.id # 0 /\ conv.id < MaxConvs /\ conv' = NoConv /\ rows' = {}
              /\ \A q \in Desks : desk[q].pc # "replied",
         UNCHANGED <<used, req, jobs, work, unrecorded, lost>>
  PROVE  DeskShape' /\ ConvInv' /\ SentInv' /\ AwaitedInv'
<1>1. /\ \A q \in Desks : q # p => desk'[q] = desk[q]
      /\ d.keys \subseteq desk[p].keys /\ d.pc \in {"idle", "remove"}
      /\ d.pc = "idle" => d.conv = 0 /\ d.keys = {}
      /\ d.pc = "remove" => d.conv = desk[p].conv
  BY DEF SupportInv, ShapeInv, DeskShape, NoDesk
<1>2. DeskShape'
  BY DEF SupportInv, ShapeInv, DeskShape, NoDesk
<1>3. conv'.id = conv.id \/ conv'.id = 0
  BY DEF NoConv
<1>4. ConvInv'
  <2>1. CASE UNCHANGED <<conv, rows>>
    BY <1>1, <2>1 DEF SupportInv, ShapeInv, ChatShape, ConvInv
  <2>2. CASE /\ conv.id # 0 /\ conv.id < MaxConvs /\ conv' = NoConv /\ rows' = {}
             /\ \A q \in Desks : desk[q].pc # "replied"
    <3>1. conv'.id = 0 /\ conv'.unread = 0 /\ used < MaxConvs
      BY <2>2 DEF NoConv, SupportInv, ConvInv
    <3>. QED  BY <1>1, <2>2, <3>1 DEF SupportInv, ShapeInv, ChatShape, ConvInv
  <2>. QED  BY <2>1, <2>2
<1>5. SentInv'
  BY <1>1, SentKept DEF SupportInv, SentInv
<1>6. AwaitedInv'
  <2>1. Awaited' = Awaited /\ Queued' = Queued /\ Putting' = Putting
        /\ \A h \in Requests : StoredName(h)' = StoredName(h)
    BY DEF Awaited, Queued, Putting, StoredName
  <2>2. ASSUME NEW x, Born(x) PROVE Born(x)'
    BY <2>2 DEF Born, Named, NoConv
  <2>3. \A r \in rows' : r \in rows
    OBVIOUS
  <2>4. \A q \in Desks : \A k \in desk'[q].keys : k \in desk[q].keys /\ desk'[q].conv = desk[q].conv
    BY <1>1
  <2>. QED  BY <2>1, <2>2, <2>3, <2>4 DEF SupportInv, AwaitedInv
<1>. QED  BY <1>2, <1>4, <1>5, <1>6

LEMMA EraseStep ==
  ASSUME SupportInv, NEW p \in Desks, Erase(p) PROVE SupportInv'
<1>1. PICK c, purge, there :
        /\ c = desk[p].conv /\ purge = (desk[p].pc = "purge")
        /\ there = (conv.id = c /\ (purge => ~conv.recent))
        /\ purge \in BOOLEAN /\ there \in BOOLEAN
  OBVIOUS
<1>2. /\ desk[p].pc \in {"erase", "purge"} /\ ~Shared(c)
      /\ conv' = IF there THEN NoConv ELSE conv
      /\ rows' = IF there THEN {r \in rows : r.conv # c} ELSE rows
      /\ unseen' = IF there THEN {n \in unseen : n[1] # c} ELSE unseen
      /\ desk' = [desk EXCEPT ![p] = IF (there \/ purge) /\ @.keys # {}
                                     THEN [@ EXCEPT !.pc = "remove"] ELSE NoDesk]
      /\ spared' = IF purge /\ conv.id = c /\ conv.recent THEN spared \cup {c} ELSE spared
      /\ UNCHANGED <<kind, tg, used, files, jobs, req, work, faults,
                     stored, overlap, unrecorded, lost, strays>>
  BY <1>1 DEF Erase
<1>3. PICK d : d = desk'[p]
  OBVIOUS
<1>4. /\ d = IF (there \/ purge) /\ desk[p].keys # {} THEN [desk[p] EXCEPT !.pc = "remove"] ELSE NoDesk
      /\ desk' = [desk EXCEPT ![p] = d]
      /\ \A q \in Desks : q # p => desk'[q] = desk[q]
  BY <1>2, <1>3 DEF SupportInv, ShapeInv, DeskShape
<1>5. \/ d = NoDesk
      \/ /\ d.pc = "remove" /\ d.conv = desk[p].conv /\ d.keys \subseteq desk[p].keys
         /\ d \in [pc : {"remove"}, conv : Nat, keys : SUBSET Keys]
  BY <1>4 DEF SupportInv, ShapeInv, DeskShape
<1>6. there => /\ conv.id = c /\ c \in Nat \ {0} /\ c < MaxConvs /\ conv' = NoConv /\ rows' = {}
               /\ \A q \in Desks : desk[q].pc # "replied"
               /\ \A h \in Requests : req[h].pc # "greeted"
               /\ unseen' = {}
  <2>1. ASSUME there PROVE conv.id = c /\ c \in Nat /\ 0 < c /\ c < MaxConvs
    BY <1>1, <1>2, <2>1 DEF SupportInv, ShapeInv, DeskShape, ConvInv
  <2>2. ASSUME there PROVE rows' = {}
    BY <1>2, <2>1, <2>2 DEF SupportInv, ConvInv
  <2>3. ASSUME there PROVE \A q \in Desks : desk[q].pc # "replied"
    BY <1>2, <2>1, <2>3 DEF SupportInv, ConvInv, Shared
  <2>4. \A h \in Requests : req[h].pc # "greeted"
    BY <1>2 DEF Shared, Locked
  <2>5. ASSUME there PROVE unseen' = {}
    BY <1>2, <2>1, <2>5 DEF SupportInv, UnseenInv, ConvInv, Named, Name
  <2>. QED  BY <1>2, <2>1, <2>2, <2>3, <2>4, <2>5
<1>7. \/ UNCHANGED <<conv, rows>>
      \/ conv.id # 0 /\ conv.id < MaxConvs /\ conv' = NoConv /\ rows' = {}
           /\ \A q \in Desks : desk[q].pc # "replied"
  BY <1>1, <1>2, <1>6
<1>8. DeskShape' /\ ConvInv' /\ SentInv' /\ AwaitedInv'
  BY <1>2, <1>3, <1>4, <1>5, <1>7, DeskErases
<1>9. ChatShape' /\ StoreShape'
  <2>1. conv' \in [id : Nat, unread : Nat, recent : BOOLEAN]
    BY <1>2 DEF SupportInv, ShapeInv, ChatShape, NoConv
  <2>2. rows' \subseteq rows
    BY <1>2
  <2>. QED  BY <1>2, <2>1, <2>2 DEF SupportInv, ShapeInv, ChatShape, StoreShape
<1>10. \A q \in Desks : q # p => desk'[q] = desk[q]
  BY <1>4
<1>11. UnseenInv' /\ GreetInv' /\ OnceInv' /\ CountInv'
  <2>1. CASE there
    <3>1. GreetInv' /\ UnseenInv'
      BY <1>2, <1>6, <2>1 DEF GreetInv, UnseenInv
    <3>2. OnceInv'
      BY <1>2, <1>6, <2>1 DEF SupportInv, OnceInv, Busy, DoublesAreOverlaps
    <3>3. CountInv'
      <4>1. Named' = {} /\ conv'.unread = 0 /\ conv'.id = 0
        BY <1>6, <2>1 DEF Named, NoConv
      <4>2. IsFiniteSet(Named)' /\ Cardinality(Named)' = 0
        BY <4>1, FS_EmptySet
      <4>. QED  BY <1>2, <4>1, <4>2 DEF SupportInv, CountInv, Busy
    <3>. QED  BY <3>1, <3>2, <3>3
  <2>2. CASE ~there
    <3>1. UNCHANGED <<conv, rows, unseen, req, lost, overlap>>
      BY <1>1, <1>2, <2>2
    <3>2. UnseenInv'
      <4>1. \A q \in Desks : desk[q].pc = "opened" => desk'[q] = desk[q]
        BY <1>2, <1>10
      <4>2. Named' = Named
        BY <3>1 DEF Named
      <4>. QED  BY <3>1, <4>1, <4>2 DEF SupportInv, UnseenInv
    <3>. QED  BY <3>1, <3>2, Frames
  <2>. QED  BY <1>1, <2>1, <2>2
<1>12. StorageInv'
  <2>1. Putting' = Putting
    BY <1>2 DEF Putting
  <2>2. KeysLead'
    BY <1>2 DEF SupportInv, StorageInv, KeysLead
  <2>3. ASSUME NEW q \in Desks, desk'[q].pc = "remove"
        PROVE  desk'[q].conv # conv'.id \/ desk'[q].conv \in spared'
    <3>1. CASE q # p
      <4>1. desk[q].conv # 0 /\ desk'[q] = desk[q]
        BY <1>4, <2>3, <3>1 DEF SupportInv, ShapeInv, DeskShape, ConvInv
      <4>2. desk[q].conv # conv.id \/ desk[q].conv \in spared
        BY <2>3, <4>1 DEF SupportInv, StorageInv
      <4>3. conv'.id \in {conv.id, 0} /\ spared \subseteq spared'
        BY <1>2 DEF NoConv
      <4>. QED  BY <4>1, <4>2, <4>3
    <3>2. CASE q = p
      <4>1. d.conv = c /\ c # 0 /\ (there \/ purge)
        BY <1>1, <1>2, <1>3, <1>4, <1>5, <2>3, <3>2
        DEF SupportInv, ShapeInv, DeskShape, ConvInv, NoDesk
      <4>. QED  BY <1>1, <1>2, <1>3, <3>2, <4>1 DEF SupportInv, ShapeInv, ChatShape, NoConv
    <3>. QED  BY <3>1, <3>2
  <2>4. ASSUME NEW q \in Desks, NEW r \in rows', Erases(q)', r.conv = desk'[q].conv, r.key # 0
        PROVE  KeyOf(Name(r), r.key) \in desk'[q].keys \cup strays
    <3>1. q # p
      BY <1>3, <1>5, <2>4 DEF Erases, NoDesk
    <3>. QED  BY <1>2, <1>4, <2>4, <3>1 DEF SupportInv, StorageInv, Erases
  <2>5. ASSUME NEW f \in files
        PROVE  \/ f \in strays
               \/ \E r \in rows' : r.key # 0 /\ KeyOf(Name(r), r.key) = f
               \/ \E q \in Desks : desk'[q].pc = "remove" /\ f \in desk'[q].keys
               \/ \E w \in Putting : KeyOf(work[w].job.row, work[w].job.n) = f
    <3>1. CASE \E r \in rows : r.key # 0 /\ KeyOf(Name(r), r.key) = f
      <4>1. PICK r \in rows : r.key # 0 /\ KeyOf(Name(r), r.key) = f
        BY <3>1
      <4>2. CASE ~there
        BY <1>2, <4>1, <4>2
      <4>3. CASE there
        <5>1. r.conv = desk[p].conv /\ Erases(p)
          BY <1>1, <1>2, <1>6, <4>3 DEF SupportInv, ConvInv, Erases
        <5>2. f \in desk[p].keys \cup strays
          BY <4>1, <5>1 DEF SupportInv, StorageInv
        <5>3. f \in desk[p].keys => d.pc = "remove" /\ d.keys = desk[p].keys
          BY <1>4, <4>3 DEF SupportInv, ShapeInv, DeskShape
        <5>. QED  BY <1>3, <5>2, <5>3
      <4>. QED  BY <1>1, <4>2, <4>3
    <3>2. CASE \E q \in Desks : desk[q].pc = "remove" /\ f \in desk[q].keys
      BY <1>2, <1>4, <3>2
    <3>. QED  BY <3>1, <3>2 DEF SupportInv, StorageInv
  <2>6. UNCHANGED <<files, strays, work>>
    BY <1>2
  <2>. QED  BY <2>1, <2>2, <2>3, <2>4, <2>5, <2>6 DEF SupportInv, StorageInv
<1>. QED  BY <1>2, <1>8, <1>9, <1>11, <1>12, Frames DEF SupportInv, ShapeInv

LEMMA RemoveKeyStep ==
  ASSUME SupportInv, NEW p \in Desks, RemoveKey(p) PROVE SupportInv'
<1>1. PICK k \in desk[p].keys :
        /\ \/ files' = files \ {k} /\ UNCHANGED <<faults, strays>>
           \/ Fault /\ strays' = strays \cup {k} /\ UNCHANGED files
        /\ desk' = IF desk[p].keys = {k} THEN [desk EXCEPT ![p] = NoDesk]
                   ELSE [desk EXCEPT ![p].keys = @ \ {k}]
  BY DEF RemoveKey
<1>2. /\ desk[p].pc = "remove"
      /\ UNCHANGED <<kind, tg, conv, used, rows, jobs, req, work,
                     stored, overlap, unseen, unrecorded, lost, spared>>
  BY DEF RemoveKey
<1>3. PICK d : d = IF desk[p].keys = {k} THEN NoDesk ELSE [desk[p] EXCEPT !.keys = @ \ {k}]
  OBVIOUS
<1>4. desk' = [desk EXCEPT ![p] = d]
  BY <1>1, <1>3 DEF SupportInv, ShapeInv, DeskShape
<1>5. d = desk'[p]
  BY <1>4 DEF SupportInv, ShapeInv, DeskShape
<1>6. /\ d = IF desk[p].keys = {k} THEN NoDesk ELSE [desk[p] EXCEPT !.keys = @ \ {k}]
      /\ desk' = [desk EXCEPT ![p] = d]
      /\ \A q \in Desks : q # p => desk'[q] = desk[q]
  BY <1>3, <1>4 DEF SupportInv, ShapeInv, DeskShape
<1>7. \/ d = NoDesk
      \/ /\ d.pc = "remove" /\ d.conv = desk[p].conv /\ d.keys \subseteq desk[p].keys
         /\ d \in [pc : {"remove"}, conv : Nat, keys : SUBSET Keys]
  BY <1>2, <1>6 DEF SupportInv, ShapeInv, DeskShape
<1>8. DeskShape' /\ ConvInv' /\ SentInv' /\ AwaitedInv'
  BY <1>2, <1>5, <1>6, <1>7, DeskErases
<1>9. \A f \in desk[p].keys : f # k => d.pc = "remove" /\ f \in d.keys
  BY <1>2, <1>6 DEF SupportInv, ShapeInv, DeskShape
<1>10. ChatShape' /\ StoreShape'
  <2>1. files' \subseteq files /\ faults' \in 0 .. MaxFaults
    BY <1>1, BoundsAssumption DEF SupportInv, ShapeInv, ChatShape, Fault
  <2>. QED  BY <1>2, <2>1 DEF SupportInv, ShapeInv, ChatShape, StoreShape
<1>11. UnseenInv'
  <2>1. \A q \in Desks : desk[q].pc = "opened" => desk'[q] = desk[q]
    BY <1>2, <1>6
  <2>2. Named' = Named
    BY <1>2 DEF Named
  <2>. QED  BY <1>2, <2>1, <2>2 DEF SupportInv, UnseenInv
<1>12. strays \subseteq strays' /\ k \in Keys /\ k.conv = desk[p].conv /\ KeyName(k) \notin Awaited
  BY <1>1 DEF SupportInv, ShapeInv, DeskShape, AwaitedInv
<1>13. StorageInv'
  <2>1. Putting' = Putting
    BY <1>2 DEF Putting
  <2>2. ASSUME NEW w \in Putting
        PROVE  KeyOf(work[w].job.row, work[w].job.n) # k
    <3>1. work[w].job.row \in Awaited /\ work[w].job \in Jobs
      BY DEF Awaited, Putting, SupportInv, ShapeInv, WorkShape, NoWork
    <3>. QED  BY <1>12, <3>1 DEF KeyName, KeyOf, Jobs
  <2>3. KeysLead'
    <3>1. ASSUME NEW r \in rows, r.key # 0, KeyOf(Name(r), r.key) = k PROVE r.conv \in spared
      <4>1. r.conv = k.conv /\ r.conv = conv.id
        BY <3>1 DEF KeyOf, Name, SupportInv, ConvInv
      <4>. QED  BY <1>2, <1>12, <4>1 DEF SupportInv, StorageInv
    <3>. QED  BY <1>1, <1>2, <3>1 DEF SupportInv, StorageInv, KeysLead
  <2>4. ASSUME NEW q \in Desks, desk'[q].pc = "remove"
        PROVE  desk'[q].conv # conv.id \/ desk'[q].conv \in spared
    <3>1. desk'[q].conv = desk[q].conv /\ desk[q].pc = "remove"
      BY <1>2, <1>5, <1>6, <1>7, <2>4 DEF NoDesk
    <3>. QED  BY <3>1 DEF SupportInv, StorageInv
  <2>5. ASSUME NEW q \in Desks, NEW r \in rows, Erases(q)', r.conv = desk'[q].conv, r.key # 0
        PROVE  KeyOf(Name(r), r.key) \in desk'[q].keys \cup strays
    <3>1. q # p
      BY <1>5, <1>7, <2>5 DEF Erases, NoDesk
    <3>. QED  BY <1>6, <2>5, <3>1 DEF SupportInv, StorageInv, Erases
  <2>6. ASSUME NEW f \in files'
        PROVE  \/ f \in strays'
               \/ \E r \in rows : r.key # 0 /\ KeyOf(Name(r), r.key) = f
               \/ \E q \in Desks : desk'[q].pc = "remove" /\ f \in desk'[q].keys
               \/ \E w \in Putting : KeyOf(work[w].job.row, work[w].job.n) = f
    <3>1. f \in files /\ (f # k \/ f \in strays')
      BY <1>1
    <3>2. CASE \E q \in Desks : desk[q].pc = "remove" /\ f \in desk[q].keys
      BY <1>5, <1>6, <1>9, <3>1, <3>2
    <3>. QED  BY <1>12, <3>1, <3>2 DEF SupportInv, StorageInv
  <2>7. \A w \in Putting : KeyOf(work[w].job.row, work[w].job.n) \in files'
    BY <1>1, <2>2 DEF SupportInv, StorageInv
  <2>. QED  BY <1>2, <1>12, <2>1, <2>3, <2>4, <2>5, <2>6, <2>7 DEF StorageInv
<1>. QED  BY <1>2, <1>8, <1>10, <1>11, <1>13, Frames DEF SupportInv, ShapeInv

\* A message in the queue or in a worker's hands names a row by its types.
LEMMA JobShapes ==
  ASSUME SupportInv
  PROVE  /\ \A j \in jobs : j \in Jobs /\ j.row \in Awaited
         /\ \A w \in Putting : work[w].job \in Jobs /\ work[w].job.row \in Awaited
         /\ \A j \in Jobs : KeyOf(j.row, j.n) \in Keys /\ KeyName(KeyOf(j.row, j.n)) = j.row
<1>1. \A j \in jobs : j \in Jobs /\ j.row \in Awaited
  BY DEF SupportInv, ShapeInv, StoreShape, Awaited, Queued
<1>2. \A w \in Putting : work[w].job \in Jobs /\ work[w].job.row \in Awaited
  BY DEF SupportInv, ShapeInv, WorkShape, NoWork, Awaited, Putting
<1>3. \A j \in Jobs : KeyOf(j.row, j.n) \in Keys /\ KeyName(KeyOf(j.row, j.n)) = j.row
  BY DEF Jobs, Keys, KeyOf, KeyName
<1>. QED  BY <1>1, <1>2, <1>3

LEMMA PutFileStep ==
  ASSUME SupportInv, NEW w \in Workers, PutFile(w) PROVE SupportInv'
<1>1. PICK j \in jobs : /\ jobs' = jobs \ {j}
                        /\ files' = files \cup {KeyOf(j.row, j.n)}
                        /\ work' = [work EXCEPT ![w] = [pc |-> "put", job |-> j]]
  BY DEF PutFile
<1>2. /\ work[w].pc = "idle"
      /\ UNCHANGED <<kind, tg, conv, used, rows, req, desk, faults,
                     stored, overlap, unseen, unrecorded, lost, strays, spared>>
  BY DEF PutFile, history
<1>3. /\ work'[w].pc = "put" /\ work'[w].job = j /\ \A v \in Workers : v # w => work'[v] = work[v]
      /\ Putting' = Putting \cup {w} /\ w \notin Putting
  <2>1. /\ work'[w] = [pc |-> "put", job |-> j] /\ \A v \in Workers : v # w => work'[v] = work[v]
    BY <1>1 DEF SupportInv, ShapeInv, WorkShape
  <2>. QED  BY <1>2, <2>1 DEF Putting
<1>4. j \in Jobs /\ j.row \in Queued /\ KeyOf(j.row, j.n) \in Keys
  BY JobShapes DEF Queued
<1>5. StoreShape' /\ WorkShape'
  <2>1. StoreShape'
    BY <1>1, <1>2, <1>4 DEF SupportInv, ShapeInv, StoreShape
  <2>2. DOMAIN work' = Workers /\ work'[w] \in [pc : {"put"}, job : Jobs]
    BY <1>1, <1>4 DEF SupportInv, ShapeInv, WorkShape
  <2>. QED  BY <1>3, <2>1, <2>2 DEF SupportInv, ShapeInv, WorkShape, NoWork
<1>6. AwaitedInv'
  <2>1. Queued' = Queued \ {j.row}
    BY <1>1 DEF SupportInv, AwaitedInv, Queued
  <2>2. {work'[v].job.row : v \in Putting'} = {work[v].job.row : v \in Putting} \cup {j.row}
    BY <1>3 DEF Putting
  <2>3. \A h \in Requests : StoredName(h)' = StoredName(h)
    BY <1>2 DEF StoredName
  <2>4. {StoredName(h)' : h \in {g \in Requests : req'[g].pc = "stored"}}
          = {StoredName(h) : h \in {g \in Requests : req[g].pc = "stored"}}
    BY <1>2, <2>3
  <2>5. Awaited' = Awaited
    BY <1>4, <2>1, <2>2, <2>4 DEF Awaited
  <2>6. \A x : Born(x)' = Born(x)
    BY <1>2 DEF Born, Named
  <2>7. \A v \in Putting : work'[v] = work[v]
    BY <1>3 DEF Putting
  <2>8. /\ \A i, k \in jobs' : i.row = k.row => i = k
        /\ \A v \in Putting' : work'[v].job.row \notin Queued'
        /\ \A u, v \in Putting' : work'[u].job.row = work'[v].job.row => u = v
    BY <1>1, <1>3, <1>4, <2>1, <2>7 DEF SupportInv, AwaitedInv
  <2>9. \A h \in Requests : req'[h].pc = "stored" =>
          StoredName(h)' \notin Queued' /\ \A v \in Putting' : work'[v].job.row # StoredName(h)'
    BY <1>2, <1>3, <1>4, <2>1, <2>3, <2>7 DEF SupportInv, AwaitedInv
  <2>. QED  BY <1>2, <2>5, <2>6, <2>8, <2>9 DEF SupportInv, AwaitedInv
<1>7. StorageInv'
  <2>1. \A v \in Putting : v \in Putting' /\ work'[v] = work[v]
    BY <1>3 DEF Putting
  <2>2. \A f \in files' :
          \/ f \in strays
          \/ \E r \in rows : r.key # 0 /\ KeyOf(Name(r), r.key) = f
          \/ \E p \in Desks : desk[p].pc = "remove" /\ f \in desk[p].keys
          \/ \E v \in Putting' : KeyOf(work'[v].job.row, work'[v].job.n) = f
    <3>1. ASSUME NEW f \in files, \E v \in Putting : KeyOf(work[v].job.row, work[v].job.n) = f
          PROVE  \E v \in Putting' : KeyOf(work'[v].job.row, work'[v].job.n) = f
      BY <2>1, <3>1
    <3>2. \E v \in Putting' : KeyOf(work'[v].job.row, work'[v].job.n) = KeyOf(j.row, j.n)
      BY <1>3
    <3>. QED  BY <1>1, <3>1, <3>2 DEF SupportInv, StorageInv
  <2>3. \A v \in Putting' : KeyOf(work'[v].job.row, work'[v].job.n) \in files'
    BY <1>1, <1>3, <2>1 DEF SupportInv, StorageInv
  <2>4. KeysLead'
    BY <1>1, <1>2 DEF SupportInv, StorageInv, KeysLead
  <2>. QED  BY <1>2, <2>2, <2>3, <2>4 DEF SupportInv, StorageInv, Erases
<1>. QED  BY <1>2, <1>5, <1>6, <1>7, Frames DEF SupportInv, ShapeInv

\* A row given up for lost was one of the chat's.
LEMMA LostGrows ==
  ASSUME SupportInv, UNCHANGED <<unrecorded, req, desk, used>>,
         \/ UNCHANGED lost
         \/ \E x \in Awaited : x \in Nat \X Updates \X Requests /\ lost' = lost \cup {x}
  PROVE  lost \subseteq lost' /\ SentInv'
<1>1. CASE UNCHANGED lost
  BY <1>1, Frames
<1>2. ASSUME NEW x \in Awaited, x \in Nat \X Updates \X Requests, lost' = lost \cup {x}
      PROVE  SentInv'
  <2>1. x \in (1 .. MaxConvs) \X (Updates \cup {None}) \X (Requests \cup Desks)
    <3>1. x[1] \in 1 .. used /\ used =< MaxConvs /\ used \in Nat
      BY DEF SupportInv, AwaitedInv, Born, ConvInv, ShapeInv, ChatShape
    <3>2. x[1] \in 1 .. MaxConvs
      BY <3>1, BoundsAssumption
    <3>. QED  BY <1>2, <3>2
  <2>2. \A g \in Requests : IdFor(g)' = IdFor(g)
    BY DEF IdFor
  <2>3. SentIsRecorded'
    BY <1>2, <2>2 DEF SupportInv, SentInv, SentIsRecorded
  <2>. QED  BY <1>2, <2>1, <2>3 DEF SupportInv, SentInv
<1>. QED  BY <1>1, <1>2

LEMMA FailDownloadStep ==
  ASSUME SupportInv, NEW w \in Workers, FailDownload(w) PROVE SupportInv'
<1>1. PICK j \in jobs : Retry(j)
  BY DEF FailDownload
<1>2. UNCHANGED <<kind, tg, conv, used, rows, files, req, work, desk, faults,
                  stored, overlap, unseen, unrecorded, strays, spared>>
  BY DEF FailDownload
<1>3. j \in Jobs /\ j.row \in Awaited /\ j.row \in Nat \X Updates \X Requests
  BY JobShapes DEF Jobs
<1>4. \/ /\ UNCHANGED lost
         /\ \E k \in Jobs : k.row = j.row /\ jobs' = (jobs \ {j}) \cup {k}
      \/ lost' = lost \cup {j.row} /\ jobs' = jobs \ {j}
  <2>1. CASE j.n < MaxTries
    <3>1. PICK k : k = [j EXCEPT !.n = @ + 1]
      OBVIOUS
    <3>2. k.row = j.row /\ k \in Jobs
      BY <1>3, <2>1, <3>1, BoundsAssumption DEF Jobs
    <3>. QED  BY <1>1, <2>1, <3>1, <3>2 DEF Retry
  <2>2. CASE ~(j.n < MaxTries)
    BY <1>1, <2>2 DEF Retry
  <2>. QED  BY <2>1, <2>2
<1>5. lost \subseteq lost' /\ SentInv'
  BY <1>2, <1>3, <1>4, LostGrows
<1>6. /\ jobs' \subseteq Jobs /\ Queued' \subseteq Queued
      /\ \A i, k \in jobs' : i.row = k.row => i = k
  <2>1. CASE lost' = lost \cup {j.row} /\ jobs' = jobs \ {j}
    BY <2>1 DEF SupportInv, ShapeInv, StoreShape, AwaitedInv, Queued
  <2>2. CASE \E k \in Jobs : k.row = j.row /\ jobs' = (jobs \ {j}) \cup {k}
    BY <2>2 DEF SupportInv, ShapeInv, StoreShape, AwaitedInv, Queued
  <2>. QED  BY <1>4, <2>1, <2>2
<1>7. AwaitedInv'
  <2>1. Putting' = Putting /\ \A h \in Requests : StoredName(h)' = StoredName(h)
    BY <1>2 DEF Putting, StoredName
  <2>2. Awaited' \subseteq Awaited
    BY <1>2, <1>6, <2>1 DEF Awaited
  <2>3. \A x : Born(x)' = Born(x)
    BY <1>2 DEF Born, Named
  <2>. QED  BY <1>2, <1>6, <2>1, <2>2, <2>3 DEF SupportInv, AwaitedInv
<1>8. StoreShape' /\ UnseenInv'
  BY <1>2, <1>5, <1>6, Frames DEF SupportInv, ShapeInv, StoreShape
<1>. QED  BY <1>2, <1>5, <1>7, <1>8, Frames DEF SupportInv, ShapeInv

LEMMA FailRecordStep ==
  ASSUME SupportInv, NEW w \in Workers, FailRecord(w) PROVE SupportInv'
<1>1. PICK j : j = work[w].job
  OBVIOUS
<1>2. /\ work[w].pc = "put" /\ Retry(j)
      /\ strays' = strays \cup {KeyOf(j.row, j.n)}
      /\ work' = [work EXCEPT ![w] = NoWork]
      /\ UNCHANGED <<kind, tg, conv, used, rows, files, req, desk, faults,
                     stored, overlap, unseen, unrecorded, spared>>
  BY <1>1 DEF FailRecord
<1>3. /\ w \in Putting /\ j \in Jobs /\ j.row \in Awaited /\ j.row \in Nat \X Updates \X Requests
      /\ j.row \notin Queued /\ j \notin jobs
  <2>1. w \in Putting
    BY <1>2 DEF Putting
  <2>. QED  BY <1>1, <2>1, JobShapes DEF Jobs, SupportInv, AwaitedInv, Queued
<1>4. \/ /\ UNCHANGED lost
         /\ \E k \in Jobs : k.row = j.row /\ jobs' = jobs \cup {k}
      \/ lost' = lost \cup {j.row} /\ jobs' = jobs
  <2>1. CASE j.n < MaxTries
    <3>1. PICK k : k = [j EXCEPT !.n = @ + 1]
      OBVIOUS
    <3>2. k.row = j.row /\ k \in Jobs
      BY <1>3, <2>1, <3>1, BoundsAssumption DEF Jobs
    <3>. QED  BY <1>2, <1>3, <2>1, <3>1, <3>2 DEF Retry
  <2>2. CASE ~(j.n < MaxTries)
    BY <1>2, <1>3, <2>2 DEF Retry
  <2>. QED  BY <2>1, <2>2
<1>5. lost \subseteq lost' /\ SentInv'
  BY <1>2, <1>3, <1>4, LostGrows
<1>6. /\ jobs' \subseteq Jobs /\ Queued' \subseteq Queued \cup {j.row}
      /\ \A i, k \in jobs' : i.row = k.row => i = k
  <2>1. CASE lost' = lost \cup {j.row} /\ jobs' = jobs
    BY <2>1 DEF SupportInv, ShapeInv, StoreShape, AwaitedInv, Queued
  <2>2. CASE \E k \in Jobs : k.row = j.row /\ jobs' = jobs \cup {k}
    BY <1>3, <2>2 DEF SupportInv, ShapeInv, StoreShape, AwaitedInv, Queued
  <2>. QED  BY <1>4, <2>1, <2>2
<1>7. /\ Putting' = Putting \ {w} /\ \A v \in Putting' : work'[v] = work[v]
      /\ WorkShape'
  <2>1. work'[w] = NoWork /\ \A v \in Workers : v # w => work'[v] = work[v]
    BY <1>2 DEF SupportInv, ShapeInv, WorkShape
  <2>2. DOMAIN work' = Workers
    BY <1>2 DEF SupportInv, ShapeInv, WorkShape
  <2>. QED  BY <2>1, <2>2 DEF Putting, NoWork, SupportInv, ShapeInv, WorkShape
<1>8. AwaitedInv'
  <2>1. \A h \in Requests : StoredName(h)' = StoredName(h)
    BY <1>2 DEF StoredName
  <2>2. Awaited' \subseteq Awaited
    BY <1>2, <1>3, <1>6, <1>7, <2>1 DEF Awaited
  <2>3. \A x : Born(x)' = Born(x)
    BY <1>2 DEF Born, Named
  <2>4. \A v \in Putting' : work'[v].job.row \notin Queued'
    BY <1>1, <1>3, <1>6, <1>7 DEF SupportInv, AwaitedInv
  <2>5. \A h \in Requests : req'[h].pc = "stored" =>
          StoredName(h)' \notin Queued' /\ \A v \in Putting' : work'[v].job.row # StoredName(h)'
    BY <1>1, <1>2, <1>3, <1>6, <1>7, <2>1 DEF SupportInv, AwaitedInv
  <2>6. \A u, v \in Putting' : work'[u].job.row = work'[v].job.row => u = v
    BY <1>7 DEF SupportInv, AwaitedInv
  <2>. QED  BY <1>2, <1>6, <2>2, <2>3, <2>4, <2>5, <2>6 DEF SupportInv, AwaitedInv
<1>9. StorageInv'
  <2>1. \A f \in files' :
          \/ f \in strays'
          \/ \E r \in rows : r.key # 0 /\ KeyOf(Name(r), r.key) = f
          \/ \E p \in Desks : desk[p].pc = "remove" /\ f \in desk[p].keys
          \/ \E v \in Putting' : KeyOf(work'[v].job.row, work'[v].job.n) = f
    <3>1. ASSUME NEW f \in files, \E v \in Putting : KeyOf(work[v].job.row, work[v].job.n) = f
          PROVE  f \in strays' \/ \E v \in Putting' : KeyOf(work'[v].job.row, work'[v].job.n) = f
      BY <1>1, <1>2, <1>7, <3>1
    <3>. QED  BY <1>2, <3>1 DEF SupportInv, StorageInv
  <2>2. \A v \in Putting' : KeyOf(work'[v].job.row, work'[v].job.n) \in files'
    BY <1>2, <1>7 DEF SupportInv, StorageInv
  <2>3. KeysLead'
    BY <1>2 DEF SupportInv, StorageInv, KeysLead
  <2>4. strays \subseteq strays'
    BY <1>2
  <2>. QED  BY <1>2, <2>1, <2>2, <2>3, <2>4 DEF SupportInv, StorageInv, Erases
<1>10. StoreShape' /\ UnseenInv'
  BY <1>2, <1>5, <1>6, Frames DEF SupportInv, ShapeInv, StoreShape
<1>. QED  BY <1>2, <1>5, <1>7, <1>8, <1>9, <1>10, Frames DEF SupportInv, ShapeInv

\* The row that gets its key is the same row.
LEMMA RowsRecorded ==
  ASSUME SupportInv, NEW j \in Jobs, j.row \in Awaited, NEW mine,
         mine = {r \in rows : Name(r) = j.row},
         rows' = (rows \ mine) \cup {[r EXCEPT !.key = j.n] : r \in mine}
  PROVE  /\ \A r \in rows : r \in rows' \/ (Name(r) = j.row /\ r.key = 0)
         /\ \A s \in rows' :
              \/ s \in rows /\ Name(s) # j.row
              \/ /\ Name(s) = j.row /\ s.key = j.n
                 /\ \E r \in rows : r.conv = s.conv /\ r.upd = s.upd /\ r.by = s.by
         /\ mine # {} => \E s \in rows' : Name(s) = j.row /\ s.key = j.n
         /\ rows' \subseteq [conv : Nat, upd : Updates, by : Requests, key : 0 .. MaxTries]
         /\ Named' = Named
<1>1. \A r \in rows : r \in rows' \/ (Name(r) = j.row /\ r.key = 0)
  BY DEF SupportInv, AwaitedInv
<1>2. ASSUME NEW r \in mine
      PROVE  LET s == [r EXCEPT !.key = j.n]
             IN  /\ s \in [conv : Nat, upd : Updates, by : Requests, key : 0 .. MaxTries]
                 /\ Name(s) = j.row /\ s.key = j.n /\ s.conv = r.conv /\ s.upd = r.upd /\ s.by = r.by
  <2>1. r \in [conv : Nat, upd : Updates, by : Requests, key : 0 .. MaxTries] /\ Name(r) = j.row
    BY DEF SupportInv, ShapeInv, StoreShape
  <2>2. j.n \in 0 .. MaxTries
    BY BoundsAssumption DEF Jobs
  <2>. QED  BY <2>1, <2>2 DEF Name
<1>3. ASSUME NEW s \in rows'
      PROVE  \/ s \in rows /\ Name(s) # j.row
             \/ /\ Name(s) = j.row /\ s.key = j.n
                /\ \E r \in rows : r.conv = s.conv /\ r.upd = s.upd /\ r.by = s.by
  <2>1. CASE s \in rows \ mine
    BY <2>1
  <2>2. CASE s \in {[r EXCEPT !.key = j.n] : r \in mine}
    BY <1>2, <2>2
  <2>. QED  BY <2>1, <2>2
<1>4. mine # {} => \E s \in rows' : Name(s) = j.row /\ s.key = j.n
  <2>1. ASSUME NEW r \in mine PROVE \E s \in rows' : Name(s) = j.row /\ s.key = j.n
    <3>1. PICK s : s = [r EXCEPT !.key = j.n]
      OBVIOUS
    <3>. QED  BY <1>2, <3>1
  <2>. QED  BY <2>1
<1>5. rows' \subseteq [conv : Nat, upd : Updates, by : Requests, key : 0 .. MaxTries]
  BY <1>2 DEF SupportInv, ShapeInv, StoreShape
<1>6. Named' = Named
  <2>1. \A s \in rows' : Name(s) \in Named
    BY <1>3 DEF Named, Name
  <2>2. \A r \in rows : \E s \in rows' : Name(s) = Name(r)
    BY <1>1, <1>4
  <2>3. Named' = {Name(s) : s \in rows'}
    BY DEF Named, Name
  <2>4. Named' \subseteq Named
    BY <2>1, <2>3
  <2>5. Named \subseteq Named'
    BY <2>2, <2>3 DEF Named
  <2>. QED  BY <2>4, <2>5
<1>. QED  BY <1>1, <1>3, <1>4, <1>5, <1>6

LEMMA RecordFileStep ==
  ASSUME SupportInv, NEW w \in Workers, RecordFile(w) PROVE SupportInv'
<1>1. PICK j, mine : j = work[w].job /\ mine = {r \in rows : Name(r) = j.row}
  OBVIOUS
<1>2. /\ work[w].pc = "put"
      /\ rows' = (rows \ mine) \cup {[r EXCEPT !.key = j.n] : r \in mine}
      /\ strays' = IF mine = {} \/ Erasing(j.row[1])
                   THEN strays \cup {KeyOf(j.row, j.n)} ELSE strays
      /\ work' = [work EXCEPT ![w] = NoWork]
      /\ UNCHANGED <<kind, tg, conv, used, files, jobs, req, desk, faults,
                     stored, overlap, unseen, unrecorded, lost, spared>>
  BY <1>1 DEF RecordFile, RecordedKey
<1>3. w \in Putting /\ j \in Jobs /\ j.row \in Awaited /\ j.row \notin Queued
      /\ j.n # 0
  <2>1. w \in Putting
    BY <1>2 DEF Putting
  <2>. QED  BY <1>1, <2>1, JobShapes, BoundsAssumption DEF Jobs, SupportInv, AwaitedInv
<1>4. /\ \A r \in rows : r \in rows' \/ (Name(r) = j.row /\ r.key = 0)
      /\ \A s \in rows' :
           \/ s \in rows /\ Name(s) # j.row
           \/ /\ Name(s) = j.row /\ s.key = j.n
              /\ \E r \in rows : r.conv = s.conv /\ r.upd = s.upd /\ r.by = s.by
      /\ mine # {} => \E s \in rows' : Name(s) = j.row /\ s.key = j.n
      /\ rows' \subseteq [conv : Nat, upd : Updates, by : Requests, key : 0 .. MaxTries]
      /\ Named' = Named
  BY <1>1, <1>2, <1>3, RowsRecorded
<1>5. \A s \in rows' : \E r \in rows : r.conv = s.conv /\ r.upd = s.upd /\ r.by = s.by
  BY <1>4
<1>6. /\ Putting' = Putting \ {w} /\ \A v \in Putting' : work'[v] = work[v]
      /\ WorkShape'
  <2>1. work'[w] = NoWork /\ \A v \in Workers : v # w => work'[v] = work[v]
    BY <1>2 DEF SupportInv, ShapeInv, WorkShape
  <2>2. DOMAIN work' = Workers
    BY <1>2 DEF SupportInv, ShapeInv, WorkShape
  <2>. QED  BY <2>1, <2>2 DEF Putting, NoWork, SupportInv, ShapeInv, WorkShape
<1>7. StoreShape'
  BY <1>2, <1>4 DEF SupportInv, ShapeInv, StoreShape
<1>8. ConvInv'
  BY <1>2, <1>5 DEF SupportInv, ConvInv
<1>9. UnseenInv' /\ CountInv'
  BY <1>2, <1>4 DEF SupportInv, UnseenInv, CountInv, Busy
<1>10. OnceInv'
  <2>1. DoublesAreOverlaps'
    BY <1>2, <1>5 DEF SupportInv, OnceInv, DoublesAreOverlaps
  <2>2. \A h \in Requests, r \in rows' :
          Busy(h)' /\ req'[h].seen.id = r.conv /\ r.upd = req'[h].upd => r.by # h /\ r.upd \in overlap'
    BY <1>2, <1>5 DEF SupportInv, OnceInv, Busy
  <2>. QED  BY <1>2, <2>1, <2>2 DEF SupportInv, OnceInv
<1>11. AwaitedInv'
  <2>1. Queued' = Queued /\ \A h \in Requests : StoredName(h)' = StoredName(h)
    BY <1>2 DEF StoredName, Queued
  <2>2. Awaited' \subseteq Awaited
    BY <1>2, <1>6, <2>1 DEF Awaited
  <2>3. j.row \notin Awaited'
    <3>1. \A v \in Putting' : work'[v].job.row # j.row
      BY <1>1, <1>3, <1>6 DEF SupportInv, AwaitedInv
    <3>2. \A h \in Requests : req'[h].pc = "stored" => StoredName(h)' # j.row
      BY <1>1, <1>2, <1>3, <2>1 DEF SupportInv, AwaitedInv
    <3>. QED  BY <1>3, <2>1, <3>1, <3>2 DEF Awaited
  <2>4. \A x : Born(x)' = Born(x)
    BY <1>2, <1>4 DEF Born
  <2>5. \A r \in rows' : Name(r) \in Awaited' => r.key = 0
    BY <1>4, <2>2, <2>3 DEF SupportInv, AwaitedInv
  <2>6. \A h \in Requests : req'[h].pc = "stored" =>
          StoredName(h)' \notin Queued' /\ \A v \in Putting' : work'[v].job.row # StoredName(h)'
    BY <1>2, <1>6, <2>1 DEF SupportInv, AwaitedInv
  <2>7. /\ \A v \in Putting' : work'[v].job.row \notin Queued'
        /\ \A u, v \in Putting' : work'[u].job.row = work'[v].job.row => u = v
    BY <1>6, <2>1 DEF SupportInv, AwaitedInv
  <2>. QED  BY <1>2, <2>2, <2>4, <2>5, <2>6, <2>7 DEF SupportInv, AwaitedInv
<1>12. StorageInv'
  <2>1. strays \subseteq strays'
    BY <1>2
  <2>2. ASSUME NEW f \in files
        PROVE  \/ f \in strays'
               \/ \E r \in rows' : r.key # 0 /\ KeyOf(Name(r), r.key) = f
               \/ \E p \in Desks : desk[p].pc = "remove" /\ f \in desk[p].keys
               \/ \E v \in Putting' : KeyOf(work'[v].job.row, work'[v].job.n) = f
    <3>1. CASE \E r \in rows : r.key # 0 /\ KeyOf(Name(r), r.key) = f
      BY <1>4, <3>1
    <3>2. CASE \E v \in Putting : KeyOf(work[v].job.row, work[v].job.n) = f
      <4>1. KeyOf(j.row, j.n) \in strays'
              \/ \E s \in rows' : s.key # 0 /\ KeyOf(Name(s), s.key) = KeyOf(j.row, j.n)
        BY <1>2, <1>3, <1>4
      <4>. QED  BY <1>1, <1>6, <3>2, <4>1
    <3>. QED  BY <2>1, <3>1, <3>2 DEF SupportInv, StorageInv
  <2>3. \A v \in Putting' : KeyOf(work'[v].job.row, work'[v].job.n) \in files'
    BY <1>2, <1>6 DEF SupportInv, StorageInv
  <2>4. KeysLead'
    <3>1. KeyOf(j.row, j.n) \in files
      BY <1>1, <1>3 DEF SupportInv, StorageInv
    <3>. QED  BY <1>2, <1>4, <3>1 DEF SupportInv, StorageInv, KeysLead
  <2>5. ASSUME NEW p \in Desks, NEW r \in rows', Erases(p), r.conv = desk[p].conv, r.key # 0
        PROVE  KeyOf(Name(r), r.key) \in desk[p].keys \cup strays'
    <3>1. CASE r \in rows
      BY <2>1, <2>5, <3>1 DEF SupportInv, StorageInv
    <3>2. CASE Name(r) = j.row /\ r.key = j.n
      <4>1. Erasing(j.row[1])
        BY <2>5, <3>2 DEF Erasing, Erases, Name
      <4>. QED  BY <1>2, <3>2, <4>1
    <3>. QED  BY <1>4, <3>1, <3>2
  <2>. QED  BY <1>2, <2>2, <2>3, <2>4, <2>5 DEF SupportInv, StorageInv, Erases
<1>. QED  BY <1>2, <1>6, <1>7, <1>8, <1>9, <1>10, <1>11, <1>12, Frames DEF SupportInv, ShapeInv

LEMMA SupportStep ==
  ASSUME SupportInv, [Next]_vars PROVE SupportInv'
<1>1. CASE UNCHANGED vars
  BY <1>1, Frames DEF vars, history, SupportInv, ShapeInv
<1>2. ASSUME NEW h \in Requests, Handling(h) \/ FailRequest(h) PROVE SupportInv'
  BY <1>2, RefuseStep, StoreStep, GreetStep, CommitStartStep, AnswerStep, FailRequestStep DEF Handling
<1>3. ASSUME NEW p \in Desks, Open(p) \/ Read(p) \/ Reply(p) \/ FailReply(p) \/ Desk(p) PROVE SupportInv'
  BY <1>3, OpenStep, ReadStep, ReplyStep, FailReplyStep, CommitReplyStep, EraseStep, RemoveKeyStep DEF Desk
<1>4. ASSUME NEW w \in Workers, Fetching(w) PROVE SupportInv'
  BY <1>4, PutFileStep, RecordFileStep, FailDownloadStep, FailRecordStep DEF Fetching
<1>. QED  BY <1>1, <1>2, <1>3, <1>4, WriteStep, DeliverStep, BeginErasureStep, AgeStep DEF Next

\* The last conversation's number never falls, and files are put for those there were.
FilesBorn == \A f \in files : f.conv =< used

LEMMA FilesNumbered ==
  ASSUME SupportInv, FilesBorn, [Next]_vars, SupportInv' PROVE FilesBorn'
<1>1. used \in Nat /\ used' \in Nat /\ files \subseteq Keys
  BY DEF SupportInv, ShapeInv, ChatShape, StoreShape
<1>2. CASE UNCHANGED <<files, used>>
  BY <1>2 DEF FilesBorn
<1>3. ASSUME NEW h \in Requests, Commit(h), conv.id = req[h].seen.id, UNCHANGED files
      PROVE  FilesBorn'
  <2>1. used' = used \/ used' = used + 1
    BY <1>3 DEF Commit, IdFor
  <2>. QED  BY <1>1, <1>3, <2>1 DEF FilesBorn, Keys
<1>4. ASSUME NEW w \in Workers, PutFile(w) PROVE FilesBorn'
  <2>1. PICK j \in jobs : files' = files \cup {KeyOf(j.row, j.n)}
    BY <1>4 DEF PutFile
  <2>2. j.row[1] =< used
    BY JobShapes DEF SupportInv, AwaitedInv, Born
  <2>. QED  BY <1>4, <2>1, <2>2 DEF FilesBorn, PutFile, KeyOf
<1>5. ASSUME NEW p \in Desks, RemoveKey(p) PROVE FilesBorn'
  BY <1>5 DEF RemoveKey, FilesBorn
<1>6. ASSUME NEW h \in Requests, Handling(h) \/ FailRequest(h) PROVE FilesBorn'
  BY <1>2, <1>3, <1>6
  DEF Handling, FailRequest, Refuse, Store, Greet, CommitStart, Answer, history, SupportInv, GreetInv
<1>7. ASSUME NEW p \in Desks, Open(p) \/ Read(p) \/ Reply(p) \/ FailReply(p) \/ Desk(p) PROVE FilesBorn'
  BY <1>2, <1>5, <1>7 DEF Open, Read, Reply, FailReply, Desk, CommitReply, Erase
<1>8. ASSUME NEW w \in Workers, Fetching(w) PROVE FilesBorn'
  BY <1>2, <1>4, <1>8 DEF Fetching, RecordFile, FailDownload, FailRecord
<1>. QED  BY <1>2, <1>6, <1>7, <1>8 DEF Next, vars, Write, Deliver, BeginErasure, Age

\* The conversation's rows are one per update and request at most.
LEMMA RowsBounded ==
  ASSUME SupportInv
  PROVE  Cardinality(Named) =< Cardinality(Updates) * Cardinality(Requests)
<1>1. PICK f : f = [x \in Named |-> <<x[2], x[3]>>]
  OBVIOUS
<1>2. \A x \in Named : /\ x = <<conv.id, x[2], x[3]>>
                       /\ x[2] \in Updates /\ x[3] \in Requests
  BY DEF SupportInv, ShapeInv, StoreShape, ConvInv, Named, Name
<1>3. f \in Injection(Named, Updates \X Requests)
  <2>1. f \in [Named -> Updates \X Requests]
    BY <1>1, <1>2
  <2>2. ASSUME NEW x \in Named, NEW y \in Named, f[x] = f[y] PROVE x = y
    BY <1>1, <1>2, <2>2
  <2>. QED  BY <2>1, <2>2 DEF Injection, IsInjective
<1>4. /\ IsFiniteSet(Updates \X Requests)
      /\ Cardinality(Updates \X Requests) = Cardinality(Updates) * Cardinality(Requests)
  BY FiniteAssumption, FS_Product
<1>. QED  BY <1>3, <1>4, FS_Injection

LEMMA SupportTypes ==
  ASSUME SupportInv, FilesBorn PROVE TypeOK
<1>1. PICK Ids : Ids = 0 .. MaxConvs
  OBVIOUS
<1>2. PICK Names : Names = (0 .. MaxConvs) \X (Updates \cup {None}) \X (Requests \cup Desks \cup {None})
  OBVIOUS
<1>3. used \in Nat /\ used =< MaxConvs /\ conv.id \in Nat /\ conv.id =< used
  BY DEF SupportInv, ShapeInv, ChatShape, ConvInv
<1>4. ASSUME NEW n \in Nat, n =< used PROVE n \in 0 .. MaxConvs
  BY <1>3, <1>4, BoundsAssumption
<1>5. conv \in [id : 0 .. MaxConvs, unread : 0 .. Cardinality(Updates) * Cardinality(Requests),
                recent : BOOLEAN]
  <2>1. conv \in [id : Nat, unread : Nat, recent : BOOLEAN]
    BY DEF SupportInv, ShapeInv, ChatShape
  <2>2. conv.unread =< Cardinality(Updates) * Cardinality(Requests)
    <3>1. conv.unread =< Cardinality(Named) /\ Cardinality(Named) \in Nat
      BY FS_CardinalityType DEF SupportInv, CountInv
    <3>2. Cardinality(Updates) * Cardinality(Requests) \in Nat
      <4>1. IsFiniteSet(Updates \X Requests)
              /\ Cardinality(Updates \X Requests) = Cardinality(Updates) * Cardinality(Requests)
        BY FiniteAssumption, FS_Product
      <4>. QED  BY <4>1, FS_CardinalityType
    <3>3. PICK k \in Nat : k = Cardinality(Updates) * Cardinality(Requests)
      BY <3>2
    <3>. QED  BY <2>1, <3>1, <3>3, RowsBounded
  <2>3. PICK Counts : Counts = 0 .. Cardinality(Updates) * Cardinality(Requests)
    OBVIOUS
  <2>4. conv.unread \in Counts
    <3>1. Cardinality(Updates) \in Nat /\ Cardinality(Requests) \in Nat
      BY FiniteAssumption, FS_CardinalityType
    <3>. QED  BY <2>1, <2>2, <2>3, <3>1
  <2>. QED  BY <1>3, <1>4, <2>1, <2>3, <2>4
<1>6. used \in conv.id .. MaxConvs
  BY <1>3, BoundsAssumption
<1>7. \A r \in rows : Name(r) \in Names /\ r.key \in 0 .. MaxTries
  <2>1. ASSUME NEW r \in rows PROVE r.conv \in 0 .. MaxConvs
    BY <1>3, <1>4 DEF SupportInv, ConvInv
  <2>. QED  BY <1>2, <2>1 DEF SupportInv, ShapeInv, StoreShape, Name
<1>8. \A f \in files : <<f.conv, f.upd, f.by>> \in Names /\ f.n \in 1 .. MaxTries
  <2>1. ASSUME NEW f \in files PROVE f.conv \in 0 .. MaxConvs
    BY <1>4 DEF SupportInv, ShapeInv, StoreShape, Keys, FilesBorn
  <2>. QED  BY <1>2, <2>1 DEF SupportInv, ShapeInv, StoreShape, Keys
<1>9. ASSUME NEW x \in Awaited, x \in Nat \X Updates \X Requests PROVE x \in Names
  <2>1. x[1] \in 0 .. MaxConvs
    BY <1>3, <1>4 DEF SupportInv, AwaitedInv, Born
  <2>. QED  BY <1>2, <1>9, <2>1
<1>10. \A j \in jobs : j.row \in Names /\ j.n \in 1 .. MaxTries
  BY <1>9, JobShapes DEF Jobs
<1>11. \A h \in Requests : req[h].seen.id \in 0 .. MaxConvs
  BY <1>4 DEF SupportInv, ShapeInv, ReqShape, ConvInv
<1>12. \A p \in Desks : desk[p].conv \in 0 .. MaxConvs
  BY <1>4 DEF SupportInv, ShapeInv, DeskShape, ConvInv
<1>13. \A w \in Workers : work[w].job.row \in Names
  <2>1. \A w \in Putting : work[w].job.row \in Names
    BY <1>9, JobShapes DEF Jobs
  <2>2. <<0, None, None>> \in Names
    BY <1>2, BoundsAssumption
  <2>3. \A w \in Workers : w \in Putting \/ work[w] = NoWork
    BY DEF SupportInv, ShapeInv, WorkShape, Putting
  <2>. QED  BY <2>1, <2>2, <2>3 DEF NoWork
<1>14. unseen \cup unrecorded \cup lost \subseteq Names
  <2>1. unseen \subseteq Names
    BY <1>7 DEF SupportInv, UnseenInv, Named
  <2>2. 1 .. MaxConvs \subseteq 0 .. MaxConvs
    BY BoundsAssumption
  <2>. QED  BY <1>2, <2>1, <2>2 DEF SupportInv, SentInv
<1>15. tg \in [Updates -> {"unsent", "due", "acked"}] /\ faults \in 0 .. MaxFaults
  BY DEF SupportInv, ShapeInv, ChatShape
<1>. QED  BY <1>2, <1>5, <1>6, <1>7, <1>8, <1>10, <1>11, <1>12, <1>13, <1>14, <1>15 DEF TypeOK

LEMMA SupportSound ==
  ASSUME SupportInv, FilesBorn PROVE InboxIsSound /\ FilesAreSound
<1>1. NothingHides /\ DoublesAreOverlaps /\ SentIsRecorded /\ KeysLead
  BY DEF SupportInv, UnseenInv, OnceInv, SentInv, StorageInv, NothingHides
<1>2. FilesAreKnown
  BY DEF SupportInv, StorageInv, FilesAreKnown, Putting
<1>. QED  BY <1>1, <1>2, SupportTypes DEF InboxIsSound, FilesAreSound

\* The chat's rows, the desk and the downloads keep their invariant, for any number of
\* messages, webhook requests, operators and workers (handle_inbound, reply,
\* delete_conversation, purge_stale, _fetch_attachment).
THEOREM SupportInvariant == Spec => [](SupportInv /\ FilesBorn)
<1>1. Init => SupportInv /\ FilesBorn
  BY SupportInit DEF Init, FilesBorn
<1>2. SupportInv /\ FilesBorn /\ [Next]_vars => SupportInv' /\ FilesBorn'
  BY SupportStep, FilesNumbered
<1>. QED  BY <1>1, <1>2, PTL DEF Spec

\* No message hides from the operators, none is on record twice unless two requests
\* handled it, and what the customer was sent is on record (bump_activity,
\* message_exists, _handle_start, reply).
THEOREM InboxStaysSound == Spec => []InboxIsSound
<1>1. SupportInv /\ FilesBorn => InboxIsSound
  BY SupportSound
<1>. QED  BY <1>1, SupportInvariant, PTL

\* The rows and the object store agree on the files there are, whatever downloads,
\* erasures and the purge overlap (_fetch_attachment, purge_stale, _remove_attachment_keys).
THEOREM FilesStaySound == Spec => []FilesAreSound
<1>1. SupportInv /\ FilesBorn => FilesAreSound
  BY SupportSound
<1>. QED  BY <1>1, SupportInvariant, PTL

=============================================================================
