------------------------------ MODULE Carrier ------------------------------
(***************************************************************************)
(* Calling Nova Post: lookups of cities and pickup points with their cache  *)
(* in Redis, the price of a shipment, and the pickup point's names kept on  *)
(* an order.  Every call carries a bearer token that all requests share in  *)
(* Redis, and may be refused because the carrier let the token die.  Each   *)
(* call to Redis or to the carrier may fail, and time passes meanwhile.     *)
(***************************************************************************)
EXTENDS Naturals

CONSTANTS
  Errands,       \* requests that call the carrier
  Jobs,          \* what they call it for: [kind, lang, text]
  Folded,        \* a typed text, stripped and in lower case
  TTL,           \* how long a lookup is kept, for each kind of lookup, in units of clock
  MaxShocks,     \* bound on calls that fail, lost keys, tokens that die and time that passes
  None

\* The unit of time: as long as the token is kept, 50 minutes (_TOKEN_TTL).
TokenTTL == 1

VARIABLES
  clock,
  bearer,        \* np:jwt in Redis: [id, until] or None
  refs,          \* np:ref:... in Redis: a key |-> [rows, until]
  alive,         \* tokens the carrier accepts
  minted,        \* tokens it has handed out
  errand,        \* requests: [pc, job, lang, attempt, token, rows, names, since]
  met,           \* what befell a request: "redis", "carrier", "token" or "price"
  shocks

carrierVars == <<clock, bearer, refs, alive, minted, errand, met, shocks>>
redisVars == <<bearer, refs>>
tokens == <<alive, minted>>

Lookups == DOMAIN TTL
NoErrand ==
  [pc |-> "idle", job |-> None, lang |-> None, attempt |-> 1, token |-> None, rows |-> None,
   names |-> [ro |-> None, ru |-> None], since |-> 0]
UnderWay == {e \in Errands : errand[e].pc \notin {"idle", "answered", "unavailable", "broken"}}

Init ==
  /\ clock = 0
  /\ bearer = None
  /\ refs = [k \in {} |-> None]
  /\ alive = {} /\ minted = 0
  /\ errand = [e \in Errands |-> NoErrand]
  /\ met = [e \in Errands |-> {}]
  /\ shocks = 0

\* The key holds the language, and the text as it is folded (settlements, divisions).
CacheKey(job) == <<job.kind, job.lang, Folded[job.text]>>

Fresh(entry) == clock < entry.until
Kept(job) == CacheKey(job) \in DOMAIN refs /\ Fresh(refs[CacheKey(job)])

\* search_settlements, search_divisions, _carrier_cost, _carrier_snapshot: a lookup asks the
\* cache first, the others ask the carrier; an order's names are asked for in ro, then in ru.
Begin(e, job) ==
  /\ errand[e].pc = "idle"
  /\ errand' = [errand EXCEPT ![e] =
       [NoErrand EXCEPT !.pc = IF job.kind \in Lookups THEN "cache" ELSE "token",
                        !.job = job, !.lang = job.lang, !.since = clock]]
  /\ UNCHANGED <<clock, redisVars, tokens, met, shocks>>

Done(r, pc) == [r EXCEPT !.pc = pc, !.attempt = 1, !.token = None, !.lang = None]
Move(e, r) == errand' = [errand EXCEPT ![e] = r]

\* What is bounded.
Shock == shocks < MaxShocks /\ shocks' = shocks + 1
\* A call of this request fails.
Fails(e, what) == Shock /\ met' = [met EXCEPT ![e] = @ \cup {what}]

\* _cache_get: a Redis that fails is a miss.
ReadCache(e) ==
  LET r == errand[e]
      Miss == [r EXCEPT !.pc = "token"]
  IN  /\ r.pc = "cache"
      /\ \/ /\ Move(e, IF Kept(r.job) THEN [Done(r, "answered") EXCEPT !.rows = refs[CacheKey(r.job)].rows]
                       ELSE Miss)
            /\ UNCHANGED <<met, shocks>>
         \/ Fails(e, "redis") /\ Move(e, Miss)
      /\ UNCHANGED <<clock, redisVars, tokens>>

\* Mutant: the second attempt takes the token in Redis again.
ForcedNever(e) == FALSE

\* _request: the second attempt does not look at the token in Redis.
Forced(e) == errand[e].attempt = 2

\* _token, up to the carrier: a Redis that fails here is not caught, by anybody.
ReadToken(e) ==
  LET r == errand[e]
      usable == ~Forced(e) /\ bearer # None /\ Fresh(bearer)
  IN  /\ r.pc = "token"
      /\ \/ /\ Move(e, IF usable THEN [r EXCEPT !.pc = "send", !.token = bearer.id]
                       ELSE [r EXCEPT !.pc = "mint"])
            /\ UNCHANGED <<met, shocks>>
         \/ ~Forced(e) /\ Fails(e, "redis") /\ Move(e, Done(r, "broken"))
      /\ UNCHANGED <<clock, redisVars, tokens>>

\* What a request still has to do after a call: an order's names take one call for each
\* language, and a call that failed leaves its name blank (division_by_id).
Named(r, name) ==
  IF r.lang = "ro"
  THEN [r EXCEPT !.names.ro = name, !.lang = "ru", !.attempt = 1, !.token = None, !.pc = "token"]
  ELSE [Done(r, "answered") EXCEPT !.names.ru = name]

\* NovaPostError: an order goes without the name, everybody else gets a 502.
Refused(r) == IF r.job.kind = "snapshot" THEN Named(r, None) ELSE Done(r, "unavailable")

\* _token: the carrier hands out a token.
Mint(e) ==
  /\ errand[e].pc = "mint"
  /\ \/ /\ minted' = minted + 1
        /\ alive' = alive \cup {minted'}
        /\ Move(e, [errand[e] EXCEPT !.pc = "keep", !.token = minted'])
        /\ UNCHANGED <<met, shocks>>
     \/ Fails(e, "carrier") /\ Move(e, Refused(errand[e])) /\ UNCHANGED tokens
  /\ UNCHANGED <<clock, redisVars>>

\* _token: the token is put into Redis for everybody, over whatever is there.
KeepToken(e) ==
  LET r == errand[e]
  IN  /\ r.pc = "keep"
      /\ \/ /\ bearer' = [id |-> r.token, until |-> clock + TokenTTL]
            /\ Move(e, [r EXCEPT !.pc = "send"])
            /\ UNCHANGED <<met, shocks>>
         \/ Fails(e, "redis") /\ Move(e, Done(r, "broken")) /\ UNCHANGED bearer
      /\ UNCHANGED <<clock, refs, tokens>>

\* What the carrier answers now: it is asked with the text as it was typed.
Answer(r) == [kind |-> r.job.kind, lang |-> r.lang, text |-> r.job.text, at |-> clock]

\* quote, snapshot: the carrier may have no price, or know no such place.
Received(e) ==
  LET r == errand[e]
  IN  \/ /\ Move(e, CASE r.job.kind \in Lookups -> [r EXCEPT !.pc = "save", !.rows = Answer(r)]
                      [] r.job.kind = "quote" -> [Done(r, "answered") EXCEPT !.rows = Answer(r)]
                      [] OTHER -> Named(r, Answer(r)))
         /\ UNCHANGED <<met, shocks>>
      \/ r.job.kind \notin Lookups /\ Fails(e, "price") /\ Move(e, Refused(r))

\* _request: a token that died is replaced once; what else fails is not tried again.
Send(e) ==
  LET r == errand[e]
  IN  /\ r.pc = "send"
      /\ \/ r.token \in alive /\ Received(e)
         \/ /\ r.token \notin alive
            /\ IF r.attempt = 1
               THEN Move(e, [r EXCEPT !.pc = "token", !.attempt = 2]) /\ met' = [met EXCEPT ![e] = @ \ {"token"}]
               ELSE Move(e, Refused(r)) /\ UNCHANGED met
            /\ UNCHANGED shocks
         \/ Fails(e, "carrier") /\ Move(e, Refused(r))
      /\ UNCHANGED <<clock, redisVars, tokens>>

\* _cache_set: also over a later answer; a Redis that fails keeps nothing.
SaveCache(e) ==
  LET r == errand[e]
      entry == [rows |-> r.rows, until |-> clock + TTL[r.job.kind]]
  IN  /\ r.pc = "save"
      /\ Move(e, Done(r, "answered"))
      /\ \/ /\ refs' = [k \in DOMAIN refs \cup {CacheKey(r.job)} |->
                          IF k = CacheKey(r.job) THEN entry ELSE refs[k]]
            /\ UNCHANGED <<met, shocks>>
         \/ Fails(e, "redis") /\ UNCHANGED refs
      /\ UNCHANGED <<clock, bearer, tokens>>
-----------------------------------------------------------------------------
\* Time passes.  A call takes seconds (_HTTP_TIMEOUT), so no request sees two units end.
Tick ==
  /\ Shock
  /\ \A e \in UnderWay : errand[e].since = clock
  /\ clock' = clock + 1
  /\ UNCHANGED <<redisVars, tokens, errand, met>>

\* Redis loses its keys.
Forget ==
  /\ Shock
  /\ bearer' = None /\ refs' = [k \in {} |-> None]
  /\ UNCHANGED <<clock, tokens, errand, met>>

\* The carrier stops accepting a token, whatever the shop thinks of it.
TokenDies(t) ==
  /\ t \in alive /\ Shock
  /\ alive' = alive \ {t}
  /\ met' = [e \in Errands |-> IF errand[e].token = t THEN met[e] \cup {"token"} ELSE met[e]]
  /\ UNCHANGED <<clock, redisVars, minted, errand>>

Next ==
  \/ \E e \in Errands :
       \/ \E job \in Jobs : Begin(e, job)
       \/ ReadCache(e) \/ ReadToken(e) \/ Mint(e) \/ KeepToken(e) \/ Send(e) \/ SaveCache(e)
  \/ \E t \in alive : TokenDies(t)
  \/ Tick \/ Forget

Spec == Init /\ [][Next]_carrierVars
-----------------------------------------------------------------------------
\* A dead token is bridged: a request is refused only if the carrier was away, gave no
\* price, or let the very token die that was made for this request; it breaks only on a
\* Redis failure; and an order is never refused for want of names (_request, _token,
\* quote, division_by_id).
FailuresAreFaults ==
  \A e \in Errands :
    /\ errand[e].pc = "unavailable" =>
         errand[e].job.kind # "snapshot" /\ met[e] \cap {"carrier", "token", "price"} # {}
    /\ errand[e].pc = "broken" => "redis" \in met[e]

\* A lookup shows what the carrier said in the same language to the same question, or to one
\* typed with other capitals or spaces around it, no longer ago than it is kept; an order's names are each in their own
\* language and as of now (settlements, divisions, snapshot, _cache_set).
AnswersFit ==
  \A e \in Errands :
    LET r == errand[e]
        names == {<<"ro", r.names.ro>>, <<"ru", r.names.ru>>}
    IN  /\ r.pc = "answered" /\ r.job.kind \in Lookups =>
             /\ <<r.rows.kind, r.rows.lang, Folded[r.rows.text]>> = CacheKey(r.job)
             /\ r.rows.at + TTL[r.job.kind] >= r.since
        /\ r.pc = "answered" /\ r.job.kind = "quote" => r.rows.at >= r.since
        /\ \A n \in names : n[2] # None => n[2].lang = n[1] /\ n[2].at >= r.since
=============================================================================
