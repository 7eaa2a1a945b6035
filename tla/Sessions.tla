------------------------------ MODULE Sessions ------------------------------
(***************************************************************************)
(* Signing in and the refresh tokens of a session.  A token is good until   *)
(* its key is written to a blacklist in Redis, whose entry lives as long as *)
(* the token; testing the blacklist and writing it are two calls.           *)
(***************************************************************************)
EXTENDS Naturals, FiniteSets

CONSTANTS
  Members,      \* users who may sign in
  Requests,
  MaxTokens,    \* bound on the refresh tokens issued
  None

Tokens == 1 .. MaxTokens

VARIABLES
  active,       \* users whose account is active
  token,        \* refresh tokens issued, in order: [owner, parent]
  blacklisted,  \* keys under auth:blacklist:refresh in Redis
  expired,      \* tokens past their lifetime
  ask,          \* requests under way: [kind, token]
  ended,        \* tokens signed out before they were used
  twice         \* tokens two requests used at once

sessionVars == <<active, token, blacklisted, expired, ask, ended, twice>>

Issued == DOMAIN token
Children(t) == {c \in Issued : token[c].parent = t}

Init ==
  /\ active = Members
  /\ token = [t \in {} |-> None]
  /\ blacklisted = {} /\ expired = {}
  /\ ask = [q \in Requests |-> None]
  /\ ended = {} /\ twice = {}

\* _issue_pair
IssuePair(u, parent) ==
  /\ Cardinality(Issued) < MaxTokens
  /\ token' = [t \in 1 .. Cardinality(Issued) + 1 |->
                 IF t \in Issued THEN token[t] ELSE [owner |-> u, parent |-> parent]]

\* login: the account is found, the password right and the account active.
Login(u) ==
  /\ u \in active
  /\ IssuePair(u, None)
  /\ UNCHANGED <<active, blacklisted, expired, ask, ended, twice>>

\* Staff suspend or restore the account, or the user erases it: no token is touched.
Switch(u) ==
  /\ active' = IF u \in active THEN active \ {u} ELSE active \cup {u}
  /\ UNCHANGED <<token, blacklisted, expired, ask, ended, twice>>

\* The token's lifetime ends, and with it that of its blacklist entry.
Expire(t) ==
  /\ t \in Issued \ expired
  /\ expired' = expired \cup {t}
  /\ blacklisted' = blacklisted \ {t}
  /\ UNCHANGED <<active, token, ask, ended, twice>>

\* _decode_refresh
Decodes(t) == t \in Issued \ expired

IsBlacklisted(t) == t \in blacklisted

\* refresh and logout read; logging out does not ask the blacklist.
Begin(q, kind, t) ==
  /\ ask[q] = None
  /\ Decodes(t)
  /\ kind = "refresh" => ~IsBlacklisted(t)
  /\ ask' = [ask EXCEPT ![q] = [kind |-> kind, token |-> t]]
  /\ twice' = IF \E p \in Requests : ask[p] # None /\ ask[p].token = t THEN twice \cup {t} ELSE twice
  /\ UNCHANGED <<active, token, blacklisted, expired, ended>>

\* _blacklist: nothing is written once the token has expired.
Blacklist(t) == blacklisted' = IF t \in expired THEN blacklisted ELSE blacklisted \cup {t}

\* The token is spent, then the next pair issued, whatever became of the account.
Refresh(q) ==
  /\ ask[q] # None /\ ask[q].kind = "refresh"
  /\ Blacklist(ask[q].token)
  /\ IssuePair(token[ask[q].token].owner, ask[q].token)
  /\ ask' = [ask EXCEPT ![q] = None]
  /\ UNCHANGED <<active, expired, ended, twice>>

Logout(q) ==
  /\ ask[q] # None /\ ask[q].kind = "logout"
  /\ Blacklist(ask[q].token)
  /\ ended' = IF Children(ask[q].token) = {} THEN ended \cup {ask[q].token} ELSE ended
  /\ ask' = [ask EXCEPT ![q] = None]
  /\ UNCHANGED <<active, token, expired, twice>>

\* Redis does not answer, or the process stops: before the blacklist is written, or after
\* it and before the pair reaches anybody.
Fail(q) ==
  /\ ask[q] # None
  /\ Blacklist(ask[q].token) \/ UNCHANGED blacklisted
  /\ ask' = [ask EXCEPT ![q] = None]
  /\ UNCHANGED <<active, token, expired, ended, twice>>

Next ==
  \/ \E u \in Members : Login(u) \/ Switch(u)
  \/ \E t \in Tokens : Expire(t)
  \/ \E q \in Requests, t \in Tokens, kind \in {"refresh", "logout"} : Begin(q, kind, t)
  \/ \E q \in Requests : Refresh(q) \/ Logout(q) \/ Fail(q)

Spec == Init /\ [][Next]_sessionVars
-----------------------------------------------------------------------------
\* Properties

\* Tokens follow earlier tokens of the same account, and Redis holds tokens.
TypeOK ==
  /\ \A t \in Issued : token[t].parent # None =>
       token[t].parent \in 1 .. t - 1 /\ token[token[t].parent].owner = token[t].owner
  /\ blacklisted \subseteq Issued

\* A refresh token is good for one pair, and for none once it was signed out, unless two
\* requests used it at once: the test and the writing of the blacklist are two calls.
UsedRefreshStops ==
  \A t \in Issued \ twice :
    Cardinality(Children(t)) =< 1 /\ (t \in ended => Children(t) = {})
=============================================================================
