---------------------------- MODULE Credentials ----------------------------
(***************************************************************************)
(* The credential of one account at a provider, and the requests that use  *)
(* and renew it while others do the same.  AliyunTokens, BaiduTokens and   *)
(* QuarkCookies say how each adapter does that; here is what they share:   *)
(* the provider, the records of the data sources in the registry and on    *)
(* disk (state.rs, credential_persister), the user and the process.        *)
(*                                                                         *)
(* A refresh token <<l, n>> is the n-th of login l; using it makes n + 1   *)
(* the only one the provider takes.  An access token is the number of the  *)
(* grant it came with; 0 is none.                                          *)
(***************************************************************************)
EXTENDS Naturals, FiniteSets

CONSTANTS Calls,      \* requests to the provider that may run at the same time
          Sources,    \* data sources of the account
          Holders,    \* where tokens are kept in memory
          Nil,
          MaxLogins,  \* bound: logins of the user, and of the program by itself
          MaxGrants   \* bound: access tokens given out

ASSUME CredentialsAssumption == MaxLogins \in Nat \ {0} /\ MaxGrants \in Nat \ {0}
ASSUME NamesAssumption == Sources # {} /\ Holders # {} /\ Nil \notin Holders

\* Why nobody has the last token of a login: the answer was lost, the process ended
\* before it was saved, the program spent it and dropped what came for it, an older
\* one was written after it.
Reasons == {"answer", "crash", "grant", "order"}
ASSUME ReasonsAssumption == Sources \cap Reasons = {}

VARIABLES
  rotates,         \* the provider replaces a refresh token that is used
  newest, revoked, \* the last token of each login, logins it ended
  grants, dead,    \* access tokens given out, and those it refuses
  expired,         \* the dead ones whose end the program can tell by the clock
  logins,          \* logins so far
  live,            \* the tokens in memory
  record, saved,   \* the tokens of each data source, in the registry and on disk
  cur,             \* the state of each request
  owed,            \* history: whose record is to hold the last token of each login,
                   \* or why nobody has it
  older,           \* history: logins of which memory began with an older token, from
                   \* the record of another data source
  unsaved          \* history: data sources whose record is newer than the file

provider == <<rotates, newest, revoked, grants, dead, expired, logins>>
kept == <<live, record, saved>>
history == <<owed, older, unsaved>>
vars == <<provider, kept, cur, history>>

Token == (1..MaxLogins) \X (0..MaxGrants)
Grant == 0..MaxGrants
Pair == [access : Grant, refresh : Token]
ASSUME NilAssumption == Nil \notin Pair

Idle == [pc |-> "idle", src |-> Nil, holder |-> Nil, token |-> 0, stale |-> 0,
         login |-> 1, used |-> <<1, 0>>, got |-> [access |-> 0, refresh |-> <<1, 0>>],
         try |-> 1, again |-> FALSE]

Set(c, call) == cur' = [cur EXCEPT ![c] = call]
OnlyCall(c, call) == Set(c, call) /\ UNCHANGED <<provider, kept, history>>
To(c, pc) == [cur[c] EXCEPT !.pc = pc]
Over(c, pc) == [Idle EXCEPT !.pc = pc, !.src = cur[c].src, !.holder = cur[c].holder]
With(c, token) == [To(c, "send") EXCEPT !.token = token, !.used = Idle.used, !.got = Idle.got]

Mine(c) == live[cur[c].holder]
Last(t) == t[2] = newest[t[1]]
Accepted(t) == Last(t) /\ t[1] \notin revoked

(***************************************************************************)
(* An adapter is made for every request, from the record; what is in       *)
(* memory already goes before what is in the record.  A data source that   *)
(* is used first after a start brings what it has, though another one's    *)
(* record of the same login may be newer.                                  *)
(***************************************************************************)
Begin(c, s, h, pc) ==
  LET t == record[s].refresh
  IN  /\ cur[c].pc = "idle"
      /\ live' = [live EXCEPT ![h] = IF @ = Nil THEN record[s] ELSE @]
      /\ older' = older \cup {l \in {t[1]} : live[h] = Nil /\ ~Last(t) /\ owed[l] # s}
      /\ Set(c, [Idle EXCEPT !.pc = pc, !.src = s, !.holder = h, !.login = t[1]])
      /\ UNCHANGED <<provider, record, saved, owed, unsaved>>

Reply(c) ==
  /\ cur[c].pc \in {"ok", "failed", "refused"}
  /\ OnlyCall(c, Idle)

\* A request that never arrives, or is turned away for a reason of its own.
RequestFails(c) ==
  /\ cur[c].pc \in {"refresh", "device", "send", "session"}
  /\ OnlyCall(c, Over(c, "failed"))

\* Mutant: no lock.
Unlocked(h) == FALSE

\* Only one renews the tokens of a holder at a time.
Locked(h) == \E c \in Calls : cur[c].holder = h /\ cur[c].pc \in {"refresh", "device", "answer"}

(***************************************************************************)
(* The provider answers a refresh with a new access token and, where it    *)
(* replaces them, a new refresh token.  Its answer may be lost.            *)
(***************************************************************************)
Granted(c, t) ==
  /\ grants < MaxGrants
  /\ grants' = grants + 1
  /\ newest' = [newest EXCEPT ![t[1]] = t[2]]
  /\ \/ /\ Set(c, [To(c, "answer") EXCEPT !.got = [access |-> grants + 1, refresh |-> t]])
        /\ owed' = IF t = cur[c].used THEN owed ELSE [owed EXCEPT ![t[1]] = cur[c].src]
     \/ /\ Set(c, Over(c, "failed"))
        /\ owed' = IF t = cur[c].used THEN owed ELSE [owed EXCEPT ![t[1]] = "answer"]
  /\ UNCHANGED <<rotates, revoked, dead, expired, kept, older, unsaved>>

Renew(c) ==
  LET t == cur[c].used
  IN  /\ cur[c].pc = "refresh" /\ Accepted(t)
      /\ Granted(c, IF rotates THEN <<t[1], t[2] + 1>> ELSE t)
      /\ UNCHANGED logins

\* update_credentials: the record of the data source that renewed, then the whole
\* file, which may fail.
Persist(s, pair, written) ==
  /\ record' = [record EXCEPT ![s] = pair]
  /\ saved' = IF written THEN record' ELSE saved
  /\ unsaved' = IF written THEN {} ELSE unsaved \cup {s}

(***************************************************************************)
(* The provider and the user.                                              *)
(***************************************************************************)
\* An access token ends, by the clock or before its time.
Ends(a) ==
  /\ a \in 1..grants /\ a < MaxGrants /\ a \notin dead
  /\ dead' = dead \cup {a}
  /\ \/ expired' = expired \cup {a}
     \/ expired' = expired
  /\ UNCHANGED <<rotates, newest, revoked, grants, logins, kept, cur, history>>

Revoke(l) ==
  /\ l <= logins /\ l < MaxLogins /\ l \notin revoked
  /\ revoked' = revoked \cup {l}
  /\ UNCHANGED <<rotates, newest, grants, dead, expired, logins, kept, cur, history>>

\* A login page of the front end, or by hand: the record is saved with the
\* first token of the new login.
LogIn(s) ==
  /\ logins < MaxLogins /\ grants < MaxGrants
  /\ logins' = logins + 1 /\ grants' = grants + 1
  /\ \E a \in {0, grants + 1} :
       LET pair == [access |-> a, refresh |-> <<logins + 1, 0>>]
       IN  Persist(s, pair, TRUE)
  /\ owed' = [owed EXCEPT ![logins + 1] = s]
  /\ UNCHANGED <<rotates, newest, revoked, dead, expired, live, cur, older>>

\* The last token of a login came with an answer that has not reached its record.
InFlight(l) ==
  \E c \in Calls : /\ cur[c].pc \in {"answer", "write"}
                   /\ cur[c].got.refresh # cur[c].used /\ cur[c].got.refresh = <<l, newest[l]>>

\* The process ends and starts anew.
Crash ==
  /\ live' = [h \in Holders |-> Nil] /\ record' = saved
  /\ cur' = [c \in Calls |-> Idle]
  /\ owed' = [l \in 1..MaxLogins |->
                IF owed[l] \in Sources /\ (InFlight(l) \/ owed[l] \in unsaved) THEN "crash" ELSE owed[l]]
  /\ older' = {} /\ unsaved' = {}
  /\ UNCHANGED <<provider, saved>>

Init ==
  /\ rotates \in BOOLEAN
  /\ newest = [l \in 1..MaxLogins |-> 0] /\ revoked = {}
  /\ grants = 1 /\ dead = {} /\ expired = {} /\ logins = 1
  /\ live = [h \in Holders |-> Nil]
  /\ record = [s \in Sources |-> [access |-> 1, refresh |-> <<1, 0>>]] /\ saved = record
  /\ cur = [c \in Calls |-> Idle]
  /\ \E s \in Sources : owed = [l \in 1..MaxLogins |-> s]
  /\ older = {} /\ unsaved = {}

Turns == \/ \E l \in 1..MaxLogins : Revoke(l)
         \/ \E s \in Sources : LogIn(s)
         \/ Crash
Around == Turns \/ \E a \in 1..MaxGrants : Ends(a)
-----------------------------------------------------------------------------
TypeOK ==
  /\ rotates \in BOOLEAN
  /\ newest \in [1..MaxLogins -> 0..MaxGrants] /\ revoked \subseteq 1..MaxLogins
  /\ grants \in Grant /\ expired \subseteq dead /\ dead \subseteq 1..grants
  /\ logins \in 1..MaxLogins
  /\ live \in [Holders -> Pair \cup {Nil}]
  /\ record \in [Sources -> Pair] /\ saved \in [Sources -> Pair]
  /\ owed \in [1..MaxLogins -> Sources \cup Reasons]
  /\ older \subseteq 1..MaxLogins /\ unsaved \subseteq Sources
  /\ \A c \in Calls : /\ cur[c].holder \in Holders \cup {Nil}
                      /\ cur[c].token \in Grant /\ cur[c].stale \in Grant
                      /\ cur[c].used \in Token /\ cur[c].got \in Pair /\ cur[c].try \in 1..3

(***************************************************************************)
(* A request is turned away for its credential only when the provider has  *)
(* ended the login it used, when nobody has the last token of that login,  *)
(* or when memory began with the older one of another data source: however *)
(* many requests renew at the same time, none spends what another needs    *)
(* (access_token under TOKEN_LOCKS; device_code_grant as the way back).    *)
(* Two of the causes are the program's own: "grant" and older.             *)
(***************************************************************************)
RefusedForCause ==
  /\ TypeOK
  /\ \A c \in Calls :
       cur[c].pc = "refused" =>
         LET l == cur[c].used[1]
         IN  l \in revoked \/ owed[l] \notin Sources \/ l \in older

(***************************************************************************)
(* What the comment of update_credentials says, that a restart does not go *)
(* back to a token that is no longer good: the same without the last cause.*)
(***************************************************************************)
RestartKeepsLogin ==
  \A c \in Calls :
    cur[c].pc = "refused" =>
      LET l == cur[c].used[1]
      IN  l \in revoked \/ owed[l] \notin Sources

(***************************************************************************)
(* A restart finds a login where it was left: the record of the data       *)
(* source that renewed it last has the last token on disk, unless that is  *)
(* still on its way there, the file could not be written, or the record    *)
(* has become one of another login (the writing back of every refresh      *)
(* through the persister).  Only a login whose last token the program      *)
(* never got, or lost in that window, is not owed to anybody.              *)
(***************************************************************************)
OnDisk ==
  \A l \in 1..MaxLogins :
    LET s == owed[l]
    IN  s \in Sources /\ ~InFlight(l) /\ s \notin unsaved /\ saved[s].refresh[1] = l
          => Last(saved[s].refresh)

(***************************************************************************)
(* Nobody asks for a new token while the one in memory still works: who    *)
(* waited for the lock sees what the one before has brought (the second    *)
(* look in access_token).                                                  *)
(***************************************************************************)
NoNeedlessRefresh ==
  \A c \in Calls : cur[c].pc = "refresh" => Mine(c).access \in dead \cup {0}

(***************************************************************************)
(* Whoever scans again, as the message of a refused refresh asks, is heard *)
(* by the requests that begin afterwards: none is refused for a token of   *)
(* an earlier login than the one its record held.                          *)
(***************************************************************************)
NewLoginUsed ==
  \A c \in Calls : cur[c].pc = "refused" => cur[c].used[1] >= cur[c].login
=============================================================================
