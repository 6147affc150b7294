-------------------------- MODULE CredentialsProofs --------------------------
(***************************************************************************)
(* What the Aliyun clients make of their tokens, for any number of         *)
(* requests, data sources and logins: nobody is refused but for a cause,   *)
(* a restart finds the login again, nobody renews a token that works.  And *)
(* that a code of a login page is exchanged once, for every number of      *)
(* codes.                                                                  *)
(***************************************************************************)
EXTENDS MCCredentials, AliyunTokens, TLAPS

CallFields == {"pc", "src", "holder", "token", "stale", "login", "used", "got", "try", "again"}
Ended == {"ok", "failed", "refused"}
AtWork == {"token", "wait", "refresh", "answer", "send", "session"}

\* Tokens of the logins there were.
Known(t, n) == t \in Token /\ t[1] <= n

CallOK(r, n) ==
  /\ DOMAIN r = CallFields
  /\ r.pc \in AtWork \cup Ended \cup {"idle"}
  /\ r.pc \in AtWork => r.holder = Process /\ r.src \in Sources
  /\ r.holder \in Holders \cup {Nil}
  /\ r.token \in Grant /\ r.stale \in Grant /\ r.try = 1
  /\ Known(r.used, n) /\ r.got \in Pair /\ Known(r.got.refresh, n)

Shape ==
  /\ rotates \in BOOLEAN /\ unsaved \subseteq Sources /\ older \subseteq 1..MaxLogins
  /\ owed \in [1..MaxLogins -> Sources \cup Reasons]
  /\ newest \in [1..MaxLogins -> Nat] /\ revoked \subseteq 1..MaxLogins
  /\ grants \in Grant /\ expired \subseteq dead /\ dead \subseteq 1..grants /\ logins \in 1..MaxLogins
  /\ \A l \in 1..MaxLogins : newest[l] < grants /\ (l > logins => newest[l] = 0)
  /\ live \in [Holders -> Pair \cup {Nil}] /\ \A h \in Holders : live[h] # Nil => Known(live[h].refresh, logins)
  /\ record \in [Sources -> Pair] /\ \A s \in Sources : Known(record[s].refresh, logins)
  /\ saved \in [Sources -> Pair] /\ \A s \in Sources : Known(saved[s].refresh, logins)
  /\ DOMAIN cur = Calls /\ \A c \in Calls : CallOK(cur[c], logins)

\* Who renews, alone; nobody is at work before there are tokens in memory.
Renewing(c) == cur[c].pc \in {"refresh", "answer"}
Alone ==
  /\ \A c, d \in Calls : Renewing(c) /\ Renewing(d) => c = d
  /\ live[Process] = Nil => \A c \in Calls : cur[c].pc \notin AtWork

\* A token the provider gave out.
Issued(t) == t[2] <= newest[t[1]]
Past ==
  /\ \A s \in Sources : Issued(record[s].refresh) /\ Issued(saved[s].refresh)
  /\ live[Process] # Nil => Issued(live[Process].refresh)
  /\ \A c \in Calls : cur[c].pc = "answer" => Issued(cur[c].got.refresh)

\* Whoever renews, renews what is in memory; its answer has the last token of the login,
\* for the data source it belongs to, and so has memory but for the causes named.
Brings(c) == cur[c].pc = "answer" /\ cur[c].got.refresh # cur[c].used
Newest ==
  /\ \A c \in Calls : cur[c].pc = "refresh" => cur[c].used = live[Process].refresh
  /\ \A c \in Calls :
       cur[c].pc = "answer" /\ owed[cur[c].got.refresh[1]] \in Sources =>
         /\ Last(cur[c].got.refresh)
         /\ Brings(c) => owed[cur[c].got.refresh[1]] = cur[c].src
  /\ live[Process] # Nil =>
       \/ Last(live[Process].refresh) \/ \E c \in Calls : Brings(c)
       \/ owed[live[Process].refresh[1]] \notin Sources \/ live[Process].refresh[1] \in older

\* The record that is to hold the last token of a login does so, and the file agrees
\* with the records it was written for.
Written ==
  \A l \in 1..MaxLogins :
    LET s == owed[l]
    IN  s \in Sources /\ ~InFlight(l) /\ record[s].refresh[1] = l => Last(record[s].refresh)
Filed == \A s \in Sources \ unsaved : saved[s] = record[s]

\* After a refusal memory holds what was refused, and the provider takes it no more:
\* so nothing heals the login behind the back of the request that was refused.
Cause(l) == l \in revoked \/ owed[l] \notin Sources \/ l \in older
Turned(u) ==
  /\ live[Process] # Nil /\ u = live[Process].refresh
  /\ ~Accepted(u) /\ Cause(u[1])
Causes ==
  \A c \in Calls : cur[c].pc = "refused" =>
    Turned(cur[c].used) /\ \A d \in Calls : cur[d].pc # "answer"

\* What a request was refused is dead, and so is what is renewed.
Needed ==
  /\ \A c \in Calls : cur[c].stale \in dead \cup {0}
  /\ NoNeedlessRefresh

TokensInv == Shape /\ Alone /\ Past /\ Newest /\ Written /\ Filed /\ Causes /\ Needed

-----------------------------------------------------------------------------
LEMMA ProcessIs == Process \in Holders /\ Process # Nil
BY NamesAssumption DEF Process

LEMMA FirstToken == <<1, 0>> \in Token /\ \A n \in 1..MaxLogins : Known(<<1, 0>>, n)
BY CredentialsAssumption DEF Token, Known

LEMMA IdleOK == \A n \in 1..MaxLogins : CallOK(Idle, n) /\ Idle.pc = "idle" /\ Idle.stale = 0
BY FirstToken, CredentialsAssumption DEF CallOK, CallFields, Idle, Grant, Pair, AtWork, Ended

\* The calls a request goes through.
LEMMA ToOK ==
  ASSUME Shape, NEW c \in Calls, NEW p \in AtWork, cur[c].pc \in AtWork
  PROVE  /\ CallOK(To(c, p), logins) /\ To(c, p).pc = p
         /\ \A f \in CallFields \ {"pc"} : To(c, p)[f] = cur[c][f]
BY DEF Shape, CallOK, CallFields, To

LEMMA OverOK ==
  ASSUME Shape, NEW c \in Calls, NEW p \in Ended
  PROVE  CallOK(Over(c, p), logins) /\ Over(c, p).pc = p /\ Over(c, p).stale = 0
<1>1. CallOK(Idle, logins) /\ Idle.stale = 0 /\ cur[c].holder \in Holders \cup {Nil}
      BY IdleOK DEF Shape, CallOK
<1> QED BY <1>1 DEF CallOK, CallFields, Over, Ended, AtWork

LEMMA WithOK ==
  ASSUME Shape, NEW c \in Calls, NEW a \in Grant, cur[c].pc \in AtWork
  PROVE  CallOK(With(c, a), logins) /\ With(c, a).pc = "send" /\ With(c, a).stale = cur[c].stale
<1> DEFINE r == To(c, "send")
<1>1. CallOK(r, logins) /\ r.pc = "send" /\ r.stale = cur[c].stale
      BY ToOK DEF AtWork, CallFields
<1>2. CallOK(Idle, logins)
      BY IdleOK DEF Shape
<1>3. With(c, a) = [r EXCEPT !.token = a, !.used = Idle.used, !.got = Idle.got]
      BY DEF With
<1> HIDE DEF r
<1> QED BY <1>1, <1>2, <1>3 DEF CallOK, CallFields

\* Whoever is at work uses the tokens of the process, and there are some.
LEMMA MineIs ==
  ASSUME Shape, Alone, NEW c \in Calls, cur[c].pc \in AtWork
  PROVE  /\ cur[c].holder = Process /\ Mine(c) = live[Process] /\ cur[c].src \in Sources
         /\ live[Process] # Nil /\ live[Process] \in Pair /\ Known(live[Process].refresh, logins)
BY ProcessIs DEF Shape, Alone, CallOK, Mine

LEMMA SetOne ==
  ASSUME Shape, NEW c \in Calls, NEW r, Set(c, r)
  PROVE  DOMAIN cur' = Calls /\ cur'[c] = r /\ \A d \in Calls \ {c} : cur'[d] = cur[d]
BY DEF Shape, Set

\* Only an answer is under way to a record.
LEMMA InFlightIs ==
  ASSUME Shape, NEW l \in 1..MaxLogins
  PROVE  InFlight(l) <=> \E c \in Calls : Brings(c) /\ cur[c].got.refresh = <<l, newest[l]>>
<1>1. \A c \in Calls : cur[c].pc # "write"
      BY DEF Shape, CallOK, AtWork, Ended
<1> QED BY <1>1 DEF InFlight, Brings

\* A request moves on and touches nothing else.
LEMMA CallMoves ==
  ASSUME TokensInv, NEW c \in Calls, NEW r, OnlyCall(c, r), CallOK(r, logins),
         cur[c].pc # "answer", r.pc # "answer",
         r.pc \in AtWork => cur[c].pc \in AtWork,
         r.pc = "refresh" => /\ \A d \in Calls \ {c} : ~Renewing(d)
                             /\ r.used = live[Process].refresh
                             /\ live[Process].access \in dead \cup {0},
         r.pc = "refused" => Turned(r.used) /\ \A d \in Calls : cur[d].pc # "answer",
         r.stale \in dead \cup {0}
  PROVE  TokensInv'
<1>1. /\ DOMAIN cur' = Calls /\ cur'[c] = r /\ \A d \in Calls \ {c} : cur'[d] = cur[d]
      /\ UNCHANGED <<provider, kept, history>>
      BY SetOne DEF OnlyCall, TokensInv
<1>2. /\ UNCHANGED <<rotates, newest, revoked, grants, dead, expired, logins, live, record, saved>>
      /\ UNCHANGED <<owed, older, unsaved>>
      BY <1>1 DEF provider, kept, history
<1>3. Shape'
      BY <1>1, <1>2 DEF TokensInv, Shape
<1>4. Alone'
      BY <1>1, <1>2 DEF TokensInv, Alone, Renewing
<1>5. ASSUME NEW d \in Calls, cur'[d].pc \in AtWork PROVE Mine(d) = live[Process] \/ d = c
  <2>1. CASE d # c
        BY <1>1, <1>5, <2>1, MineIs DEF TokensInv
  <2> QED BY <2>1
<1>6. r.pc \in AtWork => r.holder = Process
      BY DEF CallOK
<1>7. \A d \in Calls : Brings(d)' <=> Brings(d)
      BY <1>1 DEF Brings
<1>8. \A l \in 1..MaxLogins : InFlight(l)' <=> InFlight(l)
  <2> SUFFICES ASSUME NEW l \in 1..MaxLogins PROVE InFlight(l)' <=> InFlight(l)
      OBVIOUS
  <2>1. ~Brings(c)
        BY DEF Brings
  <2>2. \A d \in Calls : cur'[d].pc # "write" /\ cur[d].pc # "write"
        BY <1>3 DEF TokensInv, Shape, CallOK, AtWork, Ended
  <2> QED BY <1>1, <1>2, <1>7, <2>1, <2>2 DEF InFlight, Brings
<1>9. Past'
      BY <1>1, <1>2 DEF TokensInv, Past, Issued
<1>10. Newest'
  <2>1. \A d \in Calls : cur'[d].pc = "refresh" => cur'[d].used = live'[Process].refresh
        BY <1>1, <1>2 DEF TokensInv, Newest
  <2>2. \A d \in Calls : cur'[d].pc = "answer" => cur'[d] = cur[d]
        BY <1>1
  <2> QED BY <1>2, <1>7, <2>1, <2>2 DEF TokensInv, Newest, Last
<1>11. Written'
      BY <1>2, <1>8 DEF TokensInv, Written, Last
<1>12. Filed'
      BY <1>2 DEF TokensInv, Filed
<1>13. Causes'
      BY <1>1, <1>2 DEF TokensInv, Causes, Turned, Cause, Accepted, Last
<1>14. Needed'
      BY <1>1, <1>2, <1>6 DEF TokensInv, Needed, NoNeedlessRefresh, Mine, AtWork
<1> QED BY <1>3, <1>4, <1>9, <1>10, <1>11, <1>12, <1>13, <1>14 DEF TokensInv

LEMMA TokensInitially == Init => TokensInv
<1> SUFFICES ASSUME Init PROVE TokensInv
    OBVIOUS
<1> USE FirstToken, ProcessIs, CredentialsAssumption
<1>1. \A c \in Calls : CallOK(cur[c], 1) /\ cur[c].pc = "idle" /\ cur[c].stale = 0
      BY IdleOK DEF Init
<1>2. [access |-> 1, refresh |-> <<1, 0>>] \in Pair
      BY DEF Pair, Grant
<1>3. /\ \A s \in Sources : /\ record[s] \in Pair /\ record[s].refresh = <<1, 0>>
                             /\ saved[s] \in Pair /\ saved[s].refresh = <<1, 0>>
      /\ record \in [Sources -> Pair] /\ saved \in [Sources -> Pair]
      BY <1>2 DEF Init
<1>4. Shape
  <2>1. \A s \in Sources : Known(record[s].refresh, logins) /\ Known(saved[s].refresh, logins)
    <3>1. Known(<<1, 0>>, 1) /\ logins = 1
          BY DEF Init
    <3> QED BY <1>3, <3>1
  <2>2. logins = 1 /\ logins \in 1..MaxLogins /\ grants = 1 /\ grants \in Grant
        BY DEF Init, Grant
  <2>3. /\ rotates \in BOOLEAN /\ unsaved = {} /\ older = {}
        /\ owed \in [1..MaxLogins -> Sources \cup Reasons]
        /\ revoked = {} /\ expired = {} /\ dead = {}
        /\ newest = [l \in 1..MaxLogins |-> 0]
        BY DEF Init
  <2>4. live = [h \in Holders |-> Nil] /\ DOMAIN cur = Calls
        BY DEF Init
  <2> QED BY <1>1, <1>3, <2>1, <2>2, <2>3, <2>4 DEF Shape
<1>5. Alone /\ Causes /\ Needed
      BY <1>1 DEF Init, Alone, Renewing, Causes, Needed, NoNeedlessRefresh, AtWork
<1>6. live[Process] = Nil /\ newest[1] = 0 /\ unsaved = {} /\ saved = record
      BY DEF Init
<1>7. Past
      BY <1>1, <1>3, <1>6 DEF Past, Issued
<1>8. Newest
      BY <1>1, <1>6 DEF Newest
<1>9. Written
      BY <1>3, <1>6 DEF Written, Last
<1>10. Filed
      BY <1>6 DEF Filed
<1> QED BY <1>4, <1>5, <1>7, <1>8, <1>9, <1>10 DEF TokensInv

\* The requests that only move on.
LEMMA MovesOn ==
  ASSUME TokensInv, NEW c \in Calls,
         \/ Look(c) \/ Lock(c) \/ Refused(c) \/ Send(c) \/ NoDevice(c) \/ CreateSession(c)
         \/ RequestFails(c) \/ Reply(c)
  PROVE  TokensInv'
<1>0. Shape /\ Alone /\ Newest /\ Needed /\ cur[c].stale \in dead \cup {0}
      BY DEF TokensInv, Needed
<1>1. CallOK(Idle, logins) /\ Idle.pc = "idle" /\ Idle.stale = 0
      BY <1>0, IdleOK DEF Shape
<1>2. \A p \in Ended : CallOK(Over(c, p), logins) /\ Over(c, p).pc = p /\ Over(c, p).stale = 0
      BY <1>0, OverOK
<1>3. ASSUME cur[c].pc \in AtWork
      PROVE  \A p \in AtWork : /\ CallOK(To(c, p), logins) /\ To(c, p).pc = p
                               /\ To(c, p).stale = cur[c].stale
      BY <1>0, <1>3, ToOK DEF CallFields
<1>4. ASSUME cur[c].pc \in AtWork
      PROVE  LET r == Take(c) IN CallOK(r, logins) /\ r.pc = "send" /\ r.stale = cur[c].stale
      BY <1>0, <1>4, MineIs, WithOK DEF Take, Pair
<1>5. ASSUME Look(c) PROVE TokensInv'
  <2>1. cur[c].pc = "token"
        BY <1>5 DEF Look
  <2>2. CASE OnlyCall(c, Take(c))
        BY <1>0, <1>4, <2>1, <2>2, CallMoves DEF AtWork
  <2>3. CASE OnlyCall(c, To(c, "wait"))
        BY <1>0, <1>3, <2>1, <2>3, CallMoves DEF AtWork
  <2> QED BY <1>5, <2>2, <2>3 DEF Look
<1>6. ASSUME Lock(c) PROVE TokensInv'
  <2> DEFINE r == [To(c, "refresh") EXCEPT !.used = Mine(c).refresh]
  <2>1. cur[c].pc = "wait" /\ ~Locked(cur[c].holder)
        BY <1>6 DEF Lock
  <2>2. CASE Usable(c, Mine(c))
        BY <1>0, <1>4, <1>6, <2>1, <2>2, CallMoves DEF AtWork, Lock
  <2>3. CASE ~Usable(c, Mine(c))
    <3>1. OnlyCall(c, r)
          BY <1>6, <2>3 DEF Lock
    <3>2. Mine(c) = live[Process] /\ Known(live[Process].refresh, logins) /\ cur[c].holder = Process
          BY <1>0, <2>1, MineIs DEF AtWork
    <3>3. CallOK(To(c, "refresh"), logins) /\ To(c, "refresh").pc = "refresh" /\ To(c, "refresh").stale = cur[c].stale
          BY <1>3, <2>1 DEF AtWork
    <3>4. /\ CallOK(r, logins) /\ r.pc = "refresh" /\ r.used = live[Process].refresh
          /\ r.stale = cur[c].stale
          BY <3>2, <3>3 DEF CallOK, CallFields
    <3>5. \A d \in Calls : ~Renewing(d)
          BY <1>0, <2>1, <3>2, MineIs DEF Locked, Renewing, AtWork
    <3>6. live[Process].access \in dead \cup {0}
          BY <1>0, <2>3, <3>2 DEF Usable, Shape
    <3> HIDE DEF r
    <3> QED BY <1>0, <2>1, <3>1, <3>4, <3>5, <3>6, CallMoves DEF AtWork
  <2> QED BY <2>2, <2>3
<1>7. ASSUME Refused(c) PROVE TokensInv'
  <2> DEFINE r == To(c, "refused")
  <2>1. cur[c].pc = "refresh" /\ ~Accepted(cur[c].used) /\ OnlyCall(c, r)
        BY <1>7 DEF Refused
  <2>2. CallOK(r, logins) /\ r.pc = "refused" /\ r.used = cur[c].used /\ r.stale = cur[c].stale
        BY <1>0, <2>1 DEF Shape, CallOK, CallFields, To, AtWork, Ended
  <2>3. \A d \in Calls \ {c} : ~Renewing(d)
        BY <1>0, <2>1 DEF Alone, Renewing
  <2>4. \A d \in Calls : cur[d].pc # "answer"
        BY <2>1, <2>3 DEF Renewing
  <2>5. live[Process] # Nil /\ cur[c].used = live[Process].refresh
        BY <1>0, <2>1 DEF Alone, AtWork, Newest
  <2>6. Turned(cur[c].used)
        BY <1>0, <2>1, <2>4, <2>5 DEF Newest, Brings, Turned, Cause, Accepted
  <2> HIDE DEF r
  <2> QED BY <1>0, <2>1, <2>2, <2>4, <2>6, CallMoves DEF AtWork
<1>8. ASSUME Send(c) PROVE TokensInv'
  <2>1. cur[c].pc = "send"
        BY <1>8 DEF Send
  <2>2. CASE OnlyCall(c, Over(c, "ok")) \/ OnlyCall(c, Over(c, "failed"))
        BY <1>2, <2>1, <2>2, CallMoves DEF AtWork, Ended
  <2>3. CASE cur[c].token \in dead /\ OnlyCall(c, [To(c, "token") EXCEPT !.stale = cur[c].token])
    <3> DEFINE r == [To(c, "token") EXCEPT !.stale = cur[c].token]
    <3>1. CallOK(To(c, "token"), logins) /\ To(c, "token").pc = "token"
          BY <1>3, <2>1 DEF AtWork
    <3>2. cur[c].token \in Grant
          BY <1>0 DEF Shape, CallOK
    <3>3. CallOK(r, logins) /\ r.pc = "token" /\ r.stale = cur[c].token
          BY <3>1, <3>2 DEF CallOK, CallFields
    <3> HIDE DEF r
    <3> QED BY <2>1, <2>3, <3>3, CallMoves DEF AtWork, r
  <2> QED BY <1>8, <2>2, <2>3 DEF Send
<1>9. ASSUME NoDevice(c) PROVE TokensInv'
  <2>1. cur[c].pc = "send"
        BY <1>9 DEF NoDevice
  <2>2. CASE OnlyCall(c, Over(c, "failed"))
        BY <1>2, <2>1, <2>2, CallMoves DEF AtWork, Ended
  <2>3. CASE OnlyCall(c, [To(c, "session") EXCEPT !.again = TRUE])
    <3> DEFINE r == [To(c, "session") EXCEPT !.again = TRUE]
    <3>1. CallOK(To(c, "session"), logins) /\ To(c, "session").pc = "session" /\ To(c, "session").stale = cur[c].stale
          BY <1>3, <2>1 DEF AtWork
    <3>2. CallOK(r, logins) /\ r.pc = "session" /\ r.stale = cur[c].stale
          BY <3>1 DEF CallOK, CallFields
    <3> HIDE DEF r
    <3> QED BY <1>0, <2>1, <2>3, <3>2, CallMoves DEF AtWork, r
  <2> QED BY <1>9, <2>2, <2>3 DEF NoDevice
<1>10. ASSUME CreateSession(c) PROVE TokensInv'
      BY <1>0, <1>3, <1>10, CallMoves DEF CreateSession, AtWork
<1>11. ASSUME RequestFails(c) PROVE TokensInv'
      BY <1>2, <1>11, CallMoves DEF RequestFails, AtWork, Ended
<1>12. ASSUME Reply(c) PROVE TokensInv'
      BY <1>1, <1>12, CallMoves DEF Reply, AtWork, Ended
<1> QED BY <1>5, <1>6, <1>7, <1>8, <1>9, <1>10, <1>11, <1>12

\* What is known of the logins so far is known when there are more.
LEMMA MoreLogins ==
  ASSUME logins \in Nat, logins' \in Nat, logins <= logins', NEW t, Known(t, logins)
  PROVE  Known(t, logins')
BY DEF Known, Token

LEMMA CallsKept ==
  ASSUME Shape, logins' \in Nat, logins <= logins', NEW c \in Calls
  PROVE  CallOK(cur[c], logins')
<1>1. CallOK(cur[c], logins) /\ logins \in Nat
      BY CredentialsAssumption DEF Shape
<1> QED BY <1>1, MoreLogins DEF CallOK

LEMMA BeginStep ==
  ASSUME TokensInv, NEW c \in Calls, NEW s \in Sources, Begin(c, s, Process, "token")
  PROVE  TokensInv'
<1> DEFINE r == [Idle EXCEPT !.pc = "token", !.src = s, !.holder = Process, !.login = record[s].refresh[1]]
<1>0. Shape /\ Alone /\ Past /\ Newest /\ Written /\ Filed /\ Causes /\ Needed
      BY DEF TokensInv
<1>1. CallOK(Idle, logins) /\ Idle.stale = 0
      BY <1>0, IdleOK DEF Shape
<1>2. CallOK(r, logins) /\ r.pc = "token" /\ r.stale = 0
      BY <1>1, ProcessIs DEF CallOK, CallFields, AtWork, Ended
<1>3. /\ Set(c, r) /\ cur[c].pc = "idle" /\ UNCHANGED <<provider, record, saved, owed, unsaved>>
      /\ LET t == record[s].refresh
         IN  older' = older \cup {l \in {t[1]} : live[Process] = Nil /\ ~Last(t) /\ owed[l] # s}
      BY DEF Begin
<1> HIDE DEF r
<1>4. DOMAIN cur' = Calls /\ cur'[c] = r /\ \A d \in Calls \ {c} : cur'[d] = cur[d]
      BY <1>0, <1>3, SetOne
<1>5. UNCHANGED <<rotates, newest, revoked, grants, dead, expired, logins, record, saved, owed, unsaved>>
      BY <1>3 DEF provider
<1>6. live' = [live EXCEPT ![Process] = IF @ = Nil THEN record[s] ELSE @]
      BY DEF Begin
<1>7. record[s] \in Pair /\ Known(record[s].refresh, logins) /\ record[s] # Nil
      BY <1>0, NilAssumption DEF Shape
<1>8. /\ live' \in [Holders -> Pair \cup {Nil}] /\ live'[Process] = IF live[Process] = Nil THEN record[s] ELSE live[Process]
      /\ \A h \in Holders \ {Process} : live'[h] = live[h]
      BY <1>0, <1>6, <1>7, ProcessIs DEF Shape
<1>9. record[s].refresh[1] \in 1..MaxLogins /\ older \subseteq older' /\ older' \subseteq 1..MaxLogins
  <2>1. record[s].refresh[1] \in 1..MaxLogins
        BY <1>7, CredentialsAssumption DEF Known, Token
  <2> QED BY <1>0, <1>3, <2>1 DEF Shape
<1>10. Shape'
      BY <1>0, <1>2, <1>4, <1>5, <1>8, <1>7, <1>9 DEF Shape
<1>11. live'[Process] # Nil
      BY <1>8, <1>7
<1>12. \A d \in Calls : cur[d].pc \in AtWork => live'[Process] = live[Process] /\ cur[d].holder = Process
      BY <1>0, <1>8, MineIs
<1>13. Alone'
      BY <1>0, <1>2, <1>4, <1>11 DEF Alone, Renewing
<1>14. \A d \in Calls : Brings(d)' <=> Brings(d)
      BY <1>2, <1>3, <1>4 DEF Brings
<1>15. \A l \in 1..MaxLogins : InFlight(l)' <=> InFlight(l)
      BY <1>2, <1>3, <1>4, <1>5 DEF InFlight
<1>16. Past'
      BY <1>0, <1>2, <1>4, <1>5, <1>8 DEF Past, Issued
<1>17. Newest'
  <2>1. \A d \in Calls : cur'[d].pc = "refresh" => cur'[d].used = live'[Process].refresh
        BY <1>0, <1>2, <1>4, <1>12 DEF Newest, AtWork
  <2>2. \A d \in Calls : cur'[d].pc = "answer" => cur'[d] = cur[d]
        BY <1>2, <1>4
  <2>3. CASE live[Process] # Nil
        BY <1>0, <1>5, <1>8, <1>9, <1>14, <2>1, <2>2, <2>3 DEF Newest, Last
  <2>4. CASE live[Process] = Nil
    <3> DEFINE l == record[s].refresh[1]
    <3>1. live'[Process] = record[s]
          BY <1>8, <2>4
    <3>2. ~InFlight(l)
          BY <1>0, <1>9, <2>4, InFlightIs DEF Alone, Brings, AtWork
    <3>3. Last(record[s].refresh) \/ l \in older' \/ owed[l] \notin Sources
      <4>1. CASE owed[l] = s
            BY <1>0, <1>9, <3>2, <4>1 DEF Written
      <4>2. CASE owed[l] # s
            BY <1>3, <2>4, <4>2
      <4> QED BY <4>1, <4>2
    <3> HIDE DEF l
    <3>4. Last(live[Process].refresh)' \/ l \in older' \/ owed'[l] \notin Sources
          BY <1>5, <3>1, <3>3 DEF Last
    <3>5. live'[Process].refresh[1] = l
          BY <3>1 DEF l
    <3> QED BY <1>0, <1>5, <1>14, <2>1, <2>2, <3>4, <3>5 DEF Newest, Last
  <2> QED BY <2>3, <2>4
<1>18. Written' /\ Filed'
      BY <1>0, <1>5, <1>15 DEF Written, Filed, Last
<1>19. Causes'
  <2> SUFFICES ASSUME NEW d \in Calls, cur'[d].pc = "refused"
               PROVE  Turned(cur[d].used)' /\ \A e \in Calls : cur'[e].pc # "answer"
      BY DEF Causes
  <2>1. d # c /\ cur'[d] = cur[d]
        BY <1>2, <1>4
  <2>2. Turned(cur[d].used) /\ \A e \in Calls : cur[e].pc # "answer"
        BY <1>0, <2>1 DEF Causes
  <2>3. \A e \in Calls : cur'[e].pc # "answer"
        BY <1>2, <1>4, <2>2
  <2>4. live'[Process] = live[Process]
        BY <1>8, <2>2 DEF Turned
  <2>5. Accepted(cur[d].used)' <=> Accepted(cur[d].used)
        BY <1>5, <2>1 DEF Accepted, Last
  <2>6. Cause(cur[d].used[1]) => Cause(cur[d].used[1])'
        BY <1>5, <1>9, <2>1 DEF Cause
  <2> QED BY <2>1, <2>2, <2>3, <2>4, <2>5, <2>6 DEF Turned
<1>20. Needed'
      BY <1>0, <1>2, <1>4, <1>5, <1>12 DEF Needed, NoNeedlessRefresh, Mine, AtWork
<1> QED BY <1>10, <1>13, <1>16, <1>17, <1>18, <1>19, <1>20 DEF TokensInv

\* The provider answers, or its answer is lost.
LEMMA RenewStep ==
  ASSUME TokensInv, NEW c \in Calls, Renew(c)
  PROVE  TokensInv'
<1> DEFINE used == cur[c].used
           t == IF rotates THEN <<used[1], used[2] + 1>> ELSE used
<1>0. Shape /\ Alone /\ Past /\ Newest /\ Written /\ Filed /\ Causes /\ Needed
      BY DEF TokensInv
<1>1. /\ cur[c].pc = "refresh" /\ Accepted(used) /\ grants < MaxGrants /\ grants' = grants + 1
      /\ newest' = [newest EXCEPT ![t[1]] = t[2]]
      /\ UNCHANGED <<rotates, revoked, dead, expired, logins, live, record, saved, older, unsaved>>
      BY DEF Renew, Granted, kept
<1>2. /\ used \in Token /\ used[1] \in 1..logins /\ used[1] \in 1..MaxLogins
      /\ used[2] = newest[used[1]] /\ used[2] \in Nat /\ used[2] < grants
      /\ used = <<used[1], used[2]>>
      /\ grants \in Nat /\ grants + 1 \in Grant /\ logins \in 1..MaxLogins
      BY <1>0, <1>1, CredentialsAssumption DEF Shape, CallOK, Known, Token, Accepted, Last, Grant
<1>3. /\ t \in Token /\ t[1] = used[1] /\ t[2] \in {used[2], used[2] + 1} /\ Known(t, logins)
      /\ rotates => t # used
      /\ ~rotates => t = used
      BY <1>0, <1>1, <1>2, CredentialsAssumption DEF Token, Known, Shape, Grant
<1>4. PICK r : /\ Set(c, r)
               /\ \/ /\ r = [To(c, "answer") EXCEPT !.got = [access |-> grants + 1, refresh |-> t]]
                     /\ owed' = IF t = used THEN owed ELSE [owed EXCEPT ![t[1]] = cur[c].src]
                  \/ /\ r = Over(c, "failed")
                     /\ owed' = IF t = used THEN owed ELSE [owed EXCEPT ![t[1]] = "answer"]
      BY DEF Renew, Granted
<1> HIDE DEF t
<1>5. /\ CallOK(r, logins) /\ r.stale \in dead \cup {0} /\ r.pc \in {"answer", "failed"}
      /\ r.pc = "answer" => /\ r.got.refresh = t /\ r.used = used /\ r.src = cur[c].src
                            /\ owed' = IF t = used THEN owed ELSE [owed EXCEPT ![t[1]] = cur[c].src]
      /\ r.pc = "failed" => owed' = IF t = used THEN owed ELSE [owed EXCEPT ![t[1]] = "answer"]
  <2>1. CASE /\ r = [To(c, "answer") EXCEPT !.got = [access |-> grants + 1, refresh |-> t]]
             /\ owed' = IF t = used THEN owed ELSE [owed EXCEPT ![t[1]] = cur[c].src]
    <3>1. /\ CallOK(To(c, "answer"), logins) /\ To(c, "answer").pc = "answer"
          /\ To(c, "answer").used = used /\ To(c, "answer").stale = cur[c].stale
          /\ To(c, "answer").src = cur[c].src
          BY <1>0, <1>1, ToOK DEF AtWork, CallFields
    <3>2. [access |-> grants + 1, refresh |-> t] \in Pair
          BY <1>2, <1>3 DEF Pair
    <3>3. cur[c].stale \in dead \cup {0}
          BY <1>0 DEF Needed
    <3> QED BY <1>3, <2>1, <3>1, <3>2, <3>3 DEF CallOK, CallFields
  <2>2. CASE r = Over(c, "failed") /\ owed' = IF t = used THEN owed ELSE [owed EXCEPT ![t[1]] = "answer"]
        BY <1>0, <2>2, OverOK DEF Ended
  <2> QED BY <1>4, <2>1, <2>2
<1>6. DOMAIN cur' = Calls /\ cur'[c] = r /\ \A d \in Calls \ {c} : cur'[d] = cur[d]
      BY <1>0, <1>4, SetOne
<1>7. newest' \in [1..MaxLogins -> Nat] /\ \A l \in 1..MaxLogins : newest'[l] < grants' /\ (l > logins => newest'[l] = 0)
      BY <1>0, <1>1, <1>2, <1>3 DEF Shape
<1>8. /\ owed' \in [1..MaxLogins -> Sources \cup Reasons] /\ cur[c].src \in Sources
      /\ \A l \in 1..MaxLogins : l # t[1] => owed'[l] = owed[l] /\ newest'[l] = newest[l]
      /\ t = used => owed' = owed /\ newest' = newest
      /\ t # used => owed'[t[1]] = IF r.pc = "answer" THEN cur[c].src ELSE "answer"
      /\ newest'[t[1]] = t[2] /\ newest[t[1]] <= t[2]
  <2>1. cur[c].src \in Sources /\ "answer" \in Reasons
        BY <1>0, <1>1, MineIs DEF AtWork, Reasons
  <2>2. owed \in [1..MaxLogins -> Sources \cup Reasons] /\ newest \in [1..MaxLogins -> Nat]
        BY <1>0 DEF Shape
  <2>3. t[1] \in 1..MaxLogins /\ t[2] \in Nat
        BY <1>2, <1>3
  <2> HIDE DEF used
  <2>4. owed' \in [1..MaxLogins -> Sources \cup Reasons] /\ (t = used => owed' = owed)
        BY <1>5, <2>1, <2>2, <2>3
  <2>5. t # used => owed'[t[1]] = IF r.pc = "answer" THEN cur[c].src ELSE "answer"
        BY <1>5, <2>2, <2>3
  <2>6. \A l \in 1..MaxLogins : l # t[1] => owed'[l] = owed[l] /\ newest'[l] = newest[l]
        BY <1>1, <1>5, <2>2, <2>3
  <2>7. newest'[t[1]] = t[2] /\ newest[t[1]] <= t[2] /\ (t = used => newest' = newest)
        BY <1>1, <1>2, <1>3, <2>2, <2>3
  <2> QED BY <2>1, <2>4, <2>5, <2>6, <2>7
<1>9. Shape'
      BY <1>0, <1>1, <1>2, <1>5, <1>6, <1>7, <1>8 DEF Shape
<1>10. \A d \in Calls \ {c} : ~Renewing(d)
      BY <1>0, <1>1 DEF Alone, Renewing
<1>11. live[Process] # Nil /\ used = live[Process].refresh
      BY <1>0, <1>1 DEF Alone, AtWork, Newest
<1>12. Alone'
      BY <1>1, <1>6, <1>10, <1>11 DEF Alone, Renewing
<1>13. /\ \A d \in Calls : ~Brings(d) /\ (cur'[d].pc = "answer" => d = c)
       /\ Brings(c)' <=> r.pc = "answer" /\ t # used
      BY <1>1, <1>5, <1>6, <1>10 DEF Brings, Renewing
<1>14. Past'
  <2>1. \A u \in Token : Issued(u) => Issued(u)'
    <3> SUFFICES ASSUME NEW u \in Token, Issued(u) PROVE Issued(u)'
        OBVIOUS
    <3>1. u[1] \in 1..MaxLogins /\ u[2] \in Nat
          BY CredentialsAssumption DEF Token
    <3>2. newest[u[1]] <= newest'[u[1]] /\ newest[u[1]] \in Nat /\ newest'[u[1]] \in Nat
          BY <1>0, <1>7, <1>8, <3>1 DEF Shape
    <3> QED BY <3>1, <3>2 DEF Issued
  <2>2. t[2] <= newest'[t[1]]
        BY <1>2, <1>3, <1>8
  <2>3. /\ \A s \in Sources : record[s].refresh \in Token /\ saved[s].refresh \in Token
        /\ live[Process].refresh \in Token
        BY <1>0, <1>11, ProcessIs DEF Shape, Known
  <2>4. \A s \in Sources : Issued(record[s].refresh)' /\ Issued(saved[s].refresh)'
        BY <1>0, <1>1, <2>1, <2>3 DEF Past, Issued
  <2>5. Issued(live[Process].refresh)'
        BY <1>0, <1>1, <1>11, <2>1, <2>3 DEF Past, Issued
  <2>6. ASSUME NEW d \in Calls, cur'[d].pc = "answer" PROVE Issued(cur[d].got.refresh)'
    <3>1. cur'[d].got.refresh = t
          BY <1>5, <1>6, <1>13, <2>6
    <3> QED BY <2>2, <3>1 DEF Issued
  <2> QED BY <2>4, <2>5, <2>6 DEF Past
<1>15. Newest'
  <2>1. \A d \in Calls : cur'[d].pc # "refresh"
        BY <1>5, <1>6, <1>10 DEF Renewing
  <2>2. ASSUME NEW d \in Calls, cur'[d].pc = "answer"
        PROVE  /\ Last(cur[d].got.refresh)'
               /\ Brings(d)' => owed'[cur'[d].got.refresh[1]] = cur'[d].src
    <3>1. d = c /\ cur'[d] = r /\ r.pc = "answer" /\ r.got.refresh = t /\ r.src = cur[c].src
          BY <1>5, <1>6, <1>13, <2>2
    <3>2. Last(cur[d].got.refresh)'
          BY <1>8, <3>1 DEF Last
    <3>3. Brings(d)' => owed'[t[1]] = cur[c].src
          BY <1>8, <1>13, <3>1
    <3> QED BY <3>1, <3>2, <3>3
  <2>4. \/ Last(live[Process].refresh)' \/ Brings(c)' \/ owed'[live'[Process].refresh[1]] \notin Sources
    <3>1. live'[Process] = live[Process]
          BY <1>1
    <3>2. CASE t = used
          BY <1>8, <1>11, <3>1, <3>2 DEF Last
    <3>3. CASE t # used /\ r.pc = "answer"
          BY <1>13, <3>3
    <3>4. CASE t # used /\ r.pc = "failed"
          BY <1>3, <1>8, <1>11, <3>1, <3>4, ReasonsAssumption DEF Reasons
    <3> QED BY <1>5, <3>2, <3>3, <3>4
  <2> QED BY <2>1, <2>2, <2>4 DEF Newest
<1>16. Written'
  <2> SUFFICES ASSUME NEW l \in 1..MaxLogins, owed'[l] \in Sources, ~InFlight(l)',
                      record'[owed'[l]].refresh[1] = l
               PROVE  Last(record[owed[l]].refresh)'
      BY DEF Written
  <2>1. ~InFlight(l)
    <3>1. InFlight(l) <=> \E d \in Calls : Brings(d) /\ cur[d].got.refresh = <<l, newest[l]>>
          BY <1>0, InFlightIs
    <3> QED BY <1>13, <3>1
  <2>2. l # t[1] \/ t = used
    <3> SUFFICES ASSUME l = t[1], t # used PROVE FALSE
        OBVIOUS
    <3>1. r.pc = "answer"
          BY <1>5, <1>8, ReasonsAssumption DEF Reasons
    <3>2. Brings(c)' /\ cur'[c].got.refresh = t /\ t = <<l, newest'[l]>>
      <4>1. t = <<t[1], t[2]>>
            BY <1>3 DEF Token
      <4> QED BY <1>5, <1>6, <1>8, <1>13, <3>1, <4>1
    <3> QED BY <3>2 DEF InFlight, Brings
  <2>3. owed'[l] = owed[l] /\ newest'[l] = newest[l]
        BY <1>8, <2>2
  <2>4. Last(record[owed[l]].refresh) /\ record[owed[l]].refresh[1] = l
        BY <1>0, <1>1, <2>1, <2>3 DEF Written
  <2> QED BY <1>1, <2>3, <2>4 DEF Last
<1>17. Filed'
      BY <1>0, <1>1 DEF Filed
<1>18. Causes'
  <2>1. \A d \in Calls : cur[d].pc # "refused"
        BY <1>0, <1>1, <1>11 DEF Causes, Turned
  <2> QED BY <1>5, <1>6, <2>1 DEF Causes
<1>19. Needed'
      BY <1>0, <1>1, <1>5, <1>6, <1>10 DEF Needed, NoNeedlessRefresh, Mine, Renewing
<1> QED BY <1>9, <1>12, <1>14, <1>15, <1>16, <1>17, <1>18, <1>19 DEF TokensInv

LEMMA StoreStep ==
  ASSUME TokensInv, NEW c \in Calls, Store(c)
  PROVE  TokensInv'
<1>1. PICK got, s : got = cur[c].got /\ s = cur[c].src
      OBVIOUS
<1>0. Shape /\ Alone /\ Past /\ Newest /\ Written /\ Filed /\ Causes /\ Needed
      BY DEF TokensInv
<1>2. cur[c].pc = "answer" /\ cur[c].pc \in AtWork
      BY DEF Store, AtWork
<1>3. /\ s \in Sources /\ cur[c].holder = Process /\ got \in Pair /\ Known(got.refresh, logins) /\ got # Nil
      /\ got.access \in Grant
      BY <1>1, <1>0, <1>2, NilAssumption DEF Shape, CallOK, Pair
<1>4. PICK written \in BOOLEAN :
        /\ Persist(s, got, written)
        /\ Set(c, IF written THEN With(c, got.access) ELSE Over(c, "failed"))
      BY <1>1 DEF Store
<1>5. /\ live' = [live EXCEPT ![Process] = got]
      /\ UNCHANGED <<rotates, newest, revoked, grants, dead, expired, logins, owed, older>>
      BY <1>1, <1>3 DEF Store, provider
<1>6. /\ record' = [record EXCEPT ![s] = got]
      /\ saved' = IF written THEN record' ELSE saved
      /\ unsaved' = IF written THEN {} ELSE unsaved \cup {s}
      BY <1>4 DEF Persist
<1>7. PICK r : /\ Set(c, r) /\ CallOK(r, logins) /\ r.pc \in {"send", "failed"} /\ r.stale \in dead \cup {0}
  <2>1. CallOK(With(c, got.access), logins) /\ With(c, got.access).pc = "send" /\ With(c, got.access).stale = cur[c].stale
        BY <1>0, <1>2, <1>3, WithOK
  <2>2. CallOK(Over(c, "failed"), logins) /\ Over(c, "failed").pc = "failed" /\ Over(c, "failed").stale = 0
        BY <1>0, OverOK DEF Ended
  <2>3. cur[c].stale \in dead \cup {0}
        BY <1>0 DEF Needed
  <2>4. CASE written
        BY <1>4, <2>1, <2>3, <2>4
  <2>5. CASE ~written
        BY <1>4, <2>2, <2>5
  <2> QED BY <2>4, <2>5
<1>8. DOMAIN cur' = Calls /\ cur'[c] = r /\ \A d \in Calls \ {c} : cur'[d] = cur[d]
      BY <1>0, <1>7, SetOne
<1>9. /\ live' \in [Holders -> Pair \cup {Nil}] /\ live'[Process] = got
      /\ \A h \in Holders \ {Process} : live'[h] = live[h]
      BY <1>0, <1>3, <1>5, ProcessIs DEF Shape
<1>10. /\ record' \in [Sources -> Pair] /\ saved' \in [Sources -> Pair]
       /\ \A q \in Sources : Known(record'[q].refresh, logins) /\ Known(saved'[q].refresh, logins)
      BY <1>0, <1>3, <1>6 DEF Shape
<1>11. Shape'
  <2>1. unsaved' \subseteq Sources
        BY <1>0, <1>3, <1>6 DEF Shape
  <2> QED BY <1>0, <1>3, <1>5, <1>7, <1>8, <1>9, <1>10, <2>1 DEF Shape
<1>12. \A d \in Calls \ {c} : ~Renewing(d)
      BY <1>0, <1>2 DEF Alone, Renewing
<1>13. Alone'
      BY <1>3, <1>7, <1>8, <1>9, <1>12 DEF Alone, Renewing
<1>14. owed[got.refresh[1]] \in Sources => Last(got.refresh) /\ (Brings(c) => owed[got.refresh[1]] = s)
      BY <1>1, <1>0, <1>2 DEF Newest
<1>15. \A d \in Calls : cur'[d].pc \notin {"refresh", "answer"} /\ ~Brings(d)'
      BY <1>7, <1>8, <1>12 DEF Renewing, Brings
<1>16. Past'
  <2>1. Issued(got.refresh)
        BY <1>0, <1>1, <1>2 DEF Past
  <2>2. \A q \in Sources : record'[q] \in {record[q], got} /\ saved'[q] \in {record'[q], saved[q]}
        BY <1>0, <1>3, <1>6 DEF Shape
  <2> QED BY <1>0, <1>5, <1>9, <1>15, <2>1, <2>2 DEF Past, Issued
<1>17. Newest'
      BY <1>5, <1>9, <1>14, <1>15 DEF Newest, Last
<1>18. Written'
  <2> SUFFICES ASSUME NEW l \in 1..MaxLogins, owed[l] \in Sources, record'[owed[l]].refresh[1] = l
               PROVE  Last(record'[owed[l]].refresh)
      BY <1>5 DEF Written, Last
  <2>1. CASE owed[l] = s
    <3>1. record'[s] = got /\ l = got.refresh[1]
          BY <1>0, <1>3, <1>6, <2>1 DEF Shape
    <3> QED BY <1>14, <2>1, <3>1
  <2>2. CASE owed[l] # s
    <3>1. record'[owed[l]] = record[owed[l]]
          BY <1>0, <1>6, <2>2 DEF Shape
    <3>2. ~InFlight(l)
      <4>1. \A d \in Calls \ {c} : ~Brings(d)
            BY <1>12 DEF Brings, Renewing
      <4>2. ~(Brings(c) /\ got.refresh = <<l, newest[l]>>)
            BY <1>14, <2>2
      <4> QED BY <1>0, <1>1, <4>1, <4>2, InFlightIs
    <3> QED BY <1>0, <3>1, <3>2 DEF Written
  <2> QED BY <2>1, <2>2
<1>19. Filed'
      BY <1>0, <1>3, <1>6 DEF Filed, Shape
<1>20. Causes'
  <2>1. \A d \in Calls : cur[d].pc # "refused"
        BY <1>0, <1>2 DEF Causes
  <2> QED BY <1>7, <1>8, <2>1 DEF Causes
<1>21. Needed'
      BY <1>0, <1>5, <1>7, <1>8, <1>12 DEF Needed, NoNeedlessRefresh, Mine, Renewing
<1> QED BY <1>11, <1>13, <1>16, <1>17, <1>18, <1>19, <1>20, <1>21 DEF TokensInv

LEMMA AroundStep ==
  ASSUME TokensInv, Around \/ \E s \in Sources : SilentGrant(s)
  PROVE  TokensInv'
<1>0. Shape /\ Alone /\ Past /\ Newest /\ Written /\ Filed /\ Causes /\ Needed
      BY DEF TokensInv
<1>1. ASSUME NEW a \in 1..MaxGrants, Ends(a) PROVE TokensInv'
  <2>1. /\ dead' = dead \cup {a} /\ expired' \in {expired, expired \cup {a}} /\ a \in 1..grants
        /\ UNCHANGED <<rotates, newest, revoked, grants, logins, live, record, saved, cur>>
        /\ UNCHANGED history
        BY <1>1 DEF Ends, kept
  <2>2. Shape'
        BY <1>0, <2>1 DEF Shape, history
  <2>3. Alone' /\ Past' /\ Newest' /\ Written' /\ Filed'
        BY <1>0, <2>1 DEF Alone, Renewing, Past, Issued, Newest, Brings, Last, Written, InFlight,
           Filed, history
  <2>4. Causes' /\ Needed'
        BY <1>0, <2>1
        DEF Causes, Turned, Cause, Accepted, Last, Needed, NoNeedlessRefresh, Mine, history
  <2> QED BY <2>2, <2>3, <2>4 DEF TokensInv
<1>2. ASSUME NEW l \in 1..MaxLogins, Revoke(l) PROVE TokensInv'
  <2>1. /\ revoked' = revoked \cup {l}
        /\ UNCHANGED <<rotates, newest, grants, dead, expired, logins, live, record, saved, cur>>
        /\ UNCHANGED history
        BY <1>2 DEF Revoke, kept
  <2>2. Shape'
        BY <1>0, <2>1 DEF Shape, history
  <2>3. Alone' /\ Past' /\ Newest' /\ Written' /\ Filed'
        BY <1>0, <2>1 DEF Alone, Renewing, Past, Issued, Newest, Brings, Last, Written, InFlight,
           Filed, history
  <2>4. Causes' /\ Needed'
        BY <1>0, <2>1
        DEF Causes, Turned, Cause, Accepted, Last, Needed, NoNeedlessRefresh, Mine, history
  <2> QED BY <2>2, <2>3, <2>4 DEF TokensInv
<1>3. ASSUME NEW s \in Sources, LogIn(s) PROVE TokensInv'
  <2>1. PICK pair : /\ pair.refresh = <<logins + 1, 0>>
                    /\ pair \in [access : {0, grants + 1}, refresh : {<<logins + 1, 0>>}]
                    /\ record' = [record EXCEPT ![s] = pair] /\ saved' = record' /\ unsaved' = {}
        BY <1>3 DEF LogIn, Persist
  <2>2. /\ logins < MaxLogins /\ grants < MaxGrants /\ logins' = logins + 1 /\ grants' = grants + 1
        /\ owed' = [owed EXCEPT ![logins + 1] = s]
        /\ UNCHANGED <<rotates, newest, revoked, dead, expired, live, cur, older>>
        BY <1>3 DEF LogIn
  <2>3. /\ logins \in Nat /\ logins' \in 1..MaxLogins /\ grants' \in Grant /\ grants \in Nat /\ 0 \in Grant
        BY <1>0, <2>2, CredentialsAssumption DEF Shape, Grant
  <2>4. <<logins + 1, 0>> \in Token /\ Known(<<logins + 1, 0>>, logins') /\ newest[logins + 1] = 0
        BY <1>0, <2>2, <2>3, CredentialsAssumption DEF Token, Known, Shape
  <2>5. pair \in Pair
        BY <2>1, <2>2, <2>3, <2>4 DEF Pair
  <2>6. /\ record'[s] = pair /\ \A q \in Sources \ {s} : record'[q] = record[q]
        /\ owed'[logins + 1] = s /\ \A l \in 1..logins : owed'[l] = owed[l]
        /\ owed' \in [1..MaxLogins -> Sources \cup Reasons]
        BY <1>0, <2>1, <2>2, <2>3 DEF Shape
  <2>7. Shape'
    <3>1. \A c \in Calls : CallOK(cur'[c], logins')
          BY <1>0, <2>2, <2>3, CallsKept
    <3>2. /\ record' \in [Sources -> Pair] /\ saved' \in [Sources -> Pair]
          BY <1>0, <2>1, <2>5 DEF Shape
    <3>3. \A q \in Sources : Known(record'[q].refresh, logins') /\ Known(saved'[q].refresh, logins')
          BY <1>0, <2>1, <2>2, <2>3, <2>4, <2>6, MoreLogins DEF Shape
    <3>4. \A h \in Holders : live'[h] # Nil => Known(live'[h].refresh, logins')
          BY <1>0, <2>2, <2>3, MoreLogins DEF Shape
    <3>5. dead' \subseteq 1..grants' /\ \A l \in 1..MaxLogins : newest'[l] < grants' /\ (l > logins' => newest'[l] = 0)
          BY <1>0, <2>2, <2>3 DEF Shape
    <3> QED BY <1>0, <2>1, <2>2, <2>3, <2>6, <3>1, <3>2, <3>3, <3>4, <3>5 DEF Shape
  <2>8. Past'
    <3>1. Issued(<<logins + 1, 0>>)
          BY <2>4 DEF Issued
    <3> QED BY <1>0, <2>1, <2>2, <2>6, <3>1 DEF Past, Issued
  <2>9. /\ \A c \in Calls : cur[c].got.refresh[1] \in 1..logins /\ cur[c].used[1] \in 1..logins
        /\ live[Process] # Nil => live[Process].refresh[1] \in 1..logins
    <3>1. \A t : Known(t, logins) => t[1] \in 1..logins
          BY <2>3, CredentialsAssumption DEF Known, Token
    <3> QED BY <1>0, <3>1, ProcessIs DEF Shape, CallOK
  <2>10. Newest'
        BY <1>0, <2>2, <2>6, <2>9 DEF Newest, Brings, Last
  <2>11. Written'
    <3> SUFFICES ASSUME NEW l \in 1..MaxLogins, owed'[l] \in Sources, ~InFlight(l)',
                        record'[owed'[l]].refresh[1] = l
                 PROVE  Last(record'[owed'[l]].refresh)
        BY <2>2 DEF Written, Last
    <3>1. CASE owed'[l] = s
          BY <2>1, <2>4, <2>6, <3>1 DEF Last
    <3>2. CASE owed'[l] # s
      <4>1. record'[owed'[l]] = record[owed'[l]] /\ Known(record[owed'[l]].refresh, logins)
            BY <1>0, <2>6, <3>2 DEF Shape
      <4>2. l <= logins /\ owed'[l] = owed[l]
            BY <2>3, <2>6, <4>1 DEF Known
      <4>3. ~InFlight(l)
            BY <2>2 DEF InFlight
      <4> QED BY <1>0, <4>1, <4>2, <4>3 DEF Written
    <3> QED BY <3>1, <3>2
  <2>12. Filed'
        BY <2>1 DEF Filed
  <2>13. Causes'
        BY <1>0, <2>2, <2>6, <2>9 DEF Causes, Turned, Cause, Accepted, Last
  <2>14. Alone' /\ Needed'
        BY <1>0, <2>2 DEF Alone, Renewing, Needed, NoNeedlessRefresh, Mine
  <2> QED BY <2>7, <2>8, <2>10, <2>11, <2>12, <2>13, <2>14 DEF TokensInv
<1>4. ASSUME Crash PROVE TokensInv'
  <2>1. /\ live' = [h \in Holders |-> Nil] /\ record' = saved /\ cur' = [c \in Calls |-> Idle]
        /\ owed' = [l \in 1..MaxLogins |->
                      IF owed[l] \in Sources /\ (InFlight(l) \/ owed[l] \in unsaved) THEN "crash" ELSE owed[l]]
        /\ older' = {} /\ unsaved' = {}
        /\ UNCHANGED <<rotates, newest, revoked, grants, dead, expired, logins, saved>>
        BY <1>4 DEF Crash, provider
  <2>2. \A c \in Calls : cur'[c].pc = "idle" /\ CallOK(cur'[c], logins) /\ cur'[c].stale = 0
        BY <1>0, <2>1, IdleOK DEF Shape
  <2>3. owed' \in [1..MaxLogins -> Sources \cup Reasons]
        BY <1>0, <2>1 DEF Shape, Reasons
  <2>4. Shape'
        BY <1>0, <2>1, <2>2, <2>3 DEF Shape
  <2>5. live'[Process] = Nil
        BY <2>1, ProcessIs
  <2>6. Alone' /\ Past' /\ Newest'
        BY <1>0, <2>1, <2>2, <2>5 DEF Alone, Renewing, AtWork, Past, Issued, Newest
  <2>7. Written'
    <3> SUFFICES ASSUME NEW l \in 1..MaxLogins, owed'[l] \in Sources, record'[owed'[l]].refresh[1] = l
                 PROVE  Last(record[owed[l]].refresh)'
        BY DEF Written
    <3>1. owed'[l] = owed[l] /\ ~InFlight(l) /\ owed[l] \notin unsaved
          BY <2>1, ReasonsAssumption DEF Reasons
    <3>2. record'[owed[l]] = record[owed[l]]
          BY <1>0, <2>1, <3>1 DEF Filed
    <3> QED BY <1>0, <2>1, <3>1, <3>2 DEF Written, Last
  <2>8. Filed'
        BY <2>1 DEF Filed
  <2>9. Causes' /\ Needed'
        BY <2>2 DEF Causes, Needed, NoNeedlessRefresh
  <2> QED BY <2>4, <2>6, <2>7, <2>8, <2>9 DEF TokensInv
<1>5. ASSUME NEW s \in Sources, SilentGrant(s) PROVE TokensInv'
  <2> DEFINE l == record[s].refresh[1]
  <2>1. /\ grants < MaxGrants /\ grants' = grants + 1 /\ newest' = [newest EXCEPT ![l] = @ + 1]
        /\ owed' = [owed EXCEPT ![l] = "grant"] /\ Last(record[s].refresh)
        /\ UNCHANGED <<rotates, revoked, dead, expired, logins, live, record, saved, cur, older, unsaved>>
        BY <1>5 DEF SilentGrant, Accepted, kept
  <2>2. l \in 1..MaxLogins /\ l <= logins /\ grants \in Nat /\ grants' \in Grant
        BY <1>0, <2>1, CredentialsAssumption DEF Shape, Known, Token, Grant
  <2>3. /\ newest' \in [1..MaxLogins -> Nat] /\ dead' \subseteq 1..grants'
        /\ \A m \in 1..MaxLogins : newest'[m] < grants' /\ (m > logins => newest'[m] = 0)
        BY <1>0, <2>1, <2>2 DEF Shape
  <2>4. /\ owed' \in [1..MaxLogins -> Sources \cup Reasons] /\ owed'[l] = "grant" /\ "grant" \notin Sources
        /\ \A m \in 1..MaxLogins : m # l => owed'[m] = owed[m] /\ newest'[m] = newest[m]
        /\ newest'[l] = newest[l] + 1
        BY <1>0, <2>1, <2>2, ReasonsAssumption DEF Shape, Reasons
  <2> HIDE DEF l
  <2>5. Shape'
        BY <1>0, <2>1, <2>2, <2>3, <2>4 DEF Shape
  <2>6. /\ \A q \in Sources : record[q].refresh \in Token /\ saved[q].refresh \in Token
        /\ \A c \in Calls : cur[c].got.refresh \in Token /\ cur[c].used \in Token
        /\ live[Process] # Nil => live[Process].refresh \in Token
        BY <1>0, ProcessIs DEF Shape, CallOK, Known
  <2>7. \A t \in Token : Issued(t) => Issued(t)'
    <3> SUFFICES ASSUME NEW t \in Token, Issued(t) PROVE Issued(t)'
        OBVIOUS
    <3>1. t[1] \in 1..MaxLogins /\ t[2] \in Nat
          BY CredentialsAssumption DEF Token
    <3>2. newest[t[1]] <= newest'[t[1]] /\ newest[t[1]] \in Nat /\ newest'[t[1]] \in Nat
          BY <1>0, <2>3, <2>4, <3>1 DEF Shape
    <3> QED BY <3>1, <3>2 DEF Issued
  <2>8. Past'
        BY <1>0, <2>1, <2>6, <2>7 DEF Past
  <2>9. \A t \in Token : owed'[t[1]] \in Sources => owed[t[1]] = owed'[t[1]] /\ (Last(t) <=> Last(t)')
    <3> SUFFICES ASSUME NEW t \in Token, owed'[t[1]] \in Sources
                 PROVE  owed[t[1]] = owed'[t[1]] /\ (Last(t) <=> Last(t)')
        OBVIOUS
    <3>1. t[1] \in 1..MaxLogins /\ t[1] # l
          BY <2>4, CredentialsAssumption DEF Token
    <3> QED BY <2>4, <3>1 DEF Last
  <2>10. Newest'
    <3>1. \A d \in Calls : Brings(d)' <=> Brings(d)
          BY <2>1 DEF Brings
    <3> QED BY <1>0, <2>1, <2>6, <2>9, <3>1 DEF Newest
  <2>11. Written'
    <3> SUFFICES ASSUME NEW m \in 1..MaxLogins, owed'[m] \in Sources, ~InFlight(m)', record[owed'[m]].refresh[1] = m
                 PROVE  Last(record[owed[m]].refresh)'
        BY <2>1 DEF Written
    <3>1. m # l /\ owed'[m] = owed[m] /\ newest'[m] = newest[m]
          BY <2>4
    <3>2. ~InFlight(m)
          BY <2>1, <3>1 DEF InFlight
    <3> QED BY <1>0, <2>1, <3>1, <3>2 DEF Written, Last
  <2>12. Filed'
        BY <1>0, <2>1 DEF Filed
  <2>13. Causes'
    <3> SUFFICES ASSUME NEW c \in Calls, cur[c].pc = "refused" PROVE Turned(cur[c].used)'
        BY <1>0, <2>1 DEF Causes
    <3>1. PICK u : u = cur[c].used
          OBVIOUS
    <3>2. /\ live[Process] # Nil /\ u = live[Process].refresh /\ ~Accepted(u) /\ Cause(u[1])
          /\ u \in Token /\ u[2] <= newest[u[1]]
          BY <1>0, <2>6, <3>1 DEF Causes, Turned, Past, Issued
    <3>3. u[1] \in 1..MaxLogins /\ u[2] \in Nat
          BY <3>2, CredentialsAssumption DEF Token
    <3>4. u[2] = newest'[u[1]] => u[2] = newest[u[1]]
      <4>1. newest[u[1]] \in Nat /\ newest'[u[1]] >= newest[u[1]] /\ newest'[u[1]] \in Nat
            BY <1>0, <2>3, <2>4, <3>3 DEF Shape
      <4> QED BY <3>2, <3>3, <4>1
    <3>5. u[1] \in revoked' \/ owed'[u[1]] \notin Sources \/ u[1] \in older'
          BY <2>1, <2>4, <3>2, <3>3 DEF Cause
    <3>6. ~(u[2] = newest'[u[1]] /\ u[1] \notin revoked')
          BY <2>1, <3>2, <3>4 DEF Accepted, Last
    <3>7. cur'[c].used = u /\ live'[Process] = live[Process]
          BY <2>1, <3>1
    <3> QED BY <3>2, <3>5, <3>6, <3>7 DEF Turned, Accepted, Last, Cause
  <2>14. Alone' /\ Needed'
        BY <1>0, <2>1 DEF Alone, Renewing, Needed, NoNeedlessRefresh, Mine
  <2> QED BY <2>5, <2>8, <2>10, <2>11, <2>12, <2>13, <2>14 DEF TokensInv
<1> QED BY <1>1, <1>2, <1>3, <1>4, <1>5 DEF Around, Turns

LEMMA TokensStep == TokensInv /\ [WebNext]_vars => TokensInv'
<1> SUFFICES ASSUME TokensInv, [WebNext]_vars PROVE TokensInv'
    OBVIOUS
<1>1. CASE UNCHANGED vars
      BY <1>1
      DEF vars, provider, kept, history, TokensInv, Shape, Alone, Renewing, Past, Issued, Newest,
         Brings, Last, Mine, Written, Filed, InFlight, Causes, Turned, Cause, Accepted, Needed,
         NoNeedlessRefresh
<1>2. CASE WebNext
      BY <1>2, BeginStep, RenewStep, StoreStep, AroundStep, MovesOn DEF WebNext, WebWork, Work
<1> QED BY <1>1, <1>2

LEMMA TokensInvariance == AliyunSpec => []TokensInv
BY TokensInitially, TokensStep, PTL DEF AliyunSpec

-----------------------------------------------------------------------------
\* Whatever requests renew at the same time, one is refused for its credential only when
\* its login was ended, nobody has the last token of it, or memory began with the older
\* one of another data source (access_token under TOKEN_LOCKS).
THEOREM RefusedOnlyForCause == AliyunSpec => []RefusedForCause
<1>1. TokensInv => RefusedForCause
  <2> SUFFICES ASSUME TokensInv PROVE RefusedForCause
      OBVIOUS
  <2>1. newest \in [1..MaxLogins -> 0..MaxGrants]
        BY CredentialsAssumption DEF TokensInv, Shape, Grant
  <2>2. TypeOK
        BY <2>1 DEF TypeOK, TokensInv, Shape, CallOK, Known
  <2> QED BY <2>2 DEF RefusedForCause, TokensInv, Causes, Turned, Cause
<1> QED BY <1>1, TokensInvariance, PTL

\* A restart finds every login where it was left: in the record, on disk, of the data
\* source that renewed it last (update_credentials after every refresh), but for an answer
\* under way or a file that could not be written.
THEOREM LoginIsOnDisk == AliyunSpec => []OnDisk
<1>1. TokensInv => OnDisk
      BY DEF TokensInv, OnDisk, Written, Filed
<1> QED BY <1>1, TokensInvariance, PTL

\* Nobody renews a token that still works (the second look under the lock).
THEOREM RenewsWhatIsDead == AliyunSpec => []NoNeedlessRefresh
<1>1. TokensInv => NoNeedlessRefresh
      BY DEF TokensInv, Needed
<1> QED BY <1>1, TokensInvariance, PTL
-----------------------------------------------------------------------------
\* The behaviours of MCCredentials that are about an Aliyun client are its own.
LEMMA AliyunInits == MCInit => Init
BY DEF MCInit

\* The steps of MCCredentials!Aliyun are those of AliyunTokens.
LEMMA SameWork ==
  ASSUME NEW c \in Calls, Aliyun!WebWork(c) \/ Aliyun!Work(c)
  PROVE  WebWork(c)
<1>1. \A s \in Sources : Aliyun!Begin(c, s, Aliyun!Process, "token") => Begin(c, s, Process, "token")
      BY DEF Begin, Last, Set, Idle, Process, provider, Aliyun!Begin, Aliyun!Last, Aliyun!Set,
             Aliyun!Idle, Aliyun!Process, Aliyun!provider
<1>2. Aliyun!Look(c) => Look(c)
      BY DEF Look, Usable, Take, With, To, Mine, Idle, OnlyCall, Set, provider, kept, history,
             Aliyun!Look, Aliyun!Usable, Aliyun!Take, Aliyun!With, Aliyun!To, Aliyun!Mine,
             Aliyun!Idle, Aliyun!OnlyCall, Aliyun!Set, Aliyun!provider, Aliyun!kept, Aliyun!history
<1>3. Aliyun!Lock(c) => Lock(c)
      BY DEF Lock, Locked, Usable, Take, With, To, Mine, Idle, OnlyCall, Set, provider, kept,
             history, Aliyun!Lock, Aliyun!Locked, Aliyun!Usable, Aliyun!Take, Aliyun!With,
             Aliyun!To, Aliyun!Mine, Aliyun!Idle, Aliyun!OnlyCall, Aliyun!Set, Aliyun!provider,
             Aliyun!kept, Aliyun!history
<1>4. Aliyun!Renew(c) => Renew(c)
      BY DEF Renew, Granted, Accepted, Last, To, Over, Idle, Set, kept, Aliyun!Renew,
             Aliyun!Granted, Aliyun!Accepted, Aliyun!Last, Aliyun!To, Aliyun!Over, Aliyun!Idle,
             Aliyun!Set, Aliyun!kept
<1>5. Aliyun!Refused(c) => Refused(c)
      BY DEF Refused, Accepted, Last, To, OnlyCall, Set, provider, kept, history, Aliyun!Refused,
             Aliyun!Accepted, Aliyun!Last, Aliyun!To, Aliyun!OnlyCall, Aliyun!Set, Aliyun!provider,
             Aliyun!kept, Aliyun!history
<1>6. Aliyun!Store(c) => Store(c)
      BY DEF Store, Persist, With, To, Over, Idle, Set, provider, Aliyun!Store, Aliyun!Persist,
             Aliyun!With, Aliyun!To, Aliyun!Over, Aliyun!Idle, Aliyun!Set, Aliyun!provider
<1>7. Aliyun!Send(c) => Send(c)
      BY DEF Send, To, Over, Idle, OnlyCall, Set, provider, kept, history, Aliyun!Send, Aliyun!To,
             Aliyun!Over, Aliyun!Idle, Aliyun!OnlyCall, Aliyun!Set, Aliyun!provider, Aliyun!kept,
             Aliyun!history
<1>8. Aliyun!RequestFails(c) => RequestFails(c)
      BY DEF RequestFails, Over, Idle, OnlyCall, Set, provider, kept, history, Aliyun!RequestFails,
             Aliyun!Over, Aliyun!Idle, Aliyun!OnlyCall, Aliyun!Set, Aliyun!provider, Aliyun!kept,
             Aliyun!history
<1>9. Aliyun!Reply(c) => Reply(c)
      BY DEF Reply, Idle, OnlyCall, Set, provider, kept, history, Aliyun!Reply, Aliyun!Idle,
             Aliyun!OnlyCall, Aliyun!Set, Aliyun!provider, Aliyun!kept, Aliyun!history
<1>10. Aliyun!NoDevice(c) => NoDevice(c)
      BY DEF NoDevice, To, Over, Idle, OnlyCall, Set, provider, kept, history, Aliyun!NoDevice,
             Aliyun!To, Aliyun!Over, Aliyun!Idle, Aliyun!OnlyCall, Aliyun!Set, Aliyun!provider,
             Aliyun!kept, Aliyun!history
<1>11. Aliyun!CreateSession(c) => CreateSession(c)
      BY DEF CreateSession, To, OnlyCall, Set, provider, kept, history, Aliyun!CreateSession,
             Aliyun!To, Aliyun!OnlyCall, Aliyun!Set, Aliyun!provider, Aliyun!kept, Aliyun!history
<1> QED
  BY <1>1, <1>2, <1>3, <1>4, <1>5, <1>6, <1>7, <1>8, <1>9, <1>10, <1>11
  DEF WebWork, Work, Aliyun!WebWork, Aliyun!Work

LEMMA SameGrant == \A s \in Sources : Aliyun!SilentGrant(s) => SilentGrant(s)
BY DEF SilentGrant, Accepted, Last, kept, Aliyun!SilentGrant, Aliyun!Accepted, Aliyun!Last,
       Aliyun!kept

LEMMA SameAround == Aliyun!Around => Around
BY DEF Around, Turns, Ends, Revoke, LogIn, Persist, Crash, InFlight, Idle, kept, history, provider,
       Aliyun!Around, Aliyun!Turns, Aliyun!Ends, Aliyun!Revoke, Aliyun!LogIn, Aliyun!Persist,
       Aliyun!Crash, Aliyun!InFlight, Aliyun!Idle, Aliyun!kept, Aliyun!history, Aliyun!provider

LEMMA AliyunSteps ==
  ASSUME Aliyuns, [MCNext]_<<vars, qrVars, kind>>
  PROVE  [WebNext]_vars /\ UNCHANGED kind
<1>1. CASE UNCHANGED <<vars, qrVars, kind>>
      BY <1>1
<1>2. CASE MCNext
  <2>1. CASE MCLogin
        BY <2>1 DEF MCLogin
  <2>2. CASE MCRequests
    <3>1. UNCHANGED kind /\ (Aliyun!Next \/ Aliyun!WebNext)
          BY <2>2 DEF MCRequests, Aliyuns
    <3>2. \/ \E c \in Calls : Aliyun!WebWork(c) \/ Aliyun!Work(c)
          \/ \E s \in Sources : Aliyun!SilentGrant(s)
          \/ Aliyun!Around
          BY <3>1 DEF Aliyun!Next, Aliyun!WebNext
    <3>3. WebNext
          BY <3>2, SameWork, SameGrant, SameAround DEF WebNext
    <3> QED BY <3>1, <3>3
  <2> QED BY <1>2, <2>1, <2>2 DEF MCNext
<1> QED BY <1>1, <1>2

\* Also among behaviours of every provider and of the login page: at Aliyun, one renews
\* for all who wait (OneRenewsForAll).
THEOREM OneRenews == MCSpec => []OneRenewsForAll
<1> DEFINE I == Aliyuns => TokensInv
<1>1. MCInit => I
      BY AliyunInits, TokensInitially
<1>2. I /\ [MCNext]_<<vars, qrVars, kind>> => I'
  <2> SUFFICES ASSUME I, [MCNext]_<<vars, qrVars, kind>>, Aliyuns' PROVE TokensInv'
      OBVIOUS
  <2>1. UNCHANGED kind
        BY DEF MCNext, MCRequests, MCLogin
  <2>2. Aliyuns
        BY <2>1 DEF Aliyuns
  <2>3. [WebNext]_vars
        BY <2>2, AliyunSteps
  <2> QED BY <2>2, <2>3, TokensStep
<1>3. I => OneRenewsForAll
      BY DEF TokensInv, Needed, OneRenewsForAll
<1> QED BY <1>1, <1>2, <1>3, PTL DEF MCSpec

-----------------------------------------------------------------------------
(***************************************************************************)
(* The login page.                                                         *)
(***************************************************************************)
Polls == Final \cup {"none", "asked", "exchange", "waiting"}

QrTypeOK ==
  /\ code \in [Codes -> {"none", "new", "scanned", "confirmed", "spent", "expired"}]
  /\ given \in [Codes -> {0, 1}]
  /\ shown \in Codes \cup {0}
  /\ page \in {"closed", "waiting", "confirmed", "expired", "error"}
  /\ poll \in [Codes -> Polls]

\* A code that has not been made is asked for by nobody.
Unmade(q) == code[q] = "none" => poll[q] = "none" /\ given[q] = 0 /\ q # shown

\* After the one exchange there is an answer on its way, and then a page that asks no
\* more: only for another code does it ask again.
Spent(q) ==
  given[q] = 1 =>
    /\ poll[q] \in Final \cup {"none"}
    /\ q = shown /\ poll[q] = "none" => page # "waiting"
    /\ code[q] = "spent" =>
         /\ poll[q] # "expired"
         /\ q = shown /\ poll[q] = "none" => page \in {"confirmed", "error"}

\* Only an exchange spends a code.
ByExchange(q) == code[q] = "spent" => given[q] = 1

QrInv == QrTypeOK /\ \A q \in Codes : Unmade(q) /\ Spent(q) /\ ByExchange(q)

LEMMA QrInitially == QrInit => QrInv
BY DEF QrInit, QrInv, QrTypeOK, Unmade, Spent, ByExchange, Codes, Polls, Final

LEMMA QrStep == QrInv /\ [QrNext]_qrVars => QrInv'
<1> SUFFICES ASSUME QrInv, [QrNext]_qrVars PROVE QrInv'
    OBVIOUS
<1> USE DEF QrInv, QrTypeOK, Unmade, Spent, ByExchange, Polls, Final
<1>0. 0 \notin Codes
      BY DEF Codes
<1>1. CASE Create
      BY <1>0, <1>1 DEF Create
<1>2. CASE Close
      BY <1>0, <1>2 DEF Close
<1>3. CASE Deadline
      BY <1>0, <1>3 DEF Deadline
<1>4. CASE Silent
      BY <1>0, <1>4 DEF Silent, SetPoll
<1>5. ASSUME NEW q \in Codes, Ask(q) PROVE QrInv'
      BY <1>0, <1>5 DEF Ask, SetPoll
<1>6. ASSUME NEW q \in Codes, State(q) PROVE QrInv'
      BY <1>0, <1>6 DEF State, SetPoll
<1>7. ASSUME NEW q \in Codes, Exchange(q) PROVE QrInv'
      BY <1>0, <1>7 DEF Exchange, SetPoll
<1>8. ASSUME NEW q \in Codes, Answer(q) PROVE QrInv'
      BY <1>0, <1>8 DEF Answer, SetPoll
<1>9. ASSUME NEW q \in Codes, User(q) PROVE QrInv'
      BY <1>0, <1>9 DEF User
<1>10. CASE UNCHANGED qrVars
      BY <1>10 DEF qrVars
<1> QED BY <1>1, <1>2, <1>3, <1>4, <1>5, <1>6, <1>7, <1>8, <1>9, <1>10 DEF QrNext

\* A code that was confirmed is exchanged once, and a page whose code was exchanged
\* neither waits nor says that it has run out (poll_qrcode, exchange, AliyunQrModal).
THEOREM CodeExchangedOnce == QrSpec => []ExchangedOnce
<1>1. QrInv => ExchangedOnce
      BY DEF QrInv, QrTypeOK, Spent, ByExchange, ExchangedOnce
<1> QED BY <1>1, QrInitially, QrStep, PTL DEF QrSpec
=============================================================================
