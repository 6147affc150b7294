---------------------------- MODULE AliyunTokens ----------------------------
(***************************************************************************)
(* Both Aliyun clients, of the open platform (aliyundrive.rs) and of the   *)
(* web site (aliyun_web.rs): tokens in one process-wide table, an account  *)
(* renews under a lock, and a request whose token is refused tries once    *)
(* more with another.  The web client may also have to announce its device.*)
(***************************************************************************)
EXTENDS Credentials

\* One holder for the account: the account's name comes out of the refresh token,
\* which is taken to be a JWT, as both clients' are.
Process == CHOOSE h \in Holders : TRUE

Usable(c, pair) ==
  /\ pair.access \notin {0, cur[c].stale}
  /\ pair.access \notin expired

Take(c) == With(c, Mine(c).access)

Look(c) ==
  /\ cur[c].pc = "token"
  /\ OnlyCall(c, IF Usable(c, Mine(c)) THEN Take(c) ELSE To(c, "wait"))

\* Mutant: no second look.
LockBlindly(c) ==
  /\ cur[c].pc = "wait" /\ ~Locked(cur[c].holder)
  /\ OnlyCall(c, [To(c, "refresh") EXCEPT !.used = Mine(c).refresh])

\* The lock, and what the one before has brought meanwhile.
Lock(c) ==
  /\ cur[c].pc = "wait" /\ ~Locked(cur[c].holder)
  /\ OnlyCall(c, IF Usable(c, Mine(c)) THEN Take(c)
                 ELSE [To(c, "refresh") EXCEPT !.used = Mine(c).refresh])

Refused(c) ==
  /\ cur[c].pc = "refresh" /\ ~Accepted(cur[c].used)
  /\ OnlyCall(c, To(c, "refused"))

\* Mutant: the old refresh token is written.
StoreOld(c) ==
  LET got == cur[c].got
  IN  /\ cur[c].pc = "answer"
      /\ live' = [live EXCEPT ![cur[c].holder] = got]
      /\ Persist(cur[c].src, [got EXCEPT !.refresh = cur[c].used], TRUE)
      /\ Set(c, With(c, got.access))
      /\ UNCHANGED <<provider, owed, older>>

\* Memory first; a record that cannot be saved fails the request.
Store(c) ==
  LET got == cur[c].got
  IN  /\ cur[c].pc = "answer"
      /\ live' = [live EXCEPT ![cur[c].holder] = got]
      /\ \E written \in BOOLEAN :
           /\ Persist(cur[c].src, got, written)
           /\ Set(c, IF written THEN With(c, got.access)
                     ELSE Over(c, "failed"))
      /\ UNCHANGED <<provider, owed, older>>

\* call, post, post_url: one more attempt after a dead token.
Send(c) ==
  /\ cur[c].pc = "send"
  /\ IF cur[c].token \notin dead THEN OnlyCall(c, Over(c, "ok"))
     ELSE OnlyCall(c, IF cur[c].stale = 0 THEN [To(c, "token") EXCEPT !.stale = cur[c].token]
                      ELSE Over(c, "failed"))

\* post of the web client: the device is not known.
NoDevice(c) ==
  /\ cur[c].pc = "send"
  /\ OnlyCall(c, IF cur[c].again THEN Over(c, "failed") ELSE [To(c, "session") EXCEPT !.again = TRUE])
CreateSession(c) == cur[c].pc = "session" /\ OnlyCall(c, To(c, "token"))

\* routes/aliyun_qr.rs, silent_grant: the web token that the settings page shows
\* is used to log in to the open platform, and what replaces it thrown away: the
\* program itself ends the login of its web client.
SilentGrant(s) ==
  LET l == record[s].refresh[1]
  IN  /\ rotates /\ Accepted(record[s].refresh) /\ grants < MaxGrants
      /\ grants' = grants + 1
      /\ newest' = [newest EXCEPT ![l] = @ + 1]
      /\ owed' = [owed EXCEPT ![l] = "grant"]
      /\ UNCHANGED <<rotates, revoked, dead, expired, logins, kept, cur, older, unsaved>>

Work(c) == \/ \E s \in Sources : Begin(c, s, Process, "token")
           \/ Look(c) \/ Lock(c) \/ Renew(c) \/ Refused(c) \/ Store(c) \/ Send(c)
           \/ RequestFails(c) \/ Reply(c)
WebWork(c) == Work(c) \/ NoDevice(c) \/ CreateSession(c)

Next == (\E c \in Calls : Work(c)) \/ Around
WebNext == (\E c \in Calls : WebWork(c)) \/ (\E s \in Sources : SilentGrant(s)) \/ Around

\* The web client does all that the other one does.
AliyunSpec == Init /\ [][WebNext]_vars
=============================================================================
