---------------------------- MODULE BaiduTokens ----------------------------
(***************************************************************************)
(* Baidu (baidupan.rs): every adapter, and so every request of a user, has *)
(* tokens of its own, shared by the tasks that serve it.  A refresh that   *)
(* is refused falls back on the BDUSS cookie, by which the program logs    *)
(* itself in anew.                                                         *)
(***************************************************************************)
EXTENDS Credentials

Attempts == 3

\* A task of an adapter that is at work, or the first task of a new one.
Join(c) ==
  \E s \in Sources, h \in Holders :
    /\ \A d \in Calls : cur[d].pc # "idle" /\ cur[d].holder = h => cur[d].src = s
    /\ Begin(c, s, h, "token")

\* access_token: the clock alone decides.
Look(c) ==
  /\ cur[c].pc = "token" /\ ~Locked(cur[c].holder)
  /\ OnlyCall(c, IF Mine(c).access \in {0} \cup expired THEN To(c, "wait")
                 ELSE With(c, Mine(c).access))

\* refresh_access_token: only who was refused a token looks whether there is
\* another by now.
Lock(c) ==
  /\ cur[c].pc = "wait" /\ ~Locked(cur[c].holder)
  /\ OnlyCall(c, IF cur[c].stale # 0 /\ Mine(c).access \notin {0, cur[c].stale}
                 THEN With(c, Mine(c).access)
                 ELSE [To(c, "refresh") EXCEPT !.used = Mine(c).refresh])

Refused(c) ==
  /\ cur[c].pc = "refresh" /\ ~Accepted(cur[c].used)
  /\ OnlyCall(c, To(c, "device"))

\* device_code_grant: a code, its approval by the cookie and up to six looks for
\* the tokens; any of them may fail, and six times "pending" is a failure.
Device(c) ==
  /\ cur[c].pc = "device" /\ logins < MaxLogins
  /\ logins' = logins + 1
  /\ Granted(c, <<logins + 1, 0>>)

\* The record first: one that cannot be saved fails the request, and the adapter
\* keeps what it had.
Store(c) ==
  /\ cur[c].pc = "answer"
  /\ \E written \in BOOLEAN :
       /\ Persist(cur[c].src, cur[c].got, written)
       /\ live' = IF written THEN [live EXCEPT ![cur[c].holder] = cur[c].got] ELSE live
       /\ Set(c, CASE ~written -> Over(c, "failed")
                   [] cur[c].try > Attempts -> Over(c, "failed")
                   [] OTHER -> With(c, cur[c].got.access))
  /\ UNCHANGED <<provider, owed, older>>

Retried(c, call) == IF cur[c].try = Attempts THEN Over(c, "failed") ELSE [call EXCEPT !.try = @ + 1]

\* xpan_request: three attempts at most, one of them after a refused token.
Send(c) ==
  /\ cur[c].pc = "send"
  /\ \/ cur[c].token \notin dead /\ OnlyCall(c, Over(c, "ok"))
     \/ OnlyCall(c, Retried(c, cur[c]))
     \/ /\ cur[c].token \in dead
        /\ OnlyCall(c, IF cur[c].stale # 0 THEN Over(c, "failed")
                       ELSE Retried(c, [To(c, "wait") EXCEPT !.stale = cur[c].token]))

\* The last task takes the adapter with it.
Drop(c) ==
  LET h == cur[c].holder
  IN  /\ cur[c].pc \in {"ok", "failed", "refused"}
      /\ Set(c, Idle)
      /\ live' = IF \E d \in Calls \ {c} : cur[d].pc # "idle" /\ cur[d].holder = h THEN live
                 ELSE [live EXCEPT ![h] = Nil]
      /\ UNCHANGED <<provider, record, saved, history>>

Next == \/ \E c \in Calls : \/ Join(c) \/ Look(c) \/ Lock(c) \/ Renew(c) \/ Refused(c) \/ Device(c)
                            \/ Store(c) \/ Send(c) \/ RequestFails(c) \/ Drop(c)
        \/ Around
=============================================================================
