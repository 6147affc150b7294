---------------------------- MODULE QuarkCookies ----------------------------
(***************************************************************************)
(* Quark (quark.rs): a cookie instead of tokens, one for each account in   *)
(* the process.  Any answer may carry a new __puus for it; the login it    *)
(* belongs to stays the same, and the provider takes the older ones too.   *)
(* There is no access token to run out.                                    *)
(***************************************************************************)
EXTENDS Credentials

Process == CHOOSE h \in Holders : TRUE

\* call_on: the cookie in memory at this moment, and the answer's own.
Send(c) ==
  LET t == Mine(c).refresh
      l == t[1]
      rotated == <<l, newest[l] + 1>>
  IN  /\ cur[c].pc = "send"
      /\ \/ l \in revoked /\ OnlyCall(c, [To(c, "refused") EXCEPT !.used = t])
         \/ l \notin revoked /\ OnlyCall(c, Over(c, "ok"))
         \/ /\ l \notin revoked /\ newest[l] < MaxGrants
            /\ newest' = [newest EXCEPT ![l] = @ + 1]
            /\ Set(c, [To(c, "answer") EXCEPT !.used = t, !.got.refresh = rotated])
            /\ owed' = [owed EXCEPT ![l] = cur[c].src]
            /\ UNCHANGED <<rotates, revoked, grants, dead, expired, logins, kept, older, unsaved>>

\* absorb_cookies: memory under the lock.  An answer that comes after a later one
\* puts the older cookie back.
Absorb(c) ==
  /\ cur[c].pc = "answer"
  /\ live' = [live EXCEPT ![cur[c].holder].refresh = cur[c].got.refresh]
  /\ Set(c, To(c, "write"))
  /\ UNCHANGED <<provider, record, saved, history>>

\* Then, without the lock, the record; a failure is only logged.  Who comes late with
\* an older cookie writes it over the last one.
Write(c) ==
  LET s == cur[c].src
      t == cur[c].got.refresh
      l == t[1]
  IN  /\ cur[c].pc = "write"
      /\ \E written \in BOOLEAN : Persist(s, [record[s] EXCEPT !.refresh = t], written)
      /\ owed' = IF ~Last(t) /\ ~InFlight(l) /\ owed[l] = s THEN [owed EXCEPT ![l] = "order"] ELSE owed
      /\ Set(c, Over(c, "ok"))
      /\ UNCHANGED <<provider, live, older>>

Next == \/ \E c \in Calls : \/ \E s \in Sources : Begin(c, s, Process, "send")
                            \/ Send(c) \/ Absorb(c) \/ Write(c) \/ RequestFails(c) \/ Reply(c)
        \/ Turns
=============================================================================
