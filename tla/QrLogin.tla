------------------------------ MODULE QrLogin ------------------------------
(***************************************************************************)
(* Logging in by a QR code (routes/aliyun_qr.rs, routes/baidu_qr.rs, the   *)
(* flows of aliyun_apps.rs and aliyun_web.rs).  The server keeps nothing:  *)
(* the page that shows a code asks for its state again and again and       *)
(* brings the session along; a code that is confirmed is exchanged at once *)
(* for a credential, which works once.  The page may show a new code or be *)
(* closed while a request for the old one is under way.                    *)
(***************************************************************************)
EXTENDS Naturals

CONSTANT MaxCodes   \* bound: codes shown one after the other

VARIABLES code,     \* at the provider: the state of each code
          given,    \* how often each code was exchanged or tried to be
          shown,    \* the code on the page, 0 when it is closed
          page,     \* what the page says
          poll,     \* the request for each code
          direct    \* the answer brings the credential, nothing is exchanged

qrVars == <<code, given, shown, page, poll, direct>>

Codes == 1..MaxCodes
Final == {"confirmed", "expired", "error"}

SetPoll(q, x) == poll' = [poll EXCEPT ![q] = x]

\* create_qrcode: of the provider that makes codes.
Create ==
  /\ \E q \in Codes :
       /\ code[q] = "none" /\ \A r \in 1..(q - 1) : code[r] # "none"
       /\ \/ code' = [code EXCEPT ![q] = "new"] /\ shown' = q /\ page' = "waiting"
          \/ shown' = 0 /\ page' = "error" /\ UNCHANGED code
  /\ UNCHANGED <<given, poll, direct>>

Close == shown' = 0 /\ page' = "closed" /\ UNCHANGED <<code, given, poll, direct>>

\* The page asks for the code it shows, one request after the other.
Ask(q) ==
  /\ q = shown /\ page = "waiting" /\ poll[q] = "none"
  /\ SetPoll(q, "asked")
  /\ UNCHANGED <<code, given, shown, page, direct>>

\* qr_status, qr_query, channel/unicast: what the provider says of the code; a long
\* poll that runs out says "waiting".
State(q) ==
  /\ poll[q] = "asked"
  /\ \/ SetPoll(q, CASE code[q] = "confirmed" -> IF direct THEN "confirmed" ELSE "exchange"
                     [] code[q] = "spent" -> "exchange"
                     [] code[q] = "expired" -> "expired"
                     [] OTHER -> "waiting")
     \/ SetPoll(q, "error")
  /\ UNCHANGED <<code, given, shown, page, direct>>

\* exchange, exchange_bduss: the code for a credential; the answer may be lost.
Exchange(q) ==
  /\ poll[q] = "exchange"
  /\ given' = [given EXCEPT ![q] = @ + 1]
  /\ code' = IF code[q] = "confirmed" THEN [code EXCEPT ![q] = "spent"] ELSE code
  /\ \E x \in IF code[q] = "confirmed" THEN {"confirmed", "error"} ELSE {"error"} : SetPoll(q, x)
  /\ UNCHANGED <<shown, page, direct>>

\* Mutant: the page asks on after an error.
AnswerAndAskOn(q) ==
  /\ poll[q] \in Final \cup {"waiting"}
  /\ SetPoll(q, "none")
  /\ page' = IF q = shown /\ poll[q] \in {"confirmed", "expired"} THEN poll[q] ELSE page
  /\ UNCHANGED <<code, given, shown, direct>>

\* The page takes the answer only while it still shows that code.
Answer(q) ==
  /\ poll[q] \in Final \cup {"waiting"}
  /\ SetPoll(q, "none")
  /\ page' = IF q = shown /\ poll[q] \in Final THEN poll[q] ELSE page
  /\ UNCHANGED <<code, given, shown, direct>>

\* After three minutes the page gives up.
Deadline ==
  /\ page = "waiting" /\ poll[shown] = "none"
  /\ page' = "expired"
  /\ UNCHANGED <<code, given, shown, poll, direct>>

\* The user scans the code on the page, and confirms on the phone, perhaps later;
\* a code nobody confirms ends.
User(q) ==
  /\ \/ q = shown /\ code[q] = "new" /\ code' = [code EXCEPT ![q] = "scanned"]
     \/ code[q] = "scanned" /\ code' = [code EXCEPT ![q] = "confirmed"]
     \/ code[q] \in {"new", "scanned", "confirmed"} /\ code' = [code EXCEPT ![q] = "expired"]
  /\ UNCHANGED <<given, shown, page, poll, direct>>

\* App::silent_grant: the server makes a code, confirms it with the token of the
\* web site and waits for it, ten times half a second; whoever asked for it may
\* have gone, but nobody else has the code.
Silent ==
  /\ ~direct
  /\ \E q \in Codes :
       /\ code[q] = "none" /\ \A r \in 1..(q - 1) : code[r] # "none"
       /\ code' = [code EXCEPT ![q] = "confirmed"]
       /\ SetPoll(q, "asked")
  /\ UNCHANGED <<given, shown, page, direct>>

QrInit ==
  /\ code = [q \in Codes |-> "none"] /\ given = [q \in Codes |-> 0]
  /\ shown = 0 /\ page = "closed"
  /\ poll = [q \in Codes |-> "none"]
  /\ direct \in BOOLEAN

QrNext == \/ Create \/ Close \/ Deadline \/ Silent
          \/ \E q \in Codes : Ask(q) \/ State(q) \/ Exchange(q) \/ Answer(q) \/ User(q)
QrSpec == QrInit /\ [][QrNext]_qrVars
-----------------------------------------------------------------------------
(***************************************************************************)
(* A code that was confirmed is exchanged once: no answer, late or lost,   *)
(* and no new code on the page makes the server exchange it again, which   *)
(* would fail and hide the login that worked; and a page whose code was    *)
(* exchanged neither waits for it nor says that it has run out.            *)
(***************************************************************************)
ExchangedOnce ==
  \A q \in Codes :
    /\ given[q] <= 1
    /\ code[q] = "spent" /\ q = shown /\ poll[q] = "none" => page \in {"confirmed", "error"}
=============================================================================
