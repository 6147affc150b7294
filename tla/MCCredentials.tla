--------------------------- MODULE MCCredentials ---------------------------
(***************************************************************************)
(* Requests that meet at one account, or a page that logs in to one.  One  *)
(* behaviour has one provider or is about the page.                        *)
(***************************************************************************)
EXTENDS Credentials, QrLogin, TLC

CONSTANT Kinds

VARIABLE kind

Aliyun == INSTANCE AliyunTokens
Baidu == INSTANCE BaiduTokens
Quark == INSTANCE QuarkCookies

MCInit == /\ Init /\ QrInit /\ kind \in Kinds
          /\ kind \in {"baidu", "quark"} => rotates
          /\ kind = "qr" => rotates
          /\ kind # "qr" => direct
MCRequests == /\ \/ kind = "open" /\ Aliyun!Next
                 \/ kind = "web" /\ Aliyun!WebNext
                 \/ kind = "baidu" /\ Baidu!Next
                 \/ kind = "quark" /\ Quark!Next
              /\ UNCHANGED <<qrVars, kind>>
MCLogin == kind = "qr" /\ QrNext /\ UNCHANGED <<vars, kind>>
MCNext == MCRequests \/ MCLogin
MCSpec == MCInit /\ [][MCNext]_<<vars, qrVars, kind>>

\* At Baidu two tasks whose token ran out by the clock renew one after the other.
Aliyuns == kind \in {"open", "web"}
OneRenewsForAll == Aliyuns => NoNeedlessRefresh

Symmetry == Permutations(Calls) \cup Permutations(Sources)
=============================================================================
