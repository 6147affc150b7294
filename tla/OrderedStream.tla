---------------------------- MODULE OrderedStream ----------------------------
(***************************************************************************)
(* What stream_range_cached_mode (engine.rs) promises its caller: the      *)
(* receiver yields the requested plaintext range in order, without a gap   *)
(* or a repetition, and ends in exactly one of three ways: end of body     *)
(* after the whole range, an error before it, or the caller going away.    *)
(***************************************************************************)
EXTENDS Naturals, Sequences

VARIABLES
  first,   \* merged offset of the first unit requested
  total,   \* number of units requested
  body,    \* merged offsets handed to the response channel, in order
  status   \* "open", then "eof", "error" or "gone"

Init == first \in Nat /\ total \in Nat \ {0} /\ body = <<>> /\ status = "open"

\* One more unit of the range: always the one right after the last.
Deliver ==
  /\ status = "open"
  /\ Len(body) < total
  /\ body' = Append(body, first + Len(body))
  /\ UNCHANGED <<first, total, status>>

\* The channel is closed without an error only after the last unit.
End ==
  /\ status = "open"
  /\ Len(body) = total
  /\ status' = "eof"
  /\ UNCHANGED <<first, total, body>>

\* A failed range request surfaces as an error, never as a short body.
Fail ==
  /\ status = "open"
  /\ Len(body) < total
  /\ status' = "error"
  /\ UNCHANGED <<first, total, body>>

\* The caller drops the receiver.
Leave ==
  /\ status = "open"
  /\ status' = "gone"
  /\ UNCHANGED <<first, total, body>>

Next == Deliver \/ End \/ Fail \/ Leave

Spec == Init /\ [][Next]_<<first, total, body, status>>
=============================================================================
