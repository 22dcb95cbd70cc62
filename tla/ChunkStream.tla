----------------------------- MODULE ChunkStream -----------------------------
(***************************************************************************)
(* What a streaming query promises to the one who fetches from it, however *)
(* many threads produce its chunks: every chunk of the result once, in the *)
(* order of the data when the plan preserves it, an end without an error   *)
(* only behind the last one, and a failure at any time.  The code that     *)
(* keeps the promise is modelled by BatchedStream and SimpleStream.        *)
(***************************************************************************)
EXTENDS Naturals, Sequences

VARIABLES
  ordered,    \* the plan preserves the order
  whole,      \* the chunks of the result, all different, in the order of the data
  delivered,  \* the chunks that Fetch has returned
  status      \* "open", "complete", "failed", or "dropped" by the client

vars == <<ordered, whole, delivered, status>>

Init ==
  /\ delivered = <<>>
  /\ status = "open"

\* Also behind a failure: chunks that were produced before it may still come.
Deliver ==
  /\ status \in {"open", "failed"}
  /\ \E i \in DOMAIN whole :
       /\ \A j \in DOMAIN delivered : delivered[j] # whole[i]
       /\ ordered => i = Len(delivered) + 1
       /\ delivered' = Append(delivered, whole[i])
  /\ UNCHANGED <<ordered, whole, status>>

Complete ==
  /\ status = "open"
  /\ Len(delivered) = Len(whole)
  /\ status' = "complete"
  /\ UNCHANGED <<ordered, whole, delivered>>

Fail ==
  /\ status = "open"
  /\ status' = "failed"
  /\ UNCHANGED <<ordered, whole, delivered>>

Drop ==
  /\ status \in {"open", "failed"}
  /\ status' = "dropped"
  /\ UNCHANGED <<ordered, whole, delivered>>

Next == Deliver \/ Complete \/ Fail \/ Drop

Spec == Init /\ [][Next]_vars

=============================================================================
