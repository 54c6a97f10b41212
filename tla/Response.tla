------------------------------- MODULE Response -------------------------------
(***************************************************************************)
(* What a sender of responses promises to the client: of each response it  *)
(* is given, the bytes go out in order, none twice and none left out, and  *)
(* it reports the end when all of them have gone out.  It may give up.     *)
(***************************************************************************)
EXTENDS Sequences, SequencesExt

CONSTANT Byte

VARIABLES
  whole,   \* the response to send
  out,     \* what has gone out of it
  state    \* "busy", "ended" or "failed"

Init == whole \in Seq(Byte) /\ out = <<>> /\ state = "busy"

(* Until its first byte has gone out, the response may still change.       *)
Compose ==
  /\ out = <<>> /\ state = "busy"
  /\ whole' \in Seq(Byte)
  /\ UNCHANGED <<out, state>>

Send ==
  /\ state = "busy"
  /\ IsPrefix(out, out') /\ IsPrefix(out', whole)
  /\ state' = "busy" \/ (state' = "ended" /\ out' = whole)
  /\ UNCHANGED whole

Fail == state = "busy" /\ state' = "failed" /\ UNCHANGED <<whole, out>>

(* The next response, on the same connection                               *)
Again == state = "ended" /\ whole' \in Seq(Byte) /\ out' = <<>> /\ state' = "busy"

Next == Compose \/ Send \/ Fail \/ Again
Spec == Init /\ [][Next]_<<whole, out, state>>
=============================================================================
