------------------------------- MODULE Exchange -------------------------------
(***************************************************************************)
(* What a connection promises its client: the requests are answered one at *)
(* a time, in their order, each after all of it has been received, and     *)
(* nothing is answered once the connection is closed.                      *)
(***************************************************************************)
EXTENDS Naturals

VARIABLES
  received,  \* requests received whole
  begun,     \* answers whose first byte has gone out
  ended,     \* answers sent whole
  open       \* the connection is open

Init == received = 0 /\ begun = 0 /\ ended = 0 /\ open = TRUE

Receive ==
  /\ open
  /\ received' \in Nat /\ received' > received
  /\ UNCHANGED <<begun, ended, open>>

Begin ==
  /\ open /\ begun = ended /\ begun < received
  /\ begun' = begun + 1
  /\ \/ UNCHANGED <<ended, open>>
     \/ ended' = begun' /\ open' \in BOOLEAN    \* a short one goes out at once
  /\ UNCHANGED received

End ==
  /\ open /\ ended < begun
  /\ ended' = begun
  /\ open' \in BOOLEAN                    \* an error may be the last answer
  /\ UNCHANGED <<received, begun>>

Close == open /\ open' = FALSE /\ UNCHANGED <<received, begun, ended>>

Next == Receive \/ Begin \/ End \/ Close
Spec == Init /\ [][Next]_<<received, begun, ended, open>>
=============================================================================
