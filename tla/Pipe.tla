-------------------------------- MODULE Pipe --------------------------------
(***************************************************************************)
(* What a proxy owes a stream of bytes that it passes on, whatever happens *)
(* to the two connections: the receiver gets a beginning of what the       *)
(* sender sent, in order, each unit once, and nothing more once the thread *)
(* is done.  It does not promise that all of it arrives.                   *)
(***************************************************************************)
EXTENDS Sequences, SequencesExt

VARIABLES sent,          \* what the sender has sent so far
          received,      \* what was handed to the receiver
          open           \* the thread still works on it

Init == sent = <<>> /\ received = <<>> /\ open = TRUE

Send ==
  /\ IsStrictPrefix(sent, sent')
  /\ UNCHANGED <<received, open>>

Deliver ==
  /\ open
  /\ IsStrictPrefix(received, received')
  /\ IsPrefix(received', sent)
  /\ UNCHANGED <<sent, open>>

Finish == open /\ open' = FALSE /\ UNCHANGED <<sent, received>>

Next == Send \/ Deliver \/ Finish

Spec == Init /\ [][Next]_<<sent, received, open>>
=============================================================================
