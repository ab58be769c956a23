---------------------------- MODULE MCChatMessages ----------------------------
(***************************************************************************)
(* A chat that begins with a request and in which one message at most is   *)
(* not one, to keep the instance small.                                    *)
(***************************************************************************)
EXTENDS ChatMessages

MCInit ==
  /\ Init
  /\ kind[1] = "request"
  /\ \A m, n \in Messages : kind[m] # "request" /\ kind[n] # "request" => m = n

MCSpec == MCInit /\ [][Next]_vars

=============================================================================
