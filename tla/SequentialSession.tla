------------------------- MODULE SequentialSession -------------------------
(***************************************************************************)
(* What a kernel connection promises its client: the requests it accepted  *)
(* are answered one at a time, each at most once, in the order they were   *)
(* accepted ("Requests other than control requests execute sequentially    *)
(* within a session"), until the connection closes, which drops the rest.  *)
(***************************************************************************)
EXTENDS Naturals, Sequences

CONSTANT Limit    \* bound on the requests of a behaviour

VARIABLES pending, answered, open
vars == <<pending, answered, open>>

Init == pending = <<>> /\ answered = <<>> /\ open = TRUE

\* Requests are numbered in the order they are accepted.
Accept ==
  /\ open
  /\ Len(answered) + Len(pending) < Limit
  /\ pending' = Append(pending, Len(answered) + Len(pending) + 1)
  /\ UNCHANGED <<answered, open>>

Answer ==
  /\ open /\ pending # <<>>
  /\ answered' = Append(answered, Head(pending))
  /\ pending' = Tail(pending)
  /\ UNCHANGED open

\* The final answer and the close may be one step: a shutdown reply.
Close ==
  /\ open /\ open' = FALSE
  /\ pending' = <<>>
  /\ \/ UNCHANGED answered
     \/ pending # <<>> /\ answered' = Append(answered, Head(pending))

Next == Accept \/ Answer \/ Close

Spec == Init /\ [][Next]_vars
=============================================================================
