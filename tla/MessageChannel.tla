--------------------------- MODULE MessageChannel ----------------------------
(***************************************************************************)
(* What an application may expect of a pair of connections: it writes      *)
(* payloads at one end and the other end is given payloads that were       *)
(* written, in the order they were written in and none of them twice.      *)
(* Some may never arrive.  There are no buffers, sockets or serializers    *)
(* here.                                                                   *)
(***************************************************************************)
EXTENDS Naturals, Sequences

CONSTANTS Messages

VARIABLES sent, received

\* Some of the payloads in t, in their order, give s.
IsSubsequence(s, t) ==
  \E at \in [DOMAIN s -> DOMAIN t] :
    /\ \A i \in DOMAIN s : s[i] = t[at[i]]
    /\ \A i, j \in DOMAIN s : i < j => at[i] < at[j]

Init == sent = <<>> /\ received = <<>>

\* Handle::write
Send(m) == sent' = Append(sent, m) /\ UNCHANGED received

\* onRead
Receive(m) ==
  /\ received' = Append(received, m)
  /\ IsSubsequence(received', sent)
  /\ UNCHANGED sent

Next == \E m \in Messages : Send(m) \/ Receive(m)

Spec == Init /\ [][Next]_<<sent, received>>

=============================================================================
