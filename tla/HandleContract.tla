--------------------------- MODULE HandleContract ---------------------------
(***************************************************************************)
(* What Handles promise to the code that uses them, said without threads,  *)
(* counters, flags or events: "the connection data is not deallocated      *)
(* until all the Handles have been destroyed" (README.md), and a closed    *)
(* connection that nobody refers to any more is deallocated in the end.    *)
(***************************************************************************)
CONSTANT HandleIds    \* every Handle object there can be

VARIABLES
  live,               \* the Handles that refer to the connection
  open,               \* nobody has closed it
  exists              \* its data is still allocated

vars == <<live, open, exists>>

TypeOK == /\ live \subseteq HandleIds
          /\ open \in BOOLEAN
          /\ exists \in BOOLEAN

Init == live = {} /\ open = TRUE /\ exists = TRUE

\* requestHandle on an open connection, or the copy of a live Handle.
Obtain(h) ==
  /\ exists /\ h \notin live
  /\ open \/ live # {}
  /\ live' = live \cup {h}
  /\ UNCHANGED <<open, exists>>

\* A Handle is destroyed, released or assigned over.
GiveUp(h) ==
  /\ exists /\ h \in live
  /\ live' = live \ {h}
  /\ UNCHANGED <<open, exists>>

Close ==
  /\ exists
  /\ open' = FALSE
  /\ UNCHANGED <<live, exists>>

Free ==
  /\ exists /\ ~open /\ live = {}
  /\ exists' = FALSE
  /\ UNCHANGED <<live, open>>

Next == \/ \E h \in HandleIds : Obtain(h) \/ GiveUp(h)
        \/ Close
        \/ Free

Spec == Init /\ [][Next]_vars /\ WF_vars(Free)
=============================================================================
