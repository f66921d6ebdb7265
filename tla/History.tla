------------------------------ MODULE History ------------------------------
(***************************************************************************)
(* What the history of a round promises whoever checks it, without a file, *)
(* goroutines or counters: logical processes call requests and return from *)
(* them.  A process has one request open at a time, a request is called    *)
(* once, and a process whose response is unknown is retired.               *)
(***************************************************************************)
VARIABLES
  open,      \* the <<process, request>> called and not returned
  retired,   \* the processes with an unknown response
  called     \* the requests ever called

Init == open = {} /\ retired = {} /\ called = {}

Call(p, q) ==
  /\ p \notin retired
  /\ \A e \in open : e[1] # p
  /\ q \notin called
  /\ open' = open \cup {<<p, q>>}
  /\ called' = called \cup {q}
  /\ UNCHANGED retired

Return(p, q) ==
  /\ <<p, q>> \in open
  /\ open' = open \ {<<p, q>>}
  /\ retired' \in {retired, retired \cup {p}}
  /\ UNCHANGED called

Next ==
  \/ \E e \in open' : Call(e[1], e[2])
  \/ \E e \in open : Return(e[1], e[2])

Spec == Init /\ [][Next]_<<open, retired, called>>
=============================================================================
