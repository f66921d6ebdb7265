--------------------------- MODULE ClientHistory ---------------------------
(***************************************************************************)
(* The client loops and their history file implement History.              *)
(***************************************************************************)
EXTENDS ClientLoop

(* What a file says is open, retired and called: a call is open until a    *)
(* return of its process and request follows it.                           *)
Answered(h, i) ==
  \E j \in i + 1 .. Len(h) :
    h[j].action = "return" /\ h[j].proc = h[i].proc /\ h[j].req = h[i].req

OpenIn(h) ==
  { <<h[i].proc, h[i].req>> :
      i \in {k \in 1 .. Len(h) : h[k].action = "call" /\ ~ Answered(h, k)} }

RetiredIn(h) ==
  { h[i].proc : i \in {k \in 1 .. Len(h) : h[k].action = "return" /\ h[k].unknown} }

CalledIn(h) ==
  { h[i].req : i \in {k \in 1 .. Len(h) : h[k].action = "call"} }

H == INSTANCE History
       WITH open <- OpenIn(file), retired <- RetiredIn(file), called <- CalledIn(file)

(* Whatever the loops, their tickers and the context do, the file they     *)
(* write is a behaviour of History: OnClientLoop shares process ids and    *)
(* requests among goroutines without a lock and still no process has two   *)
(* requests open, calls after an unknown response or repeats a request.    *)
ImplementsHistory == H!Spec
=============================================================================
