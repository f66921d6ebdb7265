----------------------------- MODULE ClientLoop -----------------------------
(***************************************************************************)
(* One round of requests: the client goroutines that run OnClientLoop or   *)
(* the loop built by BuildClientLoopThrottle (cmd/util/suit.go).  They     *)
(* share the process counter *proc, the budget *requestCount, the Recorder *)
(* and the round's context; the throttled loop has a ticker goroutine that *)
(* hands out tokens over an unbuffered channel.                            *)
(***************************************************************************)
EXTENDS Recorder, FiniteSets

CONSTANTS
  Clients,        \* the client goroutines, one per entry of cfg.ClientNodes
  RequestCount,   \* cfg.RequestCount
  MayBeUnknown,   \* the client's response type has unknown responses
  Throttle        \* TRUE: BuildClientLoopThrottle, FALSE: OnClientLoop

ASSUME ClientsAssumption == IsFiniteSet(Clients)
ASSUME RequestCountAssumption == RequestCount \in Nat
ASSUME ThrottleAssumption == Throttle \in BOOLEAN
ASSUME MayBeUnknownAssumption == MayBeUnknown \in BOOLEAN

VARIABLES
  pc,             \* where each client goroutine stands
  proc,           \* *proc: the last process id handed out
  requestCount,   \* *requestCount: the budget left, negative once overdrawn
  procID,         \* the goroutine's process id
  req,            \* the request it works on: the budget value it drew
  isUnknown,      \* what its last response said
  tpc,            \* where its ticker goroutine stands
  tokenClosed,    \* its token channel has been closed
  ctxDone,        \* the round's context is done: timeout or cancellation
  fatal,          \* log.Fatalf was called: the process is gone
  ended,          \* history: the requests whose Invoke has returned
  precedes        \* history: <<a, b>>: a's Invoke returned before b's began

loopVars == <<pc, proc, requestCount, procID, req, isUnknown>>
tickerVars == <<tpc, tokenClosed>>
ghostVars == <<ended, precedes>>
clientVars == <<loopVars, tickerVars, ctxDone, fatal, ghostVars>>
vars == <<recorderVars, clientVars>>

(* The goroutine's own ctx, made by WithCancel(ctx) and cancelled when it  *)
(* returns.                                                                *)
ownCtxDone(c) == ctxDone \/ pc[c] = "done"

RoundInit ==
  /\ pc = [c \in Clients |-> "start"]
  /\ proc = 0
  /\ requestCount = RequestCount
  /\ procID = [c \in Clients |-> 0]
  /\ req = [c \in Clients |-> NoReq]
  /\ isUnknown = [c \in Clients |-> FALSE]
  /\ tpc = [c \in Clients |-> IF Throttle THEN "sleep" ELSE "exited"]
  /\ tokenClosed = [c \in Clients |-> FALSE]
  /\ ended = {}
  /\ precedes = {}

(* The same counters and goroutines, made anew for a later round. *)
RoundBegin ==
  /\ pc' = [c \in Clients |-> "start"]
  /\ proc' = 0
  /\ requestCount' = RequestCount
  /\ procID' = [c \in Clients |-> 0]
  /\ req' = [c \in Clients |-> NoReq]
  /\ isUnknown' = [c \in Clients |-> FALSE]
  /\ tpc' = [c \in Clients |-> IF Throttle THEN "sleep" ELSE "exited"]
  /\ tokenClosed' = [c \in Clients |-> FALSE]
  /\ ended' = {}
  /\ precedes' = {}

Init ==
  /\ RoundInit
  /\ ctxDone = FALSE
  /\ fatal = FALSE
  /\ file = << DumpRec >>
  /\ isOpen = TRUE

At(c, l) == ~ fatal /\ pc[c] = l
Goto(c, l) == pc' = [pc EXCEPT ![c] = l]
-----------------------------------------------------------------------------
(* procID := atomic.AddInt64(proc, 1) *)
Start(c) ==
  /\ At(c, "start")
  /\ proc' = proc + 1
  /\ procID' = [procID EXCEPT ![c] = proc + 1]
  /\ Goto(c, "head")
  /\ UNCHANGED <<recorderVars, requestCount, req, isUnknown, tickerVars,
                 ctxDone, fatal, ghostVars>>

(* for atomic.AddInt64(requestCount, -1) >= 0: the draw is made even when  *)
(* the budget is spent, and the loop then ends.                            *)
Draw(c) ==
  /\ At(c, "head")
  /\ requestCount' = requestCount - 1
  /\ req' = [req EXCEPT ![c] = requestCount - 1]
  /\ Goto(c, IF requestCount - 1 < 0 THEN "done"
             ELSE IF Throttle THEN "token" ELSE "request")
  /\ UNCHANGED <<recorderVars, proc, procID, isUnknown, tickerVars,
                 ctxDone, fatal, ghostVars>>

(* Mutant of Token: the loop receives again when the channel is closed. *)
TokenAgain(c) ==
  /\ At(c, "token")
  /\ \/ /\ tpc[c] = "send"
        /\ tpc' = [tpc EXCEPT ![c] = "select"]
        /\ Goto(c, "request")
     \/ tokenClosed[c] /\ UNCHANGED <<pc, tpc>>
  /\ UNCHANGED <<recorderVars, proc, requestCount, procID, req, isUnknown,
                 tokenClosed, ctxDone, fatal, ghostVars>>

(* _, ok := <-token: a rendezvous with the ticker, or the channel is       *)
(* closed and the loop returns, its draw unused.                           *)
Token(c) ==
  /\ At(c, "token")
  /\ \/ /\ tpc[c] = "send"
        /\ tpc' = [tpc EXCEPT ![c] = "select"]
        /\ Goto(c, "request")
     \/ /\ tokenClosed[c]
        /\ Goto(c, "done")
        /\ UNCHANGED tpc
  /\ UNCHANGED <<recorderVars, proc, requestCount, procID, req, isUnknown,
                 tokenClosed, ctxDone, fatal, ghostVars>>

(* NextRequest and RecordRequest; a record that fails ends the process. *)
Request(c) ==
  /\ At(c, "request")
  /\ \/ /\ RecordRequest(procID[c], req[c])
        /\ Goto(c, "call")
        /\ UNCHANGED fatal
     \/ fatal' = TRUE /\ UNCHANGED <<recorderVars, pc>>
  /\ UNCHANGED <<proc, requestCount, procID, req, isUnknown, tickerVars,
                 ctxDone, ghostVars>>

(* Mutant of InvokeBegin: the loop does not wait for Invoke to return. *)
InvokeAsync(c) ==
  /\ At(c, "call")
  /\ precedes' = precedes \cup (ended \X {req[c]})
  /\ Goto(c, "response")
  /\ UNCHANGED <<recorderVars, proc, requestCount, procID, req, isUnknown,
                 tickerVars, ctxDone, fatal, ended>>

(* client.Invoke starts ... *)
InvokeBegin(c) ==
  /\ At(c, "call")
  /\ precedes' = precedes \cup (ended \X {req[c]})
  /\ Goto(c, "wait")
  /\ UNCHANGED <<recorderVars, proc, requestCount, procID, req, isUnknown,
                 tickerVars, ctxDone, fatal, ended>>

Outcomes == IF MayBeUnknown THEN BOOLEAN ELSE {FALSE}

(* ... and returns a response, which says whether it IsUnknown; some types *)
(* of response (list-append, rw-register, tpcc, vbank) never are.          *)
InvokeEnd(c) ==
  /\ At(c, "wait")
  /\ ended' = ended \cup {req[c]}
  /\ \E u \in Outcomes : isUnknown' = [isUnknown EXCEPT ![c] = u]
  /\ Goto(c, "response")
  /\ UNCHANGED <<recorderVars, proc, requestCount, procID, req, tickerVars,
                 ctxDone, fatal, precedes>>

(* Mutant of Response: a loop whose context is done returns at once. *)
ResponseUnlessDone(c) ==
  /\ At(c, "response")
  /\ \/ /\ ~ ctxDone
        /\ RecordResponse(procID[c], req[c], isUnknown[c])
        /\ Goto(c, IF isUnknown[c] THEN "renew" ELSE "poll")
     \/ ctxDone /\ Goto(c, "done") /\ UNCHANGED recorderVars
  /\ UNCHANGED <<proc, requestCount, procID, req, isUnknown, tickerVars,
                 ctxDone, fatal, ghostVars>>

(* RecordResponse; a record that fails ends the process. *)
Response(c) ==
  /\ At(c, "response")
  /\ \/ /\ RecordResponse(procID[c], req[c], isUnknown[c])
        /\ Goto(c, IF isUnknown[c] THEN "renew" ELSE "poll")
        /\ UNCHANGED fatal
     \/ fatal' = TRUE /\ UNCHANGED <<recorderVars, pc>>
  /\ UNCHANGED <<proc, requestCount, procID, req, isUnknown, tickerVars,
                 ctxDone, ghostVars>>

(* Mutant of Renew: the process id is kept. *)
RenewSkipped(c) ==
  /\ At(c, "renew")
  /\ Goto(c, "poll")
  /\ UNCHANGED <<recorderVars, proc, requestCount, procID, req, isUnknown,
                 tickerVars, ctxDone, fatal, ghostVars>>

(* "If Unknown, we need to use another process ID." *)
Renew(c) ==
  /\ At(c, "renew")
  /\ proc' = proc + 1
  /\ procID' = [procID EXCEPT ![c] = proc + 1]
  /\ Goto(c, "poll")
  /\ UNCHANGED <<recorderVars, requestCount, req, isUnknown, tickerVars,
                 ctxDone, fatal, ghostVars>>

(* select { case <-ctx.Done(): return; default: } *)
Poll(c) ==
  /\ At(c, "poll")
  /\ Goto(c, IF ctxDone THEN "done" ELSE "head")
  /\ UNCHANGED <<recorderVars, proc, requestCount, procID, req, isUnknown,
                 tickerVars, ctxDone, fatal, ghostVars>>
-----------------------------------------------------------------------------
(* The ticker goroutine sleeps once without looking at its context, then   *)
(* selects between ctx.Done() and the ticker; when both are ready either   *)
(* case may be taken.  A send has no alternative and blocks until the loop *)
(* receives (Token).                                                       *)
TickerWake(c) ==
  /\ ~ fatal
  /\ tpc[c] = "sleep"
  /\ tpc' = [tpc EXCEPT ![c] = "select"]
  /\ UNCHANGED <<recorderVars, loopVars, tokenClosed, ctxDone, fatal, ghostVars>>

TickerTick(c) ==
  /\ ~ fatal
  /\ tpc[c] = "select"
  /\ tpc' = [tpc EXCEPT ![c] = "send"]
  /\ UNCHANGED <<recorderVars, loopVars, tokenClosed, ctxDone, fatal, ghostVars>>

TickerDone(c) ==
  /\ ~ fatal
  /\ tpc[c] = "select"
  /\ ownCtxDone(c)
  /\ tpc' = [tpc EXCEPT ![c] = "exited"]
  /\ tokenClosed' = [tokenClosed EXCEPT ![c] = TRUE]
  /\ UNCHANGED <<recorderVars, loopVars, ctxDone, fatal, ghostVars>>

(* The round's context: its timeout expires or the controller is closed. *)
ContextDone ==
  /\ ~ fatal
  /\ ~ ctxDone
  /\ ctxDone' = TRUE
  /\ UNCHANGED <<recorderVars, loopVars, tickerVars, fatal, ghostVars>>

LoopStep(c) ==
  \/ Start(c) \/ Draw(c) \/ Token(c) \/ Request(c) \/ InvokeBegin(c)
  \/ InvokeEnd(c) \/ Response(c) \/ Renew(c) \/ Poll(c)

TickerStep(c) == TickerWake(c) \/ TickerTick(c) \/ TickerDone(c)

LoopsDone == \A c \in Clients : pc[c] = "done"

(* The round is over: the process died, or every loop has returned.  A     *)
(* ticker blocked in its send stays blocked.                               *)
Finished ==
  /\ fatal \/ (LoopsDone /\ \A c \in Clients : tpc[c] \in {"send", "exited"})
  /\ UNCHANGED vars

Next ==
  \/ \E c \in Clients : LoopStep(c) \/ TickerStep(c)
  \/ ContextDone
  \/ Finished

(* The Go scheduler runs every goroutine that can run, and Invoke returns, *)
(* as the clients' drivers time out.  Nothing is assumed of the context,   *)
(* nor of which ready case a select takes.                                 *)
Fairness ==
  /\ \A c \in Clients : WF_vars(LoopStep(c)) /\ WF_vars(TickerStep(c))

Spec == Init /\ [][Next]_vars /\ Fairness
-----------------------------------------------------------------------------
Labels == {"start", "head", "token", "request", "call", "wait", "response",
           "renew", "poll", "done"}

TypeOK ==
  /\ pc \in [Clients -> Labels]
  /\ proc \in Nat
  /\ requestCount \in Int
  /\ procID \in [Clients -> Nat] /\ \A c \in Clients : procID[c] <= proc
  /\ req \in [Clients -> Int]
  /\ isUnknown \in [Clients -> BOOLEAN]
  /\ tpc \in [Clients -> {"sleep", "select", "send", "exited"}]
  /\ tokenClosed \in [Clients -> BOOLEAN]
  /\ ctxDone \in BOOLEAN
  /\ fatal \in BOOLEAN
  /\ file \in Seq(Records)
  /\ isOpen \in BOOLEAN
  /\ ended \subseteq Int
  /\ precedes \subseteq Int \X Int

(* However the loops of one round interleave, every process in the history *)
(* file is sequential: CompleteOperations will find neither a call whose   *)
(* return is missing nor a return without its call, and the response it    *)
(* pairs with a call by process id is the response to that request.        *)
HistorySequential == SequentialProcesses(file)

(* The order the checkers read off the file is real: when the file has the *)
(* return of a before the call of b, Invoke(a) had returned before         *)
(* Invoke(b) began.  Otherwise a linearizable database would be blamed.    *)
RecordedOrderIsReal ==
  \A i, j \in 1 .. Len(file) :
    i < j /\ file[i].action = "return" /\ file[j].action = "call" =>
      \/ <<file[i].req, file[j].req>> \in precedes
      \/ \E c \in Clients : /\ pc[c] = "call" /\ req[c] = file[j].req
                            /\ file[i].req \in ended

(* The budget of the round is shared by atomic decrements: no request      *)
(* number is used twice, so at most RequestCount requests are sent.        *)
BudgetRespected ==
  /\ \A i \in 1 .. Len(file) :
       file[i].action = "call" => file[i].req \in 0 .. RequestCount - 1
  /\ \A i, j \in 1 .. Len(file) :
       file[i].action = "call" /\ file[j].action = "call" /\ i # j =>
         file[i].req # file[j].req

(* A request whose Invoke has started is never left without a record of    *)
(* its outcome by a loop that returned (the file then misleads nobody).    *)
OutcomesRecorded ==
  LoopsDone => \A i \in 1 .. Len(file) : file[i].action = "call" =>
     \E j \in i+1 .. Len(file) : file[j].action = "return" /\ file[j].req = file[i].req
=============================================================================
