--------------------------- MODULE ControlChannel ---------------------------
(***************************************************************************)
(* The control protocol of a Session (src/session.go), in both directions. *)
(*                                                                         *)
(* Outbound, sendControlRequestRaw: a caller registers a channel under the *)
(* request's id, writes the request and waits for the answer, a timeout or *)
(* the end of the session.  Inbound, handleControlRequest: readLoop starts *)
(* a goroutine for a prompt of the CLI (can_use_tool, AskUserQuestion); it *)
(* registers a cancel function, runs the host's callback and answers,      *)
(* unless the CLI has withdrawn the prompt meanwhile.                      *)
(*                                                                         *)
(* readLoop serves both, and at the end of stdout waits for the handlers,  *)
(* reaps the process, and fails the requests that are still pending.       *)
(***************************************************************************)
EXTENDS Integers, Sequences, FiniteSets

CONSTANTS
  Request,    \* control requests of the SDK, one call each
  Prompt,     \* control requests of the CLI
  MayCancel,  \* whether the session's context may be cancelled
  Parks       \* whether a callback waits for a person who does not answer

ASSUME BooleanAssumption == MayCancel \in BOOLEAN /\ Parks \in BOOLEAN

VARIABLES
  \* the CLI (external)
  cli,        \* "up" or "down"
  working,    \* the SDK's requests it is working on
  asked,      \* asked[p]: "no", "pending", "withdrawn" or "answered"
  \* the pipes
  toCLI, toSDK, stdinOpen,
  \* callers
  call,       \* call[q]: where the call stands, and how it returned
  pending,    \* s.pending
  result,     \* result[q]: what is in its channel
  \* handlers
  handler, callback,
  inboundCancel,  \* s.inboundCancel: prompts whose context can be cancelled
  cancelled,      \* prompts whose context was cancelled by the CLI
  answers,        \* answers[p]: how many responses were written
  \* the session
  rlPc, ctxDone,
  withdrawn   \* prompts whose withdrawal readLoop has read

cliVars == <<cli, working, asked>>
callVars == <<call, pending, result>>
handlerVars == <<handler, callback, inboundCancel, cancelled, answers>>
sessionVars == <<rlPc, ctxDone, withdrawn>>
vars == <<cliVars, toCLI, toSDK, stdinOpen, callVars, handlerVars, sessionVars>>

Line(kind, id) == [kind |-> kind, id |-> id]

Returned == {"answered", "ended", "failed", "cancelled", "timeout"}

Init ==
  /\ cli = "up" /\ working = {} /\ asked = [p \in Prompt |-> "no"]
  /\ toCLI = << >> /\ toSDK = << >> /\ stdinOpen = TRUE
  /\ call = [q \in Request |-> "new"] /\ pending = {}
  /\ result = [q \in Request |-> "none"]
  /\ handler = [p \in Prompt |-> "none"] /\ callback = [p \in Prompt |-> "none"]
  /\ inboundCancel = {} /\ cancelled = {}
  /\ answers = [p \in Prompt |-> 0]
  /\ rlPc = "scan" /\ ctxDone = FALSE /\ withdrawn = {}

\* writeStdin succeeds.  What is written to a dead process that was not reaped
\* yet is lost in the pipe.
Written(line) ==
  /\ stdinOpen
  /\ toCLI' = IF cli = "up" THEN Append(toCLI, line) ELSE toCLI
  /\ UNCHANGED stdinOpen

\* writeStdin fails: the pipe is closed, broken, or the CLI does not read it
\* before the deadline.  No write is attempted after that.
WriteFailed ==
  /\ stdinOpen' = FALSE
  /\ UNCHANGED toCLI

-----------------------------------------------------------------------------
(* The CLI                                                                 *)

Ask(p) ==
  /\ cli = "up" /\ asked[p] = "no"
  /\ asked' = [asked EXCEPT ![p] = "pending"]
  /\ toSDK' = Append(toSDK, Line("request", p))
  /\ UNCHANGED <<cli, working, toCLI, stdinOpen, callVars, handlerVars, sessionVars>>

Withdraw(p) ==
  /\ cli = "up" /\ asked[p] = "pending"
  /\ asked' = [asked EXCEPT ![p] = "withdrawn"]
  /\ toSDK' = Append(toSDK, Line("cancel", p))
  /\ UNCHANGED <<cli, working, toCLI, stdinOpen, callVars, handlerVars, sessionVars>>

ReadStdin ==
  /\ cli = "up" /\ toCLI # << >>
  /\ LET line == Head(toCLI) IN
       /\ working' = CASE line.kind = "request" -> working \cup {line.id}
                       [] line.kind = "cancel" -> working \ {line.id}
                       [] OTHER -> working
       /\ asked' = IF line.kind = "response" /\ asked[line.id] = "pending"
                   THEN [asked EXCEPT ![line.id] = "answered"] ELSE asked
  /\ toCLI' = Tail(toCLI)
  /\ UNCHANGED <<cli, toSDK, stdinOpen, callVars, handlerVars, sessionVars>>

Answer(q) ==
  /\ cli = "up" /\ q \in working
  /\ working' = working \ {q}
  /\ toSDK' = Append(toSDK, Line("response", q))
  /\ UNCHANGED <<cli, asked, toCLI, stdinOpen, callVars, handlerVars, sessionVars>>

Exit ==
  /\ cli = "up"
  /\ cli' = "down" /\ working' = {} /\ toCLI' = << >>
  /\ UNCHANGED <<asked, toSDK, stdinOpen, callVars, handlerVars, sessionVars>>

CLIStep ==
  \/ \E p \in Prompt : Ask(p) \/ Withdraw(p)
  \/ \E q \in Request : Answer(q)
  \/ ReadStdin \/ Exit

-----------------------------------------------------------------------------
(* sendControlRequestRaw                                                   *)

\* The deferred delete runs however the call returns.
Return(q, how) ==
  /\ call' = [call EXCEPT ![q] = how]
  /\ pending' = pending \ {q}

Store(q) ==
  /\ call[q] = "new"
  /\ call' = [call EXCEPT ![q] = "stored"]
  /\ pending' = pending \cup {q}
  /\ UNCHANGED <<cliVars, toCLI, toSDK, stdinOpen, result, handlerVars, sessionVars>>

WriteRequest(q) ==
  /\ call[q] = "stored"
  /\ \/ Written(Line("request", q)) /\ call' = [call EXCEPT ![q] = "waiting"] /\ UNCHANGED pending
     \/ WriteFailed /\ Return(q, "failed")
  /\ UNCHANGED <<cliVars, toSDK, result, handlerVars, sessionVars>>

ReceiveResult(q) ==
  /\ call[q] = "waiting" /\ result[q] # "none"
  /\ Return(q, result[q])
  /\ result' = [result EXCEPT ![q] = "none"]
  /\ UNCHANGED <<cliVars, toCLI, toSDK, stdinOpen, handlerVars, sessionVars>>

\* Mutant of ContextDone: the result is read although there is none.
ContextDoneUnread(q) ==
  /\ call[q] = "waiting" /\ ctxDone
  /\ Return(q, result[q])
  /\ UNCHANGED <<cliVars, toCLI, toSDK, stdinOpen, result, handlerVars, sessionVars>>

ContextDone(q) ==
  /\ call[q] = "waiting" /\ ctxDone
  /\ Return(q, "cancelled")
  /\ UNCHANGED <<cliVars, toCLI, toSDK, stdinOpen, result, handlerVars, sessionVars>>

TimeOut(q) ==
  /\ call[q] = "waiting" /\ ~ctxDone
  /\ call' = [call EXCEPT ![q] = "giveup"]
  /\ UNCHANGED <<cliVars, toCLI, toSDK, stdinOpen, pending, result, handlerVars, sessionVars>>

\* cancelControlRequest: its own failure is not reported.
CancelRequest(q) ==
  /\ call[q] = "giveup"
  /\ Written(Line("cancel", q)) \/ WriteFailed
  /\ Return(q, "timeout")
  /\ UNCHANGED <<cliVars, toSDK, result, handlerVars, sessionVars>>

CallStep(q) ==
  \/ WriteRequest(q) \/ ReceiveResult(q) \/ ContextDone(q) \/ CancelRequest(q)

-----------------------------------------------------------------------------
(* handleControlRequest                                                    *)

\* The handler's deferred calls drop its cancel function.
HandlerReturns(p) ==
  /\ handler' = [handler EXCEPT ![p] = "done"]
  /\ inboundCancel' = inboundCancel \ {p}

\* Mutant of RefuseBody: the error is answered, and the handler goes on.
RefuseBodyGoesOn(p) ==
  /\ handler[p] = "started"
  /\ Written(Line("response", p)) /\ answers' = [answers EXCEPT ![p] = @ + 1]
  /\ UNCHANGED <<cliVars, toSDK, callVars, handler, callback, inboundCancel, cancelled,
                 sessionVars>>

\* A body that does not parse is answered at once.
RefuseBody(p) ==
  /\ handler[p] = "started"
  /\ handler' = [handler EXCEPT ![p] = "respond"]
  /\ UNCHANGED <<cliVars, toCLI, toSDK, stdinOpen, callVars, callback, inboundCancel,
                 cancelled, answers, sessionVars>>

\* The handler registers its cancel function; the callback runs, unless the
\* request asks for something no callback is registered for.
Register(p) ==
  /\ handler[p] = "started"
  /\ inboundCancel' = inboundCancel \cup {p}
  /\ \/ /\ handler' = [handler EXCEPT ![p] = "select"]
        /\ callback' = [callback EXCEPT ![p] = "running"]
     \/ /\ handler' = [handler EXCEPT ![p] = "respond"]
        /\ UNCHANGED callback
  /\ UNCHANGED <<cliVars, toCLI, toSDK, stdinOpen, callVars, cancelled, answers,
                 sessionVars>>

ContextErr(p) == p \in cancelled \/ ctxDone

\* The host's callback returns, or panics.  One that is parked on a person does
\* so only when its context ends.
CallbackReturns(p) ==
  /\ callback[p] = "running"
  /\ Parks => ContextErr(p)
  /\ callback' = [callback EXCEPT ![p] = "returned"]
  /\ UNCHANGED <<cliVars, toCLI, toSDK, stdinOpen, callVars, handler, inboundCancel,
                 cancelled, answers, sessionVars>>

\* Mutant of SelectResult: a callback that fails is not answered.
SelectResultSilent(p) ==
  /\ handler[p] = "select" /\ callback[p] = "returned"
  /\ HandlerReturns(p)
  /\ UNCHANGED <<cliVars, toCLI, toSDK, stdinOpen, callVars, callback, cancelled,
                 answers, sessionVars>>

\* The select: the callback's result, for a prompt that is not withdrawn, ...
SelectResult(p) ==
  /\ handler[p] = "select" /\ callback[p] = "returned"
  /\ IF ContextErr(p) /\ ~ctxDone
     THEN HandlerReturns(p)
     ELSE handler' = [handler EXCEPT ![p] = "respond"] /\ UNCHANGED inboundCancel
  /\ UNCHANGED <<cliVars, toCLI, toSDK, stdinOpen, callVars, callback, cancelled,
                 answers, sessionVars>>

\* ... or the end of its context, reported only if the session goes down.
SelectDone(p) ==
  /\ handler[p] = "select" /\ ContextErr(p)
  /\ IF ctxDone
     THEN handler' = [handler EXCEPT ![p] = "respond"] /\ UNCHANGED inboundCancel
     ELSE HandlerReturns(p)
  /\ UNCHANGED <<cliVars, toCLI, toSDK, stdinOpen, callVars, callback, cancelled,
                 answers, sessionVars>>

\* Mutant of Respond: a write that failed is tried again.
RespondAgain(p) ==
  /\ handler[p] = "respond"
  /\ \/ Written(Line("response", p)) /\ answers' = [answers EXCEPT ![p] = @ + 1]
        /\ HandlerReturns(p)
     \/ WriteFailed /\ UNCHANGED <<answers, handler, inboundCancel>>
  /\ UNCHANGED <<cliVars, toSDK, callVars, callback, cancelled, sessionVars>>

\* sendControlResponse; a response that cannot be written becomes an event.
Respond(p) ==
  /\ handler[p] = "respond"
  /\ \/ Written(Line("response", p)) /\ answers' = [answers EXCEPT ![p] = @ + 1]
     \/ WriteFailed /\ UNCHANGED answers
  /\ HandlerReturns(p)
  /\ UNCHANGED <<cliVars, toSDK, callVars, callback, cancelled, sessionVars>>

HandlerStep(p) ==
  \/ RefuseBody(p) \/ Register(p) \/ SelectResult(p) \/ SelectDone(p) \/ Respond(p)

-----------------------------------------------------------------------------
(* readLoop                                                                *)

Reads(kind) ==
  /\ rlPc = "scan" /\ toSDK # << >> /\ Head(toSDK).kind = kind
  /\ toSDK' = Tail(toSDK)

\* Mutant of ReadResponse: the entry is deleted, the waiter is not told.
ReadResponseUnsent ==
  /\ Reads("response")
  /\ pending' = pending \ {Head(toSDK).id}
  /\ UNCHANGED <<cliVars, toCLI, stdinOpen, call, result, handlerVars, sessionVars>>

\* handleControlResponse: an answer nobody waits for is dropped.
ReadResponse ==
  /\ Reads("response")
  /\ LET q == Head(toSDK).id IN
       /\ pending' = pending \ {q}
       /\ result' = IF q \in pending THEN [result EXCEPT ![q] = "answered"] ELSE result
  /\ UNCHANGED <<cliVars, toCLI, stdinOpen, call, handlerVars, sessionVars>>

ReadRequest ==
  /\ Reads("request")
  /\ handler' = [handler EXCEPT ![Head(toSDK).id] = "started"]
  /\ UNCHANGED <<cliVars, toCLI, stdinOpen, callVars, callback, inboundCancel, cancelled,
                 answers, sessionVars>>

ReadCancel ==
  /\ Reads("cancel")
  /\ LET p == Head(toSDK).id IN
       /\ withdrawn' = withdrawn \cup {p}
       /\ cancelled' = cancelled \cup ({p} \cap inboundCancel)
       /\ inboundCancel' = inboundCancel \ {p}
  /\ UNCHANGED <<cliVars, toCLI, stdinOpen, callVars, handler, callback, answers, rlPc,
                 ctxDone>>

\* The end of stdout: controlWg.Wait ...
WaitHandlers ==
  /\ rlPc = "scan" /\ toSDK = << >> /\ cli = "down"
  /\ \A p \in Prompt : handler[p] \in {"none", "done"}
  /\ rlPc' = "reap"
  /\ UNCHANGED <<cliVars, toCLI, toSDK, stdinOpen, callVars, handlerVars, ctxDone,
                 withdrawn>>

\* Mutant of Reap: the stdin pipe of the dead process stays open.
ReapLeavesStdin ==
  /\ rlPc = "reap"
  /\ rlPc' = "fail"
  /\ UNCHANGED <<cliVars, toCLI, toSDK, stdinOpen, callVars, handlerVars, ctxDone, withdrawn>>

\* ... proc.Wait, which closes the stdin pipe, ...
Reap ==
  /\ rlPc = "reap"
  /\ stdinOpen' = FALSE
  /\ rlPc' = "fail"
  /\ UNCHANGED <<cliVars, toCLI, toSDK, callVars, handlerVars, ctxDone, withdrawn>>

\* ... and failPendingRequests, before done is closed.
FailPending ==
  /\ rlPc = "fail"
  /\ result' = [q \in Request |->
                  IF q \in pending /\ result[q] = "none" THEN "ended" ELSE result[q]]
  /\ pending' = {}
  /\ rlPc' = "done"
  /\ UNCHANGED <<cliVars, toCLI, toSDK, stdinOpen, call, handlerVars, ctxDone, withdrawn>>

ReadLoop ==
  \/ ReadResponse \/ ReadRequest \/ ReadCancel \/ WaitHandlers \/ Reap \/ FailPending

-----------------------------------------------------------------------------
\* Close closes stdin, and cancels the context when the grace period is over;
\* the owner of the context may cancel it at any time.
CloseStdin ==
  /\ MayCancel /\ stdinOpen
  /\ stdinOpen' = FALSE
  /\ UNCHANGED <<cliVars, toCLI, toSDK, callVars, handlerVars, sessionVars>>

Cancel ==
  /\ MayCancel /\ ~ctxDone
  /\ ctxDone' = TRUE
  /\ UNCHANGED <<cliVars, toCLI, toSDK, stdinOpen, callVars, handlerVars, rlPc, withdrawn>>

Terminated ==
  /\ rlPc = "done" /\ \A q \in Request : call[q] \in Returned
  /\ UNCHANGED vars

Next ==
  \/ CLIStep \/ ReadLoop
  \/ \E q \in Request : Store(q) \/ CallStep(q) \/ TimeOut(q)
  \/ \E p \in Prompt : HandlerStep(p) \/ CallbackReturns(p)
  \/ CloseStdin \/ Cancel \/ Terminated

Spec == Init /\ [][Next]_vars

\* Every goroutine keeps running and callbacks return; the CLI reads its stdin,
\* answers what it works on and dies of a closed stdin or a cancelled context.
\* No fairness makes a timer fire.
FairSpec ==
  /\ Spec
  /\ WF_vars(ReadLoop) /\ WF_vars(ReadStdin)
  /\ WF_vars((ctxDone \/ ~stdinOpen) /\ Exit)
  /\ \A q \in Request : WF_vars(CallStep(q)) /\ WF_vars(Answer(q))
  /\ \A p \in Prompt : WF_vars(HandlerStep(p)) /\ WF_vars(CallbackReturns(p))

-----------------------------------------------------------------------------
(* Properties                                                              *)

TypeOK ==
  /\ cli \in {"up", "down"} /\ working \subseteq Request
  /\ asked \in [Prompt -> {"no", "pending", "withdrawn", "answered"}]
  /\ stdinOpen \in BOOLEAN /\ ctxDone \in BOOLEAN
  /\ call \in [Request -> {"new", "stored", "waiting", "giveup"} \cup Returned]
  /\ pending \subseteq Request /\ result \in [Request -> {"none", "answered", "ended"}]
  /\ handler \in [Prompt -> {"none", "started", "select", "respond", "done"}]
  /\ callback \in [Prompt -> {"none", "running", "returned"}]
  /\ inboundCancel \subseteq Prompt /\ cancelled \subseteq Prompt
  /\ answers \in [Prompt -> Nat]
  /\ rlPc \in {"scan", "reap", "fail", "done"} /\ withdrawn \subseteq Prompt

\* A request that still waits is either registered, so that an answer or the
\* end of the session finds it, or its result is already in its channel: no
\* answer, late cancel or session end takes a waiter's registration without
\* leaving it a result.
WaiterIsReachable ==
  \A q \in Request :
    call[q] = "waiting" /\ rlPc # "done" => q \in pending \/ result[q] # "none"

\* A prompt is answered at most once, whichever of its callback, its withdrawal
\* and the end of the session comes first, and by the time readLoop has waited
\* for the handlers no handler will write to stdin any more.
AnsweredOnce ==
  /\ \A p \in Prompt : answers[p] <= 1
  /\ rlPc # "scan" => \A p \in Prompt : handler[p] # "respond"

\* Every call returns without its timer, even one made while the session ends:
\* failPendingRequests exists "to prevent waiters from hanging until timeout"
\* (session.go:1470).
EveryCallReturns ==
  \A q \in Request : (call[q] = "stored") ~> (call[q] \in Returned)

\* A prompt the CLI still waits on gets its answer, unless the session goes down.
EveryPromptAnswered ==
  \A p \in Prompt :
    (asked[p] = "pending") ~> (asked[p] # "pending" \/ cli = "down" \/ ~stdinOpen)

\* When the CLI has exited the session ends.  (A callback that takes the context
\* of its request may park on a person: that context is "cancelled when the CLI
\* withdraws the prompt or the session ends", README.md:1444.)
SessionEnds == (cli = "down") ~> (rlPc = "done")

\* The callback's result is not sent for a prompt whose withdrawal was read
\* before the handler looked: "Re-check so a withdrawn request is never answered"
\* (session.go:1703).
WithdrawnNotAnswered ==
  [][\A p \in Prompt : handler[p] = "select" /\ handler'[p] = "respond" /\ ~ctxDone
       => p \notin withdrawn]_vars
=============================================================================
