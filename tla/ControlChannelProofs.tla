------------------------ MODULE ControlChannelProofs ------------------------
(***************************************************************************)
(* Proofs about ControlChannel, for any requests and prompts: its types,   *)
(* that a waiting request is always reachable, and that a prompt is        *)
(* answered at most once and never after readLoop has stopped waiting.     *)
(***************************************************************************)
EXTENDS ControlChannel, TLAPS

-----------------------------------------------------------------------------
(* Sequences                                                               *)

\* Appending one element to a sequence: its type, its length, its elements.
LEMMA AppendProperties ==
  ASSUME NEW S, NEW seq \in Seq(S), NEW x \in S
  PROVE  /\ Append(seq, x) \in Seq(S)
         /\ Len(Append(seq, x)) = Len(seq) + 1
         /\ \A i \in 1..Len(seq) + 1 :
              Append(seq, x)[i] = IF i = Len(seq) + 1 THEN x ELSE seq[i]
  OBVIOUS

\* Taking the first element of a non-empty sequence.
LEMMA TailProperties ==
  ASSUME NEW S, NEW seq \in Seq(S), seq # << >>
  PROVE  /\ Tail(seq) \in Seq(S)
         /\ Len(Tail(seq)) = Len(seq) - 1
         /\ \A i \in 1..Len(seq) - 1 : Tail(seq)[i] = seq[i + 1]
         /\ Head(seq) \in S /\ Head(seq) = seq[1] /\ 1 \in DOMAIN seq
  OBVIOUS

-----------------------------------------------------------------------------
(* Types                                                                   *)

\* The lines each pipe carries, and whose ids are in them.
ToSDKLine ==
  [kind : {"request", "cancel"}, id : Prompt] \cup [kind : {"response"}, id : Request]
ToCLILine ==
  [kind : {"request", "cancel"}, id : Request] \cup [kind : {"response"}, id : Prompt]

Types == TypeOK /\ toSDK \in Seq(ToSDKLine) /\ toCLI \in Seq(ToCLILine)

LEMMA InitTypes == Init => Types
  <1> SUFFICES ASSUME Init PROVE Types
    OBVIOUS
  <1>1. /\ cli \in {"up", "down"} /\ working \subseteq Request /\ pending \subseteq Request
        /\ inboundCancel \subseteq Prompt /\ cancelled \subseteq Prompt
        /\ rlPc \in {"scan", "reap", "fail", "done"} /\ withdrawn \subseteq Prompt
    BY DEF Init
  <1>2. stdinOpen \in BOOLEAN /\ ctxDone \in BOOLEAN
    BY DEF Init
  <1>3. /\ asked \in [Prompt -> {"no", "pending", "withdrawn", "answered"}]
        /\ call \in [Request -> {"new", "stored", "waiting", "giveup"} \cup Returned]
        /\ result \in [Request -> {"none", "answered", "ended"}]
    BY DEF Init
  <1>4. /\ handler \in [Prompt -> {"none", "started", "select", "respond", "done"}]
        /\ callback \in [Prompt -> {"none", "running", "returned"}]
        /\ answers \in [Prompt -> Nat]
    BY DEF Init
  <1>5. toSDK \in Seq(ToSDKLine) /\ toCLI \in Seq(ToCLILine)
    BY DEF Init
  <1> QED
    BY <1>1, <1>2, <1>3, <1>4, <1>5 DEF Types, TypeOK

\* What a write leaves in the pipe to the CLI.
LEMMA WriteTypes ==
  ASSUME toCLI \in Seq(ToCLILine), stdinOpen \in BOOLEAN, NEW line \in ToCLILine,
         Written(line) \/ WriteFailed
  PROVE  toCLI' \in Seq(ToCLILine) /\ stdinOpen' \in BOOLEAN
  <1>1. toCLI' \in Seq(ToCLILine)
    BY AppendProperties DEF Written, WriteFailed
  <1>2. stdinOpen' \in BOOLEAN
    BY DEF Written, WriteFailed
  <1> QED
    BY <1>1, <1>2

LEMMA CLITypes ==
  ASSUME Types, CLIStep
  PROVE  Types'
  <1>1. ASSUME NEW p \in Prompt, Ask(p) PROVE Types'
    <2>1. Line("request", p) \in ToSDKLine
      BY DEF Line, ToSDKLine
    <2>2. toSDK' \in Seq(ToSDKLine)
      BY <1>1, <2>1, AppendProperties DEF Ask, Types
    <2> QED
      BY <1>1, <2>2 DEF Ask, Types, TypeOK, callVars, handlerVars, sessionVars
  <1>2. ASSUME NEW p \in Prompt, Withdraw(p) PROVE Types'
    <2>1. Line("cancel", p) \in ToSDKLine
      BY DEF Line, ToSDKLine
    <2>2. toSDK' \in Seq(ToSDKLine)
      BY <1>2, <2>1, AppendProperties DEF Withdraw, Types
    <2> QED
      BY <1>2, <2>2 DEF Withdraw, Types, TypeOK, callVars, handlerVars, sessionVars
  <1>3. ASSUME NEW q \in Request, Answer(q) PROVE Types'
    <2>1. Line("response", q) \in ToSDKLine
      BY DEF Line, ToSDKLine
    <2>2. toSDK' \in Seq(ToSDKLine)
      BY <1>3, <2>1, AppendProperties DEF Answer, Types
    <2> QED
      BY <1>3, <2>2 DEF Answer, Types, TypeOK, callVars, handlerVars, sessionVars
  <1>4. ASSUME ReadStdin PROVE Types'
    <2>1. toCLI # << >> /\ toCLI' = Tail(toCLI)
      BY <1>4 DEF ReadStdin
    <2>2. Head(toCLI) \in ToCLILine /\ toCLI' \in Seq(ToCLILine)
      BY <2>1, TailProperties DEF Types
    <2>3. working' \subseteq Request
      BY <1>4, <2>2 DEF ReadStdin, ToCLILine, Types, TypeOK
    <2>4. asked' \in [Prompt -> {"no", "pending", "withdrawn", "answered"}]
      BY <1>4 DEF ReadStdin, Types, TypeOK
    <2> QED
      BY <1>4, <2>2, <2>3, <2>4 DEF ReadStdin, Types, TypeOK, callVars, handlerVars, sessionVars
  <1>5. ASSUME Exit PROVE Types'
    BY <1>5 DEF Exit, Types, TypeOK, callVars, handlerVars, sessionVars
  <1> QED
    BY <1>1, <1>2, <1>3, <1>4, <1>5 DEF CLIStep

LEMMA CallTypes ==
  ASSUME Types, NEW q \in Request, Store(q) \/ CallStep(q) \/ TimeOut(q)
  PROVE  Types'
  <1> USE DEF Return, Returned, cliVars, handlerVars, sessionVars
  <1>1. CASE Store(q)
    BY <1>1 DEF Store, Types, TypeOK
  <1>2. CASE WriteRequest(q)
    <2>1. Line("request", q) \in ToCLILine
      BY DEF Line, ToCLILine
    <2>2. Written(Line("request", q)) \/ WriteFailed
      BY <1>2 DEF WriteRequest
    <2>3. toCLI' \in Seq(ToCLILine) /\ stdinOpen' \in BOOLEAN
      BY <2>1, <2>2, WriteTypes DEF Types, TypeOK
    <2>4. /\ call' \in [Request -> {"new", "stored", "waiting", "giveup"} \cup Returned]
          /\ pending' \subseteq Request
      BY <1>2 DEF WriteRequest, Types, TypeOK
    <2> QED
      BY <1>2, <2>3, <2>4 DEF WriteRequest, Types, TypeOK
  <1>3. CASE ReceiveResult(q)
    BY <1>3 DEF ReceiveResult, Types, TypeOK
  <1>4. CASE ContextDone(q)
    BY <1>4 DEF ContextDone, Types, TypeOK
  <1>5. CASE TimeOut(q)
    BY <1>5 DEF TimeOut, Types, TypeOK
  <1>6. CASE CancelRequest(q)
    <2>1. Line("cancel", q) \in ToCLILine
      BY DEF Line, ToCLILine
    <2>2. Written(Line("cancel", q)) \/ WriteFailed
      BY <1>6 DEF CancelRequest
    <2>3. toCLI' \in Seq(ToCLILine) /\ stdinOpen' \in BOOLEAN
      BY <2>1, <2>2, WriteTypes DEF Types, TypeOK
    <2> QED
      BY <1>6, <2>3 DEF CancelRequest, Types, TypeOK
  <1> QED
    BY <1>1, <1>2, <1>3, <1>4, <1>5, <1>6 DEF CallStep

LEMMA HandlerTypes ==
  ASSUME Types, NEW p \in Prompt, HandlerStep(p) \/ CallbackReturns(p)
  PROVE  Types'
  <1> USE DEF HandlerReturns, cliVars, callVars, sessionVars
  <1>1. CASE RefuseBody(p)
    BY <1>1 DEF RefuseBody, Types, TypeOK
  <1>2. CASE Register(p)
    BY <1>2 DEF Register, Types, TypeOK
  <1>3. CASE SelectResult(p)
    BY <1>3 DEF SelectResult, Types, TypeOK
  <1>4. CASE SelectDone(p)
    BY <1>4 DEF SelectDone, Types, TypeOK
  <1>5. CASE Respond(p)
    <2>1. Line("response", p) \in ToCLILine
      BY DEF Line, ToCLILine
    <2>2. Written(Line("response", p)) \/ WriteFailed
      BY <1>5 DEF Respond
    <2>3. toCLI' \in Seq(ToCLILine) /\ stdinOpen' \in BOOLEAN
      BY <2>1, <2>2, WriteTypes DEF Types, TypeOK
    <2>4. answers' \in [Prompt -> Nat]
      BY <1>5 DEF Respond, Types, TypeOK
    <2> QED
      BY <1>5, <2>3, <2>4 DEF Respond, Types, TypeOK
  <1>6. CASE CallbackReturns(p)
    BY <1>6 DEF CallbackReturns, Types, TypeOK
  <1> QED
    BY <1>1, <1>2, <1>3, <1>4, <1>5, <1>6 DEF HandlerStep

LEMMA LoopTypes ==
  ASSUME Types, ReadLoop
  PROVE  Types'
  <1> USE DEF cliVars, callVars, handlerVars
  <1>1. ASSUME NEW kind, Reads(kind)
        PROVE  /\ toSDK' \in Seq(ToSDKLine)
               /\ Head(toSDK) \in ToSDKLine /\ Head(toSDK).kind = kind
    BY <1>1, TailProperties DEF Reads, Types
  <1>2. CASE ReadResponse
    <2>1. Head(toSDK).id \in Request /\ toSDK' \in Seq(ToSDKLine)
      BY <1>1, <1>2 DEF ReadResponse, ToSDKLine
    <2> QED
      BY <1>2, <2>1 DEF ReadResponse, Reads, sessionVars, Types, TypeOK
  <1>3. CASE ReadRequest
    <2>1. Head(toSDK).id \in Prompt /\ toSDK' \in Seq(ToSDKLine)
      BY <1>1, <1>3 DEF ReadRequest, ToSDKLine
    <2> QED
      BY <1>3, <2>1 DEF ReadRequest, Reads, sessionVars, Types, TypeOK
  <1>4. CASE ReadCancel
    <2>1. Head(toSDK).id \in Prompt /\ toSDK' \in Seq(ToSDKLine)
      BY <1>1, <1>4 DEF ReadCancel, ToSDKLine
    <2> QED
      BY <1>4, <2>1 DEF ReadCancel, Reads, Types, TypeOK
  <1>5. CASE WaitHandlers
    BY <1>5 DEF WaitHandlers, Types, TypeOK
  <1>6. CASE Reap
    BY <1>6 DEF Reap, Types, TypeOK
  <1>7. CASE FailPending
    BY <1>7 DEF FailPending, Types, TypeOK
  <1> QED
    BY <1>2, <1>3, <1>4, <1>5, <1>6, <1>7 DEF ReadLoop

LEMMA NextTypes ==
  ASSUME Types, [Next]_vars
  PROVE  Types'
  <1> USE DEF cliVars, callVars, handlerVars, sessionVars
  <1>1. CASE CloseStdin
    BY <1>1 DEF CloseStdin, Types, TypeOK
  <1>2. CASE Cancel
    BY <1>2 DEF Cancel, Types, TypeOK
  <1>3. CASE UNCHANGED vars
    BY <1>3 DEF vars, Types, TypeOK
  <1> QED
    BY <1>1, <1>2, <1>3, CLITypes, LoopTypes, CallTypes, HandlerTypes
    DEF Next, Terminated

\* The state of the control channel is well typed.
THEOREM ControlTypes == Spec => []TypeOK
  <1>1. Types => TypeOK
    BY DEF Types
  <1> QED
    BY <1>1, InitTypes, NextTypes, PTL DEF Spec

-----------------------------------------------------------------------------
(* A waiting request is reachable                                          *)

\* From its registration to its return, not only while it waits.
Reachable ==
  \A q \in Request :
    call[q] \in {"stored", "waiting", "giveup"} /\ rlPc # "done"
      => q \in pending \/ result[q] # "none"

LEMMA InitReachable == Init => Reachable
  BY DEF Init, Reachable

\* The call's own steps: it leaves pending only as it returns.
LEMMA CallReachable ==
  ASSUME Types, Reachable, NEW q \in Request, Store(q) \/ CallStep(q) \/ TimeOut(q)
  PROVE  Reachable'
  <1> USE DEF Return, Returned, Types, TypeOK, Reachable, sessionVars
  <1>1. CASE Store(q)
    BY <1>1 DEF Store
  <1>2. CASE WriteRequest(q)
    BY <1>2 DEF WriteRequest
  <1>3. CASE ReceiveResult(q)
    BY <1>3 DEF ReceiveResult
  <1>4. CASE ContextDone(q)
    BY <1>4 DEF ContextDone
  <1>5. CASE TimeOut(q)
    BY <1>5 DEF TimeOut
  <1>6. CASE CancelRequest(q)
    BY <1>6 DEF CancelRequest
  <1> QED
    BY <1>1, <1>2, <1>3, <1>4, <1>5, <1>6 DEF CallStep

\* readLoop's steps: what it takes from pending it gives a result.
LEMMA LoopReachable ==
  ASSUME Types, Reachable, ReadLoop
  PROVE  Reachable'
  <1> USE DEF Types, TypeOK, Reachable, callVars, sessionVars, Reads
  <1>1. CASE ReadResponse
    BY <1>1 DEF ReadResponse
  <1>2. CASE ReadRequest
    BY <1>2 DEF ReadRequest
  <1>3. CASE ReadCancel
    BY <1>3 DEF ReadCancel
  <1>4. CASE WaitHandlers
    BY <1>4 DEF WaitHandlers
  <1>5. CASE Reap
    BY <1>5 DEF Reap
  <1>6. CASE FailPending
    BY <1>6 DEF FailPending
  <1> QED
    BY <1>1, <1>2, <1>3, <1>4, <1>5, <1>6 DEF ReadLoop

LEMMA NextReachable ==
  ASSUME Types, Reachable, [Next]_vars
  PROVE  Reachable'
  <1> USE DEF Reachable, callVars, sessionVars
  <1>1. CASE CLIStep
    BY <1>1 DEF CLIStep, Ask, Withdraw, Answer, ReadStdin, Exit
  <1>2. ASSUME NEW p \in Prompt, HandlerStep(p) \/ CallbackReturns(p) PROVE Reachable'
    BY <1>2 DEF HandlerStep, RefuseBody, Register, SelectResult, SelectDone, Respond,
                CallbackReturns
  <1>3. CASE CloseStdin \/ Cancel
    BY <1>3 DEF CloseStdin, Cancel
  <1>4. CASE UNCHANGED vars
    BY <1>4 DEF vars
  <1> QED
    BY <1>1, <1>2, <1>3, <1>4, CallReachable, LoopReachable DEF Next, Terminated

\* No answer, late cancel or session end takes a waiter's registration without
\* leaving it a result (sendControlRequestRaw, handleControlResponse,
\* failPendingRequests).
THEOREM WaitersStayReachable == Spec => []WaiterIsReachable
  <1>1. Reachable => WaiterIsReachable
    BY DEF Reachable, WaiterIsReachable
  <1> QED
    BY <1>1, InitTypes, NextTypes, InitReachable, NextReachable, PTL DEF Spec

-----------------------------------------------------------------------------
(* A prompt is answered at most once                                       *)

\* Only a handler that is done has answered, and it answered once.
AnswersCounted ==
  \A p \in Prompt : answers[p] <= 1 /\ (handler[p] # "done" => answers[p] = 0)

\* Past controlWg.Wait no handler is left.
HandlersOver ==
  rlPc # "scan" => \A p \in Prompt : handler[p] \in {"none", "done"}

\* A prompt's request is in the pipe at most once, and before its handler; a
\* prompt that was not asked has no handler.
RequestOnce ==
  /\ \A i \in DOMAIN toSDK : toSDK[i].kind = "request" =>
       /\ handler[toSDK[i].id] = "none"
       /\ asked[toSDK[i].id] # "no"
       /\ \A j \in DOMAIN toSDK :
            toSDK[j].kind = "request" /\ toSDK[j].id = toSDK[i].id => j = i
  /\ \A p \in Prompt : asked[p] = "no" => handler[p] = "none"

PromptInv == Types /\ AnswersCounted /\ HandlersOver /\ RequestOnce

LEMMA InitPrompt == Init => PromptInv
  BY InitTypes DEF Init, PromptInv, AnswersCounted, HandlersOver, RequestOnce

\* A line that is no request, appended to the pipe, or any line taken from it.
LEMMA OtherLine ==
  ASSUME PromptInv, NEW line \in ToSDKLine, line.kind # "request",
         toSDK' = Append(toSDK, line), handler' = handler,
         \A p \in Prompt : asked'[p] = "no" <=> asked[p] = "no"
  PROVE  RequestOnce'
  <1>1. /\ toSDK \in Seq(ToSDKLine) /\ DOMAIN toSDK = 1..Len(toSDK)
        /\ DOMAIN toSDK' = 1..Len(toSDK) + 1
        /\ \A i \in 1..Len(toSDK) + 1 :
             toSDK'[i] = IF i = Len(toSDK) + 1 THEN line ELSE toSDK[i]
    BY AppendProperties DEF PromptInv, Types
  <1>2. \A i \in DOMAIN toSDK' :
          toSDK'[i].kind = "request" => i \in DOMAIN toSDK /\ toSDK'[i] = toSDK[i]
    BY <1>1
  <1>3. \A i \in DOMAIN toSDK : toSDK[i].kind = "request" => toSDK[i].id \in Prompt
    BY <1>1 DEF ToSDKLine
  <1> QED
    BY <1>2, <1>3 DEF RequestOnce, PromptInv

LEMMA CLIPrompt ==
  ASSUME PromptInv, CLIStep
  PROVE  RequestOnce'
  <1>1. ASSUME NEW p \in Prompt, Ask(p) PROVE RequestOnce'
    <2> DEFINE line == Line("request", p)
    <2>1. line \in ToSDKLine /\ line.kind = "request" /\ line.id = p
      BY DEF Line, ToSDKLine
    <2>2. /\ toSDK \in Seq(ToSDKLine) /\ DOMAIN toSDK = 1..Len(toSDK)
          /\ DOMAIN toSDK' = 1..Len(toSDK) + 1
          /\ \A i \in 1..Len(toSDK) + 1 :
               toSDK'[i] = IF i = Len(toSDK) + 1 THEN line ELSE toSDK[i]
      BY <1>1, <2>1, AppendProperties DEF Ask, PromptInv, Types
    <2> HIDE DEF line
    <2>3. /\ asked[p] = "no" /\ handler[p] = "none" /\ handler' = handler
          /\ asked' = [asked EXCEPT ![p] = "pending"]
      BY <1>1 DEF Ask, handlerVars, PromptInv, RequestOnce
    <2>4. \A i \in DOMAIN toSDK :
            toSDK[i].kind = "request" => toSDK[i].id # p /\ toSDK[i].id \in Prompt
      BY <2>2, <2>3 DEF PromptInv, RequestOnce, ToSDKLine
    <2>5. \A r \in Prompt : asked'[r] = IF r = p THEN "pending" ELSE asked[r]
      BY <2>3 DEF PromptInv, Types, TypeOK
    <2>6. \A r \in Prompt : asked'[r] = "no" => handler'[r] = "none"
      BY <2>3, <2>5 DEF PromptInv, RequestOnce
    <2>7. ASSUME NEW i \in DOMAIN toSDK', toSDK'[i].kind = "request"
          PROVE  /\ handler'[toSDK'[i].id] = "none" /\ asked'[toSDK'[i].id] # "no"
                 /\ \A j \in DOMAIN toSDK' :
                      toSDK'[j].kind = "request" /\ toSDK'[j].id = toSDK'[i].id => j = i
      <3>1. CASE i = Len(toSDK) + 1
        BY <3>1, <2>1, <2>2, <2>3, <2>4, <2>5
      <3>2. CASE i \in DOMAIN toSDK
        BY <3>2, <2>1, <2>2, <2>3, <2>4, <2>5, <2>7 DEF PromptInv, RequestOnce
      <3> QED
        BY <3>1, <3>2, <2>2
    <2> QED
      BY <2>6, <2>7 DEF RequestOnce
  <1>2. ASSUME NEW p \in Prompt, Withdraw(p) PROVE RequestOnce'
    <2>1. /\ Line("cancel", p) \in ToSDKLine /\ Line("cancel", p).kind # "request"
          /\ toSDK' = Append(toSDK, Line("cancel", p)) /\ handler' = handler
      BY <1>2 DEF Withdraw, Line, ToSDKLine, handlerVars
    <2>2. \A r \in Prompt : asked'[r] = "no" <=> asked[r] = "no"
      BY <1>2 DEF Withdraw, PromptInv, Types, TypeOK
    <2> QED
      BY <2>1, <2>2, OtherLine
  <1>3. ASSUME NEW q \in Request, Answer(q) PROVE RequestOnce'
    <2>1. /\ Line("response", q) \in ToSDKLine /\ Line("response", q).kind # "request"
          /\ toSDK' = Append(toSDK, Line("response", q)) /\ handler' = handler
          /\ asked' = asked
      BY <1>3 DEF Answer, Line, ToSDKLine, handlerVars
    <2> QED
      BY <2>1, OtherLine
  <1>4. ASSUME ReadStdin PROVE RequestOnce'
    <2>1. toSDK' = toSDK /\ handler' = handler
      BY <1>4 DEF ReadStdin, handlerVars
    <2>2. \A r \in Prompt : asked'[r] = "no" <=> asked[r] = "no"
      BY <1>4 DEF ReadStdin, PromptInv, Types, TypeOK
    <2>3. \A i \in DOMAIN toSDK : toSDK[i].kind = "request" => toSDK[i].id \in Prompt
      BY DEF PromptInv, Types, ToSDKLine
    <2> QED
      BY <2>1, <2>2, <2>3 DEF PromptInv, RequestOnce
  <1>5. ASSUME Exit PROVE RequestOnce'
    BY <1>5 DEF Exit, handlerVars, PromptInv, RequestOnce
  <1> QED
    BY <1>1, <1>2, <1>3, <1>4, <1>5 DEF CLIStep

\* A handler's step: only one that has started moves, and only its write counts.
LEMMA HandlerPrompt ==
  ASSUME PromptInv, NEW p \in Prompt, HandlerStep(p) \/ CallbackReturns(p)
  PROVE  AnswersCounted' /\ HandlersOver' /\ RequestOnce'
  <1>1. CASE CallbackReturns(p)
    BY <1>1 DEF CallbackReturns, cliVars, sessionVars, PromptInv, AnswersCounted,
                HandlersOver, RequestOnce
  <1>2. CASE HandlerStep(p)
    <2>1. /\ toSDK' = toSDK /\ asked' = asked /\ rlPc' = rlPc
          /\ handler[p] \in {"started", "select", "respond"}
      BY <1>2 DEF HandlerStep, RefuseBody, Register, SelectResult, SelectDone, Respond,
                  cliVars, sessionVars
    <2>2. \A r \in Prompt : r # p => handler'[r] = handler[r] /\ answers'[r] = answers[r]
      BY <1>2 DEF HandlerStep, RefuseBody, Register, SelectResult, SelectDone, Respond,
                  HandlerReturns, PromptInv, Types, TypeOK
    <2>3. answers'[p] <= 1 /\ (handler'[p] # "done" => answers'[p] = 0)
      <3>1. answers[p] = 0
        BY <2>1 DEF PromptInv, AnswersCounted
      <3>2. CASE Respond(p)
        BY <3>1, <3>2 DEF Respond, HandlerReturns, PromptInv, Types, TypeOK
      <3>3. CASE ~Respond(p)
        BY <1>2, <3>1, <3>3 DEF HandlerStep, RefuseBody, Register, SelectResult, SelectDone
      <3> QED
        BY <3>2, <3>3
    <2>4. AnswersCounted'
      BY <2>2, <2>3 DEF PromptInv, AnswersCounted
    <2>5. HandlersOver'
      BY <2>1 DEF PromptInv, HandlersOver
    <2>6. \A i \in DOMAIN toSDK : toSDK[i].kind = "request" => toSDK[i].id \in Prompt \ {p}
      BY <2>1 DEF PromptInv, RequestOnce, Types, ToSDKLine
    <2>7. RequestOnce'
      BY <2>1, <2>2, <2>6 DEF PromptInv, RequestOnce
    <2> QED
      BY <2>4, <2>5, <2>7
  <1> QED
    BY <1>1, <1>2

\* A line that readLoop takes from the pipe leaves the others as they were.
LEMMA TakeLine ==
  ASSUME PromptInv, toSDK # << >>, toSDK' = Tail(toSDK), asked' = asked,
         \A i \in DOMAIN toSDK : i # 1 /\ toSDK[i].kind = "request"
           => handler'[toSDK[i].id] = "none",
         \A p \in Prompt : asked[p] = "no" => handler'[p] = "none"
  PROVE  RequestOnce'
  <1>1. /\ DOMAIN toSDK = 1..Len(toSDK) /\ DOMAIN toSDK' = 1..Len(toSDK) - 1
        /\ \A i \in 1..Len(toSDK) - 1 : toSDK'[i] = toSDK[i + 1]
    BY TailProperties DEF PromptInv, Types
  <1>2. Len(toSDK) \in Nat
    BY DEF PromptInv, Types
  <1>3. ASSUME NEW i \in DOMAIN toSDK', toSDK'[i].kind = "request"
        PROVE  /\ handler'[toSDK'[i].id] = "none" /\ asked'[toSDK'[i].id] # "no"
               /\ \A j \in DOMAIN toSDK' :
                    toSDK'[j].kind = "request" /\ toSDK'[j].id = toSDK'[i].id => j = i
    <2>1. i + 1 \in DOMAIN toSDK /\ i + 1 # 1 /\ toSDK[i + 1] = toSDK'[i]
      BY <1>1, <1>2
    <2>2. handler'[toSDK'[i].id] = "none" /\ asked'[toSDK'[i].id] # "no"
      BY <1>3, <2>1 DEF PromptInv, RequestOnce
    <2>3. ASSUME NEW j \in DOMAIN toSDK', toSDK'[j].kind = "request",
                 toSDK'[j].id = toSDK'[i].id
          PROVE  j = i
      <3>1. j + 1 \in DOMAIN toSDK /\ toSDK[j + 1] = toSDK'[j]
        BY <1>1, <1>2
      <3>2. j + 1 = i + 1
        BY <1>3, <2>1, <2>3, <3>1 DEF PromptInv, RequestOnce
      <3> QED
        BY <3>2, <1>1, <1>2
    <2> QED
      BY <2>2, <2>3
  <1> QED
    BY <1>3 DEF RequestOnce

LEMMA LoopPrompt ==
  ASSUME PromptInv, ReadLoop
  PROVE  AnswersCounted' /\ HandlersOver' /\ RequestOnce'
  <1>1. CASE ReadResponse \/ ReadCancel
    <2>1. /\ toSDK # << >> /\ toSDK' = Tail(toSDK) /\ asked' = asked
          /\ handler' = handler /\ answers' = answers /\ rlPc' = rlPc
      BY <1>1 DEF ReadResponse, ReadCancel, Reads, cliVars, handlerVars, sessionVars
    <2>2. RequestOnce'
      BY <2>1, TakeLine DEF PromptInv, RequestOnce
    <2> QED
      BY <2>1, <2>2 DEF PromptInv, AnswersCounted, HandlersOver
  <1>2. CASE ReadRequest
    <2> DEFINE p == Head(toSDK).id
    <2>1. /\ rlPc = "scan" /\ toSDK # << >> /\ Head(toSDK).kind = "request"
          /\ toSDK' = Tail(toSDK) /\ handler' = [handler EXCEPT ![p] = "started"]
          /\ asked' = asked /\ answers' = answers /\ rlPc' = rlPc
      BY <1>2 DEF ReadRequest, Reads, cliVars, sessionVars
    <2>2. /\ 1 \in DOMAIN toSDK /\ Head(toSDK) = toSDK[1]
          /\ toSDK[1] \in ToSDKLine
      BY <2>1, TailProperties DEF PromptInv, Types
    <2>3. p \in Prompt /\ handler[p] = "none" /\ asked[p] # "no"
      BY <2>1, <2>2 DEF PromptInv, RequestOnce, ToSDKLine
    <2>4. \A i \in DOMAIN toSDK :
            i # 1 /\ toSDK[i].kind = "request" => toSDK[i].id # p /\ handler[toSDK[i].id] = "none"
      BY <2>1, <2>2 DEF PromptInv, RequestOnce
    <2>5. \A i \in DOMAIN toSDK : toSDK[i].kind = "request" => toSDK[i].id \in Prompt
      BY DEF PromptInv, Types, ToSDKLine
    <2> HIDE DEF p
    <2>6. \A r \in Prompt : handler'[r] = IF r = p THEN "started" ELSE handler[r]
      BY <2>1, <2>3 DEF PromptInv, Types, TypeOK
    <2>7. \A i \in DOMAIN toSDK :
            i # 1 /\ toSDK[i].kind = "request" => handler'[toSDK[i].id] = "none"
      BY <2>4, <2>5, <2>6
    <2>8. \A r \in Prompt : asked[r] = "no" => handler'[r] = "none"
      BY <2>3, <2>6 DEF PromptInv, RequestOnce
    <2>9. RequestOnce'
      BY <2>1, <2>7, <2>8, TakeLine
    <2>10. AnswersCounted'
      BY <2>1, <2>3, <2>6 DEF PromptInv, AnswersCounted
    <2> QED
      BY <2>1, <2>9, <2>10 DEF HandlersOver
  <1>3. CASE WaitHandlers \/ Reap \/ FailPending
    BY <1>3 DEF WaitHandlers, Reap, FailPending, cliVars, handlerVars, PromptInv,
                AnswersCounted, HandlersOver, RequestOnce
  <1> QED
    BY <1>1, <1>2, <1>3 DEF ReadLoop

LEMMA NextPrompt ==
  ASSUME PromptInv, [Next]_vars
  PROVE  PromptInv'
  <1>1. Types'
    BY NextTypes DEF PromptInv
  <1>2. CASE CLIStep
    <2>1. handler' = handler /\ answers' = answers /\ rlPc' = rlPc
      BY <1>2 DEF CLIStep, Ask, Withdraw, Answer, ReadStdin, Exit, handlerVars, sessionVars
    <2> QED
      BY <1>1, <1>2, <2>1, CLIPrompt DEF PromptInv, AnswersCounted, HandlersOver
  <1>3. CASE UNCHANGED <<toSDK, asked, handler, answers, rlPc>>
    BY <1>1, <1>3 DEF PromptInv, AnswersCounted, HandlersOver, RequestOnce
  <1>4. ASSUME NEW q \in Request, Store(q) \/ CallStep(q) \/ TimeOut(q)
        PROVE  UNCHANGED <<toSDK, asked, handler, answers, rlPc>>
    BY <1>4 DEF Store, CallStep, TimeOut, WriteRequest, ReceiveResult, ContextDone,
                CancelRequest, cliVars, handlerVars, sessionVars
  <1>5. CloseStdin \/ Cancel \/ UNCHANGED vars
          => UNCHANGED <<toSDK, asked, handler, answers, rlPc>>
    BY DEF CloseStdin, Cancel, vars, cliVars, handlerVars, sessionVars
  <1> QED
    BY <1>1, <1>2, <1>3, <1>4, <1>5, HandlerPrompt, LoopPrompt
    DEF Next, Terminated, PromptInv

\* Neither the callback's result, nor its withdrawal, nor the end of the session
\* makes a second answer, and none is written once readLoop has waited for the
\* handlers (handleControlRequest, readLoop's controlWg.Wait).
THEOREM PromptsAnsweredOnce == Spec => []AnsweredOnce
  <1>1. PromptInv => AnsweredOnce
    BY DEF PromptInv, AnswersCounted, HandlersOver, AnsweredOnce
  <1> QED
    BY <1>1, InitPrompt, NextPrompt, PTL DEF Spec
=============================================================================
