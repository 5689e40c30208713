---------------------------- MODULE QuerySession ----------------------------
(***************************************************************************)
(* A Session between its callers and the CLI (src/session.go, with the     *)
(* router of src/router.go): which answer reaches which query.             *)
(*                                                                         *)
(* Four kinds of goroutine run here, one shared access per step:           *)
(*   - readLoop reads the CLI's lines, stamps each event with the active   *)
(*     query generation, tracks the session's state and enqueues the event;*)
(*   - the pump goroutine takes events from the pump channel and delivers  *)
(*     them, to Events() or, once routing is enabled, to the router;       *)
(*   - the tool-progress ticker enqueues synthetic events;                 *)
(*   - callers run QueryCtxMsg, QueryMsg and SendMsg, concurrently.        *)
(* Consumers wait on handles, detach them, drain orphans, read Events().   *)
(*                                                                         *)
(* An event is what the router carries; "of" is the set of queries that    *)
(* the CLI turn it comes from answers, which the SDK cannot see: the       *)
(* properties compare it with where the event went.                        *)
(*                                                                         *)
(* The turn accounting of readLoop (unread, turnEchoed) is not kept here:  *)
(* it decides only what InitEvent.Unsolicited says.                        *)
(***************************************************************************)
EXTENDS ClaudeCLI, FiniteSets

CONSTANTS
  Callers,           \* goroutines that call the session
  Ops,               \* what they call: "QueryCtx", "Query", "SendMessage"
  MaxCalls,          \* bound on the calls
  MaxTicks,          \* bound on the ticks of the tool-progress ticker
  MayCancel,         \* whether the session's context may be cancelled
  PumpCap,           \* capacity of the pump channel
  EventsCap,         \* capacity of Events()
  QueryMailboxCap, OrphanMailboxCap

ASSUME SessionAssumption ==
  /\ MaxCalls \in Nat /\ MaxCalls <= MaxGen /\ MaxTicks \in Nat
  /\ Ops \subseteq {"QueryCtx", "Query", "SendMessage"} /\ MayCancel \in BOOLEAN
  /\ {PumpCap, EventsCap, QueryMailboxCap, OrphanMailboxCap} \subseteq Nat \ {0}

VARIABLES
  \* the session
  state, activity, activeGen, genCounter, promptEchoed,
  ctxDone, stdinOpen, routed, enabling,
  \* the router
  handle, mailbox, active, orphans, shutdown, evicting,
  \* the pump
  pump, pumpClosed, pumpPc, pumpEv, events,
  \* readLoop and the ticker
  rlPc, rlOut, waited, ticker, tickPc, tickOut, ticks,
  \* the callers
  call, calls,
  \* what consumers hold
  given, answer, surfaced

routerState == <<handle, mailbox, active, orphans, shutdown, evicting>>
pumpState == <<pump, pumpClosed, pumpPc, pumpEv, events>>
loopState == <<rlPc, rlOut, waited>>
tickState == <<ticker, tickPc, tickOut, ticks>>
callState == <<call, calls>>
queryState == <<state, activity, activeGen, genCounter, promptEchoed>>
endState == <<ctxDone, stdinOpen>>
modeState == <<routed, enabling>>
userState == <<given, answer, surfaced>>

vars == <<cliVars, routerState, pumpState, loopState, tickState, callState,
          queryState, endState, modeState, userState>>

-----------------------------------------------------------------------------
Queries == 1..MaxGen

SessionEvent ==
  [kind : {"init", "tool", "result", "unsolicited", "fatal", "exit", "tick",
           "idle", "thinking", "awaiting", "barrier"},
   of : SUBSET Queries]

Router == INSTANCE EventRouter WITH Event <- SessionEvent

Ev(kind, of) == [kind |-> kind, of |-> of]
StampedAs(kind, of, gen) == [ev |-> Ev(kind, of), gen |-> gen]

\* QueryHandle.Wait returns at one of these.
Terminal == {"result", "unsolicited", "fatal", "exit"}

Waiting == [by |-> "waiting", of |-> {}]
NoCall == [pc |-> "idle", op |-> "none", gen |-> 0, out |-> << >>]

Init ==
  /\ CLIInit
  /\ Router!RouterInit
  /\ state = "idle" /\ activity = "idle"
  /\ activeGen = 0 /\ genCounter = 0 /\ promptEchoed = FALSE
  /\ ctxDone = FALSE /\ stdinOpen = TRUE
  /\ routed = FALSE /\ enabling = "never"
  /\ pump = << >> /\ pumpClosed = FALSE /\ pumpPc = "idle" /\ pumpEv = << >>
  /\ events = << >>
  /\ rlPc = "scan" /\ rlOut = << >> /\ waited = FALSE
  /\ ticker = FALSE /\ tickPc = "none" /\ tickOut = << >> /\ ticks = 0
  /\ call = [c \in Callers |-> NoCall] /\ calls = 0
  /\ given = {} /\ answer = [g \in Queries |-> Waiting] /\ surfaced = {}

-----------------------------------------------------------------------------
(* readLoop                                                                *)

Reads(kind) ==
  /\ rlPc = "scan" /\ stdout # << >> /\ Head(stdout).kind = kind
  /\ stdout' = Tail(stdout)
  /\ UNCHANGED <<stdin, turn, cli, noteTurns>>

\* activityTracker.observe and emitTransition: a transition goes before the
\* event that caused it, with its stamp.
WithTransition(next, sev, pc) ==
  /\ activity' = next
  /\ rlOut' = (IF activity = next THEN << >>
               ELSE <<[sev EXCEPT !.ev = Ev(next, sev.ev.of)]>>) \o <<sev>>
  /\ rlPc' = pc

\* notePromptEcho: a caller's message was read by the CLI.
ReadEcho ==
  /\ Reads("echo")
  /\ promptEchoed' = (promptEchoed \/ state = "running")
  /\ UNCHANGED <<routerState, pumpState, loopState, tickState, callState, state,
                 activity, activeGen, genCounter, endState, modeState, userState>>

\* The init line: the session is ready already, so its state does not change.
ReadInit ==
  /\ Reads("init")
  /\ rlOut' = <<StampedAs("init", {}, activeGen)>>
  /\ rlPc' = "push"
  /\ UNCHANGED <<routerState, pumpState, waited, tickState, callState, queryState,
                 endState, modeState, userState>>

\* An assistant message with a top-level tool_use.
ReadTool ==
  /\ Reads("tool")
  /\ WithTransition("awaiting", StampedAs("tool", Head(stdout).of, activeGen), "push")
  /\ UNCHANGED <<routerState, pumpState, waited, tickState, callState, state,
                 activeGen, genCounter, promptEchoed, endState, modeState, userState>>

\* observeUnsolicitedResult: a task-notification result that does not answer
\* the pending query.
Held(line) == line.note /\ ~(state = "running" /\ promptEchoed)

\* Mutant of StampHeld: it ends the generation, as the pending query's own
\* result would.
StampHeldEndsQuery ==
  /\ rlPc = "held"
  /\ rlOut' = [rlOut EXCEPT ![1].gen = activeGen]
  /\ activeGen' = 0
  /\ rlPc' = "push"
  /\ UNCHANGED <<cliVars, routerState, pumpState, waited, tickState, callState, state,
                 activity, genCounter, promptEchoed, endState, modeState, userState>>

\* Held: it is stamped with no generation and leaves the state alone.
ReadHeldResult ==
  /\ Reads("result") /\ Held(Head(stdout))
  /\ WithTransition(IF state = "running" THEN "thinking" ELSE "idle",
                    StampedAs("unsolicited", Head(stdout).of, 0), "held")
  /\ UNCHANGED <<routerState, pumpState, waited, tickState, callState, state,
                 activeGen, genCounter, promptEchoed, endState, modeState, userState>>

\* Its transition takes the generation that is active a moment later.
StampHeld ==
  /\ rlPc = "held"
  /\ rlOut' = [rlOut EXCEPT ![1].gen = IF Len(rlOut) = 2 THEN activeGen ELSE @]
  /\ rlPc' = "push"
  /\ UNCHANGED <<cliVars, routerState, pumpState, waited, tickState, callState,
                 queryState, endState, modeState, userState>>

\* Mutant of StampTerminal: the generation is loaded after it was cleared.
StampTerminalLate(kind, of) ==
  /\ rlOut' = <<StampedAs(kind, of, 0)>>
  /\ rlPc' = "clear"
  /\ UNCHANGED <<routerState, pumpState, tickState, callState, queryState,
                 modeState, userState>>

\* stamp, for a terminal event, in two steps: it loads the generation ...
StampTerminal(kind, of) ==
  /\ rlOut' = <<StampedAs(kind, of, activeGen)>>
  /\ rlPc' = "clear"
  /\ UNCHANGED <<routerState, pumpState, tickState, callState, queryState,
                 modeState, userState>>

ReadResult ==
  /\ Reads("result") /\ ~Held(Head(stdout))
  /\ StampTerminal("result", Head(stdout).of)
  /\ UNCHANGED <<waited, endState>>

ReadApiError ==
  /\ Reads("apierror")
  /\ StampTerminal("fatal", Head(stdout).of)
  /\ UNCHANGED <<waited, endState>>

\* ... and clears it.
ClearGen ==
  /\ rlPc = "clear"
  /\ activeGen' = 0
  /\ rlPc' = IF rlOut[1].ev.kind = "exit" THEN "exit" ELSE "track"
  /\ UNCHANGED <<cliVars, routerState, pumpState, rlOut, waited, tickState,
                 callState, state, activity, genCounter, promptEchoed, endState,
                 modeState, userState>>

\* trackState, after the stamp: from here the next query can be prepared.
TrackState ==
  /\ rlPc = "track"
  /\ state' = IF rlOut[1].ev.kind = "result" THEN "idle" ELSE "failed"
  /\ rlPc' = "observe"
  /\ UNCHANGED <<cliVars, routerState, pumpState, rlOut, waited, tickState,
                 callState, activity, activeGen, genCounter, promptEchoed, endState,
                 modeState, userState>>

\* activityTracker.observe of a terminal event.
ObserveTerminal ==
  /\ rlPc = "observe"
  /\ WithTransition("idle", rlOut[1], "push")
  /\ UNCHANGED <<cliVars, routerState, pumpState, waited, tickState, callState,
                 state, activeGen, genCounter, promptEchoed, endState, modeState,
                 userState>>

\* pumpSendRaw, and the ticker that follows the transition just enqueued.  A
\* cancelled context lets the event be dropped.
Push ==
  /\ rlPc = "push"
  /\ \/ Len(pump) < PumpCap /\ pump' = Append(pump, Head(rlOut))
     \/ ctxDone /\ UNCHANGED pump
  /\ ticker' = CASE Head(rlOut).ev.kind = "awaiting" -> TRUE
                 [] Head(rlOut).ev.kind \in {"idle", "thinking"} -> FALSE
                 [] OTHER -> ticker
  /\ rlOut' = Tail(rlOut)
  /\ rlPc' = IF Tail(rlOut) = << >> THEN "scan" ELSE "push"
  /\ UNCHANGED <<cliVars, routerState, pumpClosed, pumpPc, pumpEv, events, waited,
                 tickPc, tickOut, ticks, callState, queryState, endState, modeState,
                 userState>>

\* End of stdout: proc.Wait, which also closes the stdin pipe.  A process that
\* did not exit cleanly leaves a fatal error.
WaitProcess ==
  /\ rlPc = "scan" /\ stdout = << >> /\ cli # "up" /\ ~waited
  /\ waited' = TRUE
  /\ stdinOpen' = FALSE
  /\ IF cli = "crashed"
     THEN StampTerminal("fatal", {})
     ELSE UNCHANGED <<routerState, pumpState, rlPc, rlOut, tickState, callState,
                      queryState, modeState, userState>>
  /\ UNCHANGED <<cliVars, ctxDone>>

\* The deferred end of readLoop: the ticker and the pump are told to stop, ...
ClosePump ==
  /\ rlPc = "scan" /\ waited
  /\ ticker' = FALSE
  /\ pumpClosed' = TRUE
  /\ rlPc' = "join"
  /\ UNCHANGED <<cliVars, routerState, pump, pumpPc, pumpEv, events, rlOut, waited,
                 tickPc, tickOut, ticks, callState, queryState, endState, modeState,
                 userState>>

\* ... when the pump has stopped the exit event is stamped, ...
StampExit ==
  /\ rlPc = "join" /\ pumpPc = "done"
  /\ StampTerminal("exit", {})
  /\ UNCHANGED <<cliVars, waited, endState>>

\* ... delivered, unless Events() stays full past the grace period, ...
DeliverExit ==
  /\ rlPc = "exit"
  /\ IF routed
     THEN Router!RouteStamped(rlOut[1]) /\ UNCHANGED events
     ELSE /\ UNCHANGED routerState
          /\ events' = IF Len(events) < EventsCap
                       THEN Append(events, rlOut[1]) ELSE events
  /\ rlOut' = << >>
  /\ rlPc' = "shut"
  /\ UNCHANGED <<cliVars, pump, pumpClosed, pumpPc, pumpEv, waited, tickState,
                 callState, queryState, endState, modeState, userState>>

\* ... shutdownRouter asks whether routing is on ...
CheckRouted ==
  /\ rlPc = "shut"
  /\ rlPc' = IF routed THEN "shutdown" ELSE "finish"
  /\ UNCHANGED <<cliVars, routerState, pumpState, rlOut, waited, tickState,
                 callState, queryState, endState, modeState, userState>>

\* ... and closes the active handle, ...
Shutdown ==
  /\ rlPc = "shutdown"
  /\ Router!ShutdownRouter("ended")
  /\ rlPc' = "finish"
  /\ UNCHANGED <<cliVars, pumpState, rlOut, waited, tickState, callState,
                 queryState, endState, modeState, userState>>

\* ... and setDoneState ends the session.
Finish ==
  /\ rlPc = "finish"
  /\ state' = IF state = "failed" THEN "failed" ELSE "done"
  /\ rlPc' = "ended"
  /\ UNCHANGED <<cliVars, routerState, pumpState, rlOut, waited, tickState,
                 callState, activity, activeGen, genCounter, promptEchoed, endState,
                 modeState, userState>>

ReadLoop ==
  \/ ReadEcho \/ ReadInit \/ ReadTool \/ ReadHeldResult \/ StampHeld
  \/ ReadResult \/ ReadApiError \/ ClearGen \/ TrackState \/ ObserveTerminal \/ Push
  \/ WaitProcess \/ ClosePump \/ StampExit \/ DeliverExit \/ CheckRouted
  \/ Shutdown \/ Finish

-----------------------------------------------------------------------------
(* The pump goroutine                                                      *)

\* Mutant of PumpTake: events are stamped on delivery, not when they are enqueued.
PumpTakeStamps ==
  /\ pumpPc = "idle" /\ evicting = << >> /\ pump # << >>
  /\ pumpEv' = <<[Head(pump) EXCEPT !.gen = activeGen]>>
  /\ pump' = Tail(pump)
  /\ pumpPc' = "have"
  /\ UNCHANGED <<cliVars, routerState, pumpClosed, events, loopState, tickState,
                 callState, queryState, endState, modeState, userState>>

PumpTake ==
  /\ pumpPc = "idle" /\ evicting = << >> /\ pump # << >>
  /\ pumpEv' = <<Head(pump)>>
  /\ pump' = Tail(pump)
  /\ pumpPc' = "have"
  /\ UNCHANGED <<cliVars, routerState, pumpClosed, events, loopState, tickState,
                 callState, queryState, endState, modeState, userState>>

IsBarrier == pumpEv[1].ev.kind = "barrier"

\* Mutant of PumpRoute: a pump that blocks on Events() does not notice that
\* routing was enabled.
PumpRouteUnwoken ==
  /\ pumpPc = "have" /\ routed /\ ~IsBarrier
  /\ Router!RouteStamped(pumpEv[1])
  /\ pumpEv' = << >>
  /\ pumpPc' = "idle"
  /\ UNCHANGED <<cliVars, pump, pumpClosed, events, loopState, tickState, callState,
                 queryState, endState, modeState, userState>>

\* deliver looks at s.routed first: on, the event is routed; off, the pump
\* blocks on Events(), and on routing being enabled meanwhile.
PumpRoute ==
  /\ \/ pumpPc = "have" /\ routed /\ ~IsBarrier
     \/ pumpPc = "events" /\ routed
  /\ Router!RouteStamped(pumpEv[1])
  /\ pumpEv' = << >>
  /\ pumpPc' = "idle"
  /\ UNCHANGED <<cliVars, pump, pumpClosed, events, loopState, tickState, callState,
                 queryState, endState, modeState, userState>>

PumpUnrouted ==
  /\ pumpPc = "have" /\ ~routed
  /\ pumpPc' = "events"
  /\ UNCHANGED <<cliVars, routerState, pump, pumpClosed, pumpEv, events, loopState,
                 tickState, callState, queryState, endState, modeState, userState>>

PumpSend ==
  /\ pumpPc = "events"
  /\ \/ Len(events) < EventsCap /\ events' = Append(events, pumpEv[1])
     \/ ctxDone /\ UNCHANGED events
  /\ pumpEv' = << >>
  /\ pumpPc' = "idle"
  /\ UNCHANGED <<cliVars, routerState, pump, pumpClosed, loopState, tickState,
                 callState, queryState, endState, modeState, userState>>

\* The barrier starts flushLegacyBuffered, which moves what Events() still
\* holds to the orphans, one event at a time.
PumpBarrier ==
  /\ pumpPc = "have" /\ routed /\ IsBarrier
  /\ pumpEv' = << >>
  /\ pumpPc' = "flush"
  /\ UNCHANGED <<cliVars, routerState, pump, pumpClosed, events, loopState,
                 tickState, callState, queryState, endState, modeState, userState>>

PumpFlush ==
  /\ pumpPc = "flush" /\ events # << >>
  /\ Router!Flush(Head(events).ev)
  /\ events' = Tail(events)
  /\ UNCHANGED <<cliVars, pump, pumpClosed, pumpPc, pumpEv, loopState, tickState,
                 callState, queryState, endState, modeState, userState>>

PumpFlushed ==
  /\ pumpPc = "flush" /\ events = << >>
  /\ pumpPc' = "idle"
  /\ UNCHANGED <<cliVars, routerState, pump, pumpClosed, pumpEv, events, loopState,
                 tickState, callState, queryState, endState, modeState, userState>>

\* After pumpClosed the pump drains what is buffered and stops.
PumpStop ==
  /\ pumpPc = "idle" /\ evicting = << >> /\ pumpClosed /\ pump = << >>
  /\ pumpPc' = "done"
  /\ UNCHANGED <<cliVars, routerState, pump, pumpClosed, pumpEv, events, loopState,
                 tickState, callState, queryState, endState, modeState, userState>>

\* The second half of a delivery to a full mailbox.
Evict ==
  /\ Router!Evict
  /\ UNCHANGED <<cliVars, pumpState, loopState, tickState, callState, queryState,
                 endState, modeState, userState>>

Pump ==
  \/ PumpTake \/ PumpRoute \/ PumpUnrouted \/ PumpSend \/ PumpBarrier
  \/ PumpFlush \/ PumpFlushed \/ PumpStop \/ Evict

-----------------------------------------------------------------------------
(* sendEvent, for the ticker and the callers                               *)

\* Mutant of SendSelect: the pump channel has no capacity.
SendUnbounded(sev) == pump' = Append(pump, sev)

\* The select of sendEvent on a stamped event: enqueue it, or drop it because
\* the pump is closed or the context cancelled.
SendSelect(sev) ==
  \/ Len(pump) < PumpCap /\ pump' = Append(pump, sev)
  \/ (pumpClosed \/ ctxDone) /\ UNCHANGED pump

\* A tick finds a pending tool_use (emitToolProgress, under stateMu), ...
TickRead ==
  /\ ticker /\ tickPc = "none" /\ activity = "awaiting" /\ ticks < MaxTicks
  /\ ticks' = ticks + 1
  /\ tickPc' = "read"
  /\ UNCHANGED <<cliVars, routerState, pumpState, loopState, ticker, tickOut,
                 callState, queryState, endState, modeState, userState>>

\* ... sendEvent gives up on a closed pump or stamps the event, ...
TickStamp ==
  /\ tickPc = "read"
  /\ IF pumpClosed
     THEN tickPc' = "none" /\ UNCHANGED tickOut
     ELSE tickPc' = "send" /\ tickOut' = <<StampedAs("tick", {}, activeGen)>>
  /\ UNCHANGED <<cliVars, routerState, pumpState, loopState, ticker, ticks,
                 callState, queryState, endState, modeState, userState>>

\* ... and enqueues it, perhaps long after the ticker was stopped.
TickSend ==
  /\ tickPc = "send"
  /\ SendSelect(tickOut[1])
  /\ tickOut' = << >>
  /\ tickPc' = "none"
  /\ UNCHANGED <<cliVars, routerState, pumpClosed, pumpPc, pumpEv, events, loopState,
                 ticker, ticks, callState, queryState, endState, modeState, userState>>

Ticker == TickRead \/ TickStamp \/ TickSend

-----------------------------------------------------------------------------
(* Callers                                                                 *)

Goto(c, pc) == call' = [call EXCEPT ![c].pc = pc]
Return(c) == call' = [call EXCEPT ![c] = NoCall]
IsQueryCtx(c) == call[c].op = "QueryCtx"

StartCall(c) ==
  /\ call[c].pc = "idle" /\ calls < MaxCalls
  /\ calls' = calls + 1
  /\ \E op \in Ops :
       call' = [call EXCEPT ![c] = [NoCall EXCEPT !.op = op, !.pc =
                  CASE op = "QueryCtx" -> "enable"
                    [] op = "Query" -> "prepare"
                    [] op = "SendMessage" -> "validate"]]
  /\ UNCHANGED <<cliVars, routerState, pumpState, loopState, tickState, queryState,
                 endState, modeState, userState>>

\* EnableRouting: the first caller switches the mode and sends the barrier,
\* the others wait for it (sync.Once).
EnableRouting(c) ==
  /\ call[c].pc = "enable"
  /\ \/ /\ enabling = "never"
        /\ enabling' = "now" /\ routed' = TRUE
        /\ call' = [call EXCEPT ![c].pc = "stamp",
                                ![c].out = <<StampedAs("barrier", {}, 0)>>]
     \/ /\ enabling = "done"
        /\ Goto(c, "prepare")
        /\ UNCHANGED modeState
  /\ UNCHANGED <<cliVars, routerState, pumpState, loopState, tickState, calls,
                 queryState, endState, userState>>

\* After sendEvent returns, whether or not it sent.
AfterSend(c, pc) ==
  IF call[c].out[1].ev.kind = "barrier"
  THEN /\ call' = [call EXCEPT ![c].pc = "prepare", ![c].out = << >>]
       /\ enabling' = "done"
  ELSE /\ call' = [call EXCEPT ![c].pc = pc, ![c].out = << >>]
       /\ UNCHANGED enabling

\* sendEvent: give up on a closed pump, or stamp ...
CallStamp(c) ==
  /\ call[c].pc = "stamp"
  /\ IF pumpClosed
     THEN AfterSend(c, "write")
     ELSE /\ call' = [call EXCEPT ![c].pc = "send", ![c].out[1].gen = activeGen]
          /\ UNCHANGED enabling
  /\ UNCHANGED <<cliVars, routerState, pumpState, loopState, tickState, calls,
                 queryState, endState, routed, userState>>

\* ... and enqueue.
CallSend(c) ==
  /\ call[c].pc = "send"
  /\ SendSelect(call[c].out[1])
  /\ AfterSend(c, "write")
  /\ UNCHANGED <<cliVars, routerState, pumpClosed, pumpPc, pumpEv, events, loopState,
                 tickState, calls, queryState, endState, routed, userState>>

\* prepareQuery
PrepareQuery(c) ==
  /\ call[c].pc = "prepare"
  /\ IF state = "idle"
     THEN /\ state' = "running"
          /\ promptEchoed' = FALSE
          /\ Goto(c, IF IsQueryCtx(c) THEN "count" ELSE "mark")
     ELSE Return(c) /\ UNCHANGED <<state, promptEchoed>>
  /\ UNCHANGED <<cliVars, routerState, pumpState, loopState, tickState, calls,
                 activity, activeGen, genCounter, endState, modeState, userState>>

\* validateSendable
ValidateSendable(c) ==
  /\ call[c].pc = "validate"
  /\ IF state \in {"idle", "running"} THEN Goto(c, "mark") ELSE Return(c)
  /\ UNCHANGED <<cliVars, routerState, pumpState, loopState, tickState, calls,
                 queryState, endState, modeState, userState>>

\* armQuery: count the generation, ...
CountGen(c) ==
  /\ call[c].pc = "count"
  /\ genCounter' = genCounter + 1
  /\ call' = [call EXCEPT ![c].pc = "arm", ![c].gen = genCounter + 1]
  /\ UNCHANGED <<cliVars, routerState, pumpState, loopState, tickState, calls, state,
                 activity, activeGen, promptEchoed, endState, modeState, userState>>

\* ... register the handle, which is returned closed if the session ended, ...
ArmHandle(c) ==
  /\ call[c].pc = "arm"
  /\ Router!Arm(call[c].gen)
  /\ Goto(c, IF shutdown THEN "mark" ELSE "store")
  /\ UNCHANGED <<cliVars, pumpState, loopState, tickState, calls, queryState,
                 endState, modeState, userState>>

\* ... and make the generation the active one.
StoreGen(c) ==
  /\ call[c].pc = "store"
  /\ activeGen' = call[c].gen
  /\ Goto(c, "mark")
  /\ UNCHANGED <<cliVars, routerState, pumpState, loopState, tickState, calls, state,
                 activity, genCounter, promptEchoed, endState, modeState, userState>>

\* emitQueryActivity: markQuery, and sendEvent if it made a transition.
MarkQuery(c) ==
  /\ call[c].pc = "mark"
  /\ IF activity = "idle"
     THEN /\ activity' = "thinking"
          /\ call' = [call EXCEPT ![c].pc = "stamp",
                                  ![c].out = <<StampedAs("thinking", {}, 0)>>]
     ELSE Goto(c, "write") /\ UNCHANGED activity
  /\ UNCHANGED <<cliVars, routerState, pumpState, loopState, tickState, calls, state,
                 activeGen, genCounter, promptEchoed, endState, modeState, userState>>

Receives(m) == stdin' = IF cli = "up" THEN Append(stdin, m) ELSE stdin

\* sendUserMessage succeeds, and the call returns.  A message written to a
\* process that has ended but was not waited for is lost in the pipe.
WriteOk(c) ==
  /\ call[c].pc = "write" /\ stdinOpen
  /\ \E slash \in Slash : Receives([q |-> call[c].gen, slash |-> slash])
  /\ Return(c)
  /\ given' = IF IsQueryCtx(c) THEN given \cup {call[c].gen} ELSE given
  /\ UNCHANGED <<stdout, turn, cli, noteTurns, routerState, pumpState, loopState,
                 tickState, calls, queryState, endState, modeState, answer, surfaced>>

\* sendUserMessage fails, on a closed pipe or past its deadline.  The write it
\* gives up on may still have reached the CLI.
WriteFails(c) ==
  /\ call[c].pc = "write"
  /\ \/ UNCHANGED stdin
     \/ stdinOpen /\ cli = "up" /\ Receives([q |-> call[c].gen, slash |-> FALSE])
  /\ stdinOpen' = FALSE
  /\ IF IsQueryCtx(c) THEN Goto(c, "fail") ELSE Return(c)
  /\ UNCHANGED <<stdout, turn, cli, noteTurns, routerState, pumpState, loopState,
                 tickState, calls, queryState, ctxDone, modeState, userState>>

\* QueryCtxMsg after a failed write: failQuery, in its two parts, ...
FailGen(c) ==
  /\ call[c].pc = "fail"
  /\ activeGen' = 0
  /\ Goto(c, "failState")
  /\ UNCHANGED <<cliVars, routerState, pumpState, loopState, tickState, calls, state,
                 activity, genCounter, promptEchoed, endState, modeState, userState>>

FailState(c) ==
  /\ call[c].pc = "failState"
  /\ state' = "failed"
  /\ Goto(c, "detach")
  /\ UNCHANGED <<cliVars, routerState, pumpState, loopState, tickState, calls,
                 activity, activeGen, genCounter, promptEchoed, endState, modeState,
                 userState>>

\* Mutant of FailDetach: the handle is closed, but not taken from the router.
FailCloses(c) ==
  /\ call[c].pc = "detach"
  /\ Router!Unlocked
  /\ handle' = [handle EXCEPT ![call[c].gen] = "failed"]
  /\ Return(c)
  /\ UNCHANGED <<cliVars, mailbox, active, orphans, shutdown, evicting, pumpState,
                 loopState, tickState, calls, queryState, endState, modeState, userState>>

\* ... and the handle, which the caller never gets, is closed.
FailDetach(c) ==
  /\ call[c].pc = "detach"
  /\ Router!Detach(call[c].gen, "failed")
  /\ Return(c)
  /\ UNCHANGED <<cliVars, pumpState, loopState, tickState, calls, queryState,
                 endState, modeState, userState>>

CallStep(c) ==
  \/ EnableRouting(c) \/ CallStamp(c) \/ CallSend(c) \/ PrepareQuery(c)
  \/ ValidateSendable(c) \/ CountGen(c) \/ ArmHandle(c) \/ StoreGen(c)
  \/ MarkQuery(c) \/ WriteOk(c) \/ WriteFails(c) \/ FailGen(c) \/ FailState(c)
  \/ FailDetach(c)

-----------------------------------------------------------------------------
(* Consumers, and the end of the session                                   *)

\* QueryHandle.Wait takes an event, and returns if it is a terminal one.
WaitReceive(g) ==
  /\ g \in given /\ answer[g] = Waiting
  /\ Router!Receive(g)
  /\ LET ev == Head(mailbox[g]).ev IN
       answer' = IF ev.kind \in Terminal
                 THEN [answer EXCEPT ![g] = [by |-> ev.kind, of |-> ev.of]]
                 ELSE answer
  /\ UNCHANGED <<cliVars, pumpState, loopState, tickState, callState, queryState,
                 endState, modeState, given, surfaced>>

\* QueryHandle.Wait on a closed and drained handle.
WaitClosed(g) ==
  /\ g \in given /\ answer[g] = Waiting
  /\ mailbox[g] = << >> /\ handle[g] # "open"
  /\ answer' = [answer EXCEPT ![g] = [by |-> "closed", of |-> {}]]
  /\ UNCHANGED <<cliVars, routerState, pumpState, loopState, tickState, callState,
                 queryState, endState, modeState, given, surfaced>>

\* Mutant of Abandon: the query's generation ends with its handle.
AbandonEndsGeneration(g) ==
  /\ g \in given /\ handle[g] = "open"
  /\ Router!Detach(g, "detached")
  /\ activeGen' = 0
  /\ UNCHANGED <<cliVars, pumpState, loopState, tickState, callState, state, activity,
                 genCounter, promptEchoed, endState, modeState, userState>>

\* QueryHandle.Detach: the caller abandons the query.
Abandon(g) ==
  /\ g \in given /\ handle[g] = "open"
  /\ Router!Detach(g, "detached")
  /\ UNCHANGED <<cliVars, pumpState, loopState, tickState, callState, queryState,
                 endState, modeState, userState>>

ResultsOf(seq) ==
  UNION {seq[i].ev.of : i \in {j \in DOMAIN seq : seq[j].ev.kind \in {"result", "unsolicited"}}}

DrainOrphans ==
  /\ Router!DrainOrphans
  /\ surfaced' = surfaced \cup ResultsOf(orphans)
  /\ UNCHANGED <<cliVars, pumpState, loopState, tickState, callState, queryState,
                 endState, modeState, given, answer>>

\* A reader of Events().
ReadEvents ==
  /\ events # << >>
  /\ events' = Tail(events)
  /\ surfaced' = surfaced \cup ResultsOf(<<Head(events)>>)
  /\ UNCHANGED <<cliVars, routerState, pump, pumpClosed, pumpPc, pumpEv, loopState,
                 tickState, callState, queryState, endState, modeState, given, answer>>

Consume ==
  \/ DrainOrphans \/ ReadEvents
  \/ \E g \in Queries : WaitReceive(g) \/ WaitClosed(g) \/ Abandon(g)

\* The session's context ends, by Close or by its owner: the CLI is killed.
Cancel ==
  /\ MayCancel /\ ~ctxDone
  /\ ctxDone' = TRUE
  /\ UNCHANGED <<cliVars, routerState, pumpState, loopState, tickState, callState,
                 queryState, stdinOpen, modeState, userState>>

CLIStep ==
  /\ CLINext
  /\ UNCHANGED <<routerState, pumpState, loopState, tickState, callState, queryState,
                 endState, modeState, userState>>

\* The session has ended and every call has returned.
Terminated ==
  /\ rlPc = "ended" /\ \A c \in Callers : call[c].pc = "idle"
  /\ UNCHANGED vars

Next ==
  \/ CLIStep \/ ReadLoop \/ Pump \/ Ticker
  \/ \E c \in Callers : StartCall(c) \/ CallStep(c)
  \/ Consume \/ Cancel \/ Terminated

Spec == Init /\ [][Next]_vars

\* Every goroutine keeps running; consumers of handles take what is there; the
\* CLI ends its turns and reads its stdin, and dies once it was cancelled or its
\* stdin was closed.
CLIFairness ==
  /\ WF_vars(StartTurn /\ CLIStep) /\ WF_vars(EndTurn /\ CLIStep)
  /\ WF_vars((ctxDone \/ ~stdinOpen) /\ Exit /\ CLIStep)

SDKFairness ==
  /\ WF_vars(ReadLoop) /\ WF_vars(Pump) /\ WF_vars(Ticker)
  /\ \A c \in Callers : WF_vars(CallStep(c))

WaitFairness ==
  \A g \in Queries : WF_vars(WaitReceive(g)) /\ WF_vars(WaitClosed(g))

\* Nobody promises to read a handle, Events() or the orphans, or that the CLI
\* goes on: EveryWaitReturns assumes it where it needs it.
UnreadSpec == Spec /\ SDKFairness

-----------------------------------------------------------------------------
(* Properties                                                              *)

TypeOK ==
  /\ Router!RouterTypeOK
  /\ stdin \in Seq(Message) /\ stdout \in Seq(Line)
  /\ cli \in {"up", "exited", "crashed"} /\ noteTurns \in 0..MaxNoteTurns
  /\ state \in {"idle", "running", "failed", "done"}
  /\ activity \in {"idle", "thinking", "awaiting"}
  /\ activeGen \in 0..MaxGen /\ genCounter \in 0..MaxGen
  /\ {promptEchoed, ctxDone, stdinOpen, routed, pumpClosed, waited, ticker} \subseteq BOOLEAN
  /\ enabling \in {"never", "now", "done"}
  /\ {pump, pumpEv, events, rlOut, tickOut} \subseteq Seq(Router!Stamped)
  /\ Len(pump) <= PumpCap /\ Len(events) <= EventsCap
  /\ given \subseteq Queries /\ surfaced \subseteq Queries

\* The result events of query g at a place.
ResultsIn(seq, g) ==
  {i \in DOMAIN seq : seq[i].ev.kind \in {"result", "unsolicited"} /\ g \in seq[i].ev.of}

ResultsAt(seq, g) == Cardinality(ResultsIn(seq, g))

\* A result that a query's handle yields, or still holds, is that query's own
\* answer: neither an older result that was buffered nor the result of a turn
\* the CLI started by itself (router.go, QueryHandle and QueryCtx).
AnswersOwnQuery ==
  \A g \in Queries :
    /\ answer[g].by \in {"result", "unsolicited"} => g \in answer[g].of
    /\ \A i \in DOMAIN mailbox[g] :
         mailbox[g][i].ev.kind \in {"result", "unsolicited"} => g \in mailbox[g][i].ev.of

InMailboxes(g) == Cardinality(UNION {{h} \X ResultsIn(mailbox[h], g) : h \in Queries})

\* How many times the result of query g is held, from readLoop to a consumer.
Copies(g) ==
  ResultsAt(rlOut, g) + ResultsAt(pump, g) + ResultsAt(pumpEv, g) + ResultsAt(events, g)
  + ResultsAt(evicting, g) + ResultsAt(orphans, g) + InMailboxes(g)
  + Cardinality({h \in Queries : answer[h].by = "result" /\ g \in answer[h].of})
  + (IF g \in surfaced THEN 1 ELSE 0)

\* A result that readLoop has read is never delivered twice, and never lost on
\* its way from one goroutine to the next, while the context lasts and the
\* orphan mailbox has room.
ResultKeptOnce ==
  [][\A g \in Queries :
       /\ Copies(g)' <= 1
       /\ Copies(g) = 1 /\ ~ctxDone /\ Len(orphans) < OrphanMailboxCap
            => Copies(g)' = 1]_vars

TerminalFor(seq, g) ==
  \E i \in DOMAIN seq : seq[i].gen = g /\ seq[i].ev.kind \in Terminal

\* A query whose caller waits on an open handle owns the active generation until
\* a terminal event stamped for it is on its way to the handle; otherwise the
\* wait would never end (router.go:302, the generation is armed before the
\* write so that the answer always carries it).
WaitingQueryIsTracked ==
  \A g \in given :
    handle[g] = "open" /\ answer[g] = Waiting /\ ~ctxDone =>
      \/ activeGen = g
      \/ \E seq \in {rlOut, pump, pumpEv, evicting, mailbox[g]} : TerminalFor(seq, g)

\* The late result of an abandoned query reaches the orphans with that query's
\* generation, so it can be told from the answer to any other (router.go:117,
\* OrphanEvent.ActiveQueryAtArrival).  Only an API error, which ends the
\* generation before the result, can take it away.
LateResultKeepsGeneration ==
  \A i \in DOMAIN orphans :
    orphans[i].ev.kind = "result" => \A g \in orphans[i].ev.of \cap given : orphans[i].gen = g

\* When the session has ended and no call is under way, every handle is closed,
\* whenever routing was enabled and whichever call was interrupted where
\* (QueryHandle.Events: "Closed when the session ends").
EndedSessionClosesHandles ==
  rlPc = "ended" /\ (\A c \in Callers : call[c].pc = "idle")
    => \A g \in Queries : handle[g] # "open"

\* The router only ever sees what its own specification allows.
RefinesRouter == Router!RouterSpec

\* Every QueryHandle.Wait returns: with a terminal event, or because the handle
\* was closed.  It is the waiting caller that reads the handle.
EveryWaitReturns ==
  (CLIFairness /\ WaitFairness) => \A g \in Queries : (g \in given) ~> (answer[g] # Waiting)

\* Once routing is enabled, readLoop gets past every event it enqueues although
\* nobody reads anything (router.go, "routern blockerar ALDRIG pumpen").
ReaderNeverBlocks == (routed /\ rlPc = "push") ~> (rlPc # "push")
=============================================================================
