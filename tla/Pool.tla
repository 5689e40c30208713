-------------------------------- MODULE Pool --------------------------------
(***************************************************************************)
(* The pool of sessions (src/pool.go): every registration has a forwarder  *)
(* that copies the events of its session into one channel; Close stops the *)
(* forwarders and closes that channel, CloseAll closes the sessions of a   *)
(* snapshot first.  Add, Remove and Close exclude each other by p.mu.  An  *)
(* event is the session it comes from.  A session is as Session presents   *)
(* it: a channel of events, closed when the session ends; Session.Close    *)
(* ends it and reads what is left.                                         *)
(***************************************************************************)
EXTENDS Naturals, Sequences, FiniteSets

CONSTANTS
  PoolSession,     \* sessions
  MaxAdds,         \* bound on the registrations
  MaxPoolEvents,   \* bound on the events of a session
  SessionCap,      \* capacity of a session's Events() (64 in the code)
  PoolCap          \* capacity of the pool's Events()  (256)

ASSUME PoolAssumption ==
  /\ MaxAdds \in Nat /\ MaxPoolEvents \in Nat
  /\ SessionCap \in Nat \ {0} /\ PoolCap \in Nat \ {0}

VARIABLES
  open, produced, inSession,            \* the sessions
  registered, forwarder, poolEvents,    \* the pool
  poolClosed, poolCtxEnded, channelClosed,
  closeAll, closing, closer             \* CloseAll, and whoever got into Close

sessionSide == <<open, produced, inSession>>
closeSide == <<poolClosed, poolCtxEnded, channelClosed, closeAll, closing, closer>>
poolVars == <<sessionSide, registered, forwarder, poolEvents, closeSide>>

Registration == 1..MaxAdds

\* A forwarder: its session, where it is, and whether its context was cancelled.
NoForwarder == [session |-> "none", pc |-> "unused", ended |-> FALSE]

PoolInit ==
  /\ open = [s \in PoolSession |-> TRUE] /\ produced = [s \in PoolSession |-> 0]
  /\ inSession = [s \in PoolSession |-> 0]
  /\ registered = {} /\ forwarder = [i \in Registration |-> NoForwarder] /\ poolEvents = <<>>
  /\ poolClosed = FALSE /\ poolCtxEnded = FALSE /\ channelClosed = FALSE
  /\ closeAll = "no" /\ closing = {} /\ closer = "none"

CtxEnded(i) == poolCtxEnded \/ forwarder[i].ended
Alive(i) == forwarder[i].pc \in {"receives", "sends"}

-----------------------------------------------------------------------------
SessionEmits(s) ==
  /\ open[s] /\ produced[s] < MaxPoolEvents /\ inSession[s] < SessionCap
  /\ produced' = [produced EXCEPT ![s] = @ + 1]
  /\ inSession' = [inSession EXCEPT ![s] = @ + 1]
  /\ UNCHANGED <<open, registered, forwarder, poolEvents, closeSide>>

\* By itself, or because CloseAll closes it.
SessionEnds(s) ==
  /\ open[s]
  /\ open' = [open EXCEPT ![s] = FALSE]
  /\ UNCHANGED <<produced, inSession, registered, forwarder, poolEvents, closeSide>>

\* Session.Close reads Events() until it is closed, next to the forwarder.
SessionCloseDrains(s) ==
  /\ s \in closing /\ inSession[s] > 0
  /\ inSession' = [inSession EXCEPT ![s] = @ - 1]
  /\ UNCHANGED <<open, produced, registered, forwarder, poolEvents, closeSide>>

SessionCloseReturns(s) ==
  /\ s \in closing /\ ~open[s] /\ inSession[s] = 0
  /\ closing' = closing \ {s}
  /\ UNCHANGED <<sessionSide, registered, forwarder, poolEvents,
                 poolClosed, poolCtxEnded, channelClosed, closeAll, closer>>

-----------------------------------------------------------------------------
\* Mutant of MayAdd: a closed pool takes new sessions.
MayAddAlways(s) == s \notin {r.session : r \in registered}

MayAdd(s) == ~poolClosed /\ s \notin {r.session : r \in registered}

\* A registration in the next unused slot, forwarding at once.
Add(s) ==
  \E i \in Registration :
    /\ MayAdd(s)
    /\ forwarder[i].pc = "unused" /\ \A j \in 1..(i - 1) : forwarder[j].pc # "unused"
    /\ registered' = registered \cup {[session |-> s, by |-> i]}
    /\ forwarder' = [forwarder EXCEPT ![i] = [session |-> s, pc |-> "receives", ended |-> FALSE]]
    /\ UNCHANGED <<sessionSide, poolEvents, closeSide>>

\* The entry goes; its forwarder only learns that its context was cancelled.
PoolRemove(s) ==
  \E r \in registered :
    /\ r.session = s
    /\ registered' = registered \ {r}
    /\ forwarder' = [forwarder EXCEPT ![r.by].ended = TRUE]
    /\ UNCHANGED <<sessionSide, poolEvents, closeSide>>

-----------------------------------------------------------------------------
(* forward                                                                 *)

ForwardReceives(i) ==
  /\ forwarder[i].pc = "receives" /\ inSession[forwarder[i].session] > 0
  /\ inSession' = [inSession EXCEPT ![forwarder[i].session] = @ - 1]
  /\ forwarder' = [forwarder EXCEPT ![i].pc = "sends"]
  /\ UNCHANGED <<open, produced, registered, poolEvents, closeSide>>

ForwardSends(i) ==
  /\ forwarder[i].pc = "sends" /\ Len(poolEvents) < PoolCap
  /\ poolEvents' = Append(poolEvents, forwarder[i].session)
  /\ forwarder' = [forwarder EXCEPT ![i].pc = "receives"]
  /\ UNCHANGED <<sessionSide, registered, closeSide>>

\* Mutant of LearnsCancel: a forwarder that holds an event waits for room only.
LearnsCancelReceiving(i) == forwarder[i].pc = "receives" /\ CtxEnded(i)

\* Both selects see the end of the context; an event in hand is lost.
LearnsCancel(i) == Alive(i) /\ CtxEnded(i)

SessionIsOver(i) ==
  /\ forwarder[i].pc = "receives"
  /\ ~open[forwarder[i].session] /\ inSession[forwarder[i].session] = 0

ForwardReturns(i) ==
  /\ LearnsCancel(i) \/ SessionIsOver(i)
  /\ forwarder' = [forwarder EXCEPT ![i].pc = "done"]
  /\ UNCHANGED <<sessionSide, registered, poolEvents, closeSide>>

\* The consumer of the pool's Events().
PoolReceive ==
  /\ poolEvents # <<>>
  /\ poolEvents' = Tail(poolEvents)
  /\ UNCHANGED <<sessionSide, registered, forwarder, closeSide>>

-----------------------------------------------------------------------------
(* Close, CloseAll                                                         *)

CloseAllSnapshot ==
  /\ closeAll = "no"
  /\ closeAll' = "sessions"
  /\ closing' = {r.session : r \in registered}
  /\ UNCHANGED <<sessionSide, registered, forwarder, poolEvents,
                 poolClosed, poolCtxEnded, channelClosed, closer>>

\* Whoever finds the pool open closes it: CloseAll after its sessions, or a
\* caller of Close at any time.  Any other Close returns at once.
CloseBegins(byAll) ==
  /\ byAll => closeAll = "sessions" /\ closing = {}
  /\ closeAll' = IF byAll THEN "done" ELSE closeAll
  /\ IF poolClosed
     THEN byAll /\ UNCHANGED <<poolClosed, closer>>
     ELSE poolClosed' = TRUE /\ closer' = "cancels"
  /\ UNCHANGED <<sessionSide, registered, forwarder, poolEvents,
                 poolCtxEnded, channelClosed, closing>>

CloseCancels ==
  /\ closer = "cancels"
  /\ poolCtxEnded' = TRUE /\ closer' = "waits"
  /\ UNCHANGED <<sessionSide, registered, forwarder, poolEvents,
                 poolClosed, channelClosed, closeAll, closing>>

\* wg.Wait, then close(p.events).
CloseEnds ==
  /\ closer = "waits" /\ \A i \in Registration : ~Alive(i)
  /\ channelClosed' = TRUE /\ closer' = "returned"
  /\ UNCHANGED <<sessionSide, registered, forwarder, poolEvents,
                 poolClosed, poolCtxEnded, closeAll, closing>>

PoolNext ==
  \/ \E s \in PoolSession : \/ SessionEmits(s) \/ SessionEnds(s)
                            \/ SessionCloseDrains(s) \/ SessionCloseReturns(s)
                            \/ Add(s) \/ PoolRemove(s)
  \/ \E i \in Registration : ForwardReceives(i) \/ ForwardSends(i) \/ ForwardReturns(i)
  \/ PoolReceive
  \/ CloseAllSnapshot \/ (\E byAll \in BOOLEAN : CloseBegins(byAll)) \/ CloseCancels \/ CloseEnds

PoolSpec == PoolInit /\ [][PoolNext]_poolVars

\* Forwarders and closers run on, and Session.Close ends its session (it cancels
\* the process after its grace period).  Nobody need read the pool's events.
PoolFairness ==
  /\ \A i \in Registration :
       WF_poolVars(ForwardReceives(i) \/ ForwardSends(i) \/ ForwardReturns(i))
       /\ SF_poolVars(ForwardReturns(i))
  /\ \A s \in PoolSession :
       /\ WF_poolVars(s \in closing /\ SessionEnds(s))
       /\ WF_poolVars(SessionCloseDrains(s) \/ SessionCloseReturns(s))
  /\ WF_poolVars(CloseBegins(TRUE)) /\ WF_poolVars(CloseCancels) /\ WF_poolVars(CloseEnds)

-----------------------------------------------------------------------------
PoolTypeOK ==
  /\ open \in [PoolSession -> BOOLEAN]
  /\ produced \in [PoolSession -> 0..MaxPoolEvents] /\ inSession \in [PoolSession -> 0..SessionCap]
  /\ registered \subseteq [session : PoolSession, by : Registration]
  /\ forwarder \in [Registration -> [session : PoolSession \cup {"none"},
                                     pc : {"unused", "receives", "sends", "done"},
                                     ended : BOOLEAN]]
  /\ \A i \in Registration : forwarder[i].pc # "unused" => forwarder[i].session \in PoolSession
  /\ poolEvents \in Seq(PoolSession) /\ Len(poolEvents) <= PoolCap
  /\ poolClosed \in BOOLEAN /\ poolCtxEnded \in BOOLEAN /\ channelClosed \in BOOLEAN
  /\ closeAll \in {"no", "sessions", "done"} /\ closing \subseteq PoolSession
  /\ closer \in {"none", "cancels", "waits", "returned"}

\* When the pool's channel is closed every forwarder is gone, one of a session
\* added while the pool was closing included: none sends on a closed channel
\* (Close's wg.Wait, Add's look at p.closed under the same lock).
ClosedAfterForwarders == channelClosed => \A i \in Registration : ~Alive(i)

\* A pool that is told to close closes its channel, though nobody reads it and
\* its forwarders hold events (forward's selects, Session.Close's draining).
PoolCloses == PoolFairness => ((closeAll # "no" \/ poolClosed) ~> channelClosed)
=============================================================================
