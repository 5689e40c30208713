------------------------- MODULE SessionPartsProofs -------------------------
(***************************************************************************)
(* Proofs about the parts of a session that work on state of their own.    *)
(* ActivityStream, for any tools and any number of calls: the tracker's    *)
(* parts agree, its count is that of the unanswered tools, the ticker runs *)
(* exactly while a tool result is awaited, and the tracker is idle between *)
(* turns.  SessionTurns, for any callers: what the count of unread         *)
(* messages stands for, and so which turns are flagged as the CLI's own.   *)
(* StdinWriter, for any writers, lines of any length and any pipe: that    *)
(* s.mu excludes, and that the lines of the CLI's stdin stay whole.        *)
(* CommandList, for any number of changes: the answer to initialize never  *)
(* undoes one.                                                             *)
(***************************************************************************)
EXTENDS ActivityStream, SessionTurns, StdinWriter, CommandList, FiniteSetTheorems,
        SequenceTheorems, TLAPS

USE NoToolAssumption

-----------------------------------------------------------------------------
(* The tracker alone                                                       *)

TrackerTypes ==
  /\ activity \in {"idle", "thinking", "awaiting"}
  /\ pendingToolUses \in Nat
  /\ firstPending \in Tool \cup {NoTool}

TrackerInv == TrackerTypes /\ TrackerAgrees

\* Every operation of the tracker keeps its parts in agreement.
LEMMA ObserveContentSafe ==
  ASSUME TrackerInv, ObserveContent  PROVE TrackerInv'
  BY DEF TrackerInv, TrackerTypes, TrackerAgrees, FirstPending, ObserveContent, MoveTo

LEMMA ObserveToolUseSafe ==
  ASSUME TrackerInv, NEW t \in Tool, ObserveToolUse(t)  PROVE TrackerInv'
  BY DEF TrackerInv, TrackerTypes, TrackerAgrees, FirstPending, ObserveToolUse

LEMMA ObserveToolResultSafe ==
  ASSUME TrackerInv, pendingToolUses > 0, ObserveToolResult  PROVE TrackerInv'
  BY DEF TrackerInv, TrackerTypes, TrackerAgrees, FirstPending, ObserveToolResult, MoveTo,
         Settled

LEMMA ObserveUserSafe ==
  ASSUME TrackerInv, NEW n \in Nat, ObserveUser(n)  PROVE TrackerInv'
  BY DEF TrackerInv, TrackerTypes, TrackerAgrees, FirstPending, ObserveUser, MoveTo, Settled

LEMMA ObserveTerminalSafe ==
  ASSUME TrackerInv, ObserveTerminal  PROVE TrackerInv'
  BY DEF TrackerInv, TrackerTypes, TrackerAgrees, FirstPending, ObserveTerminal, MoveTo

LEMMA ObserveUnsolicitedSafe ==
  ASSUME TrackerInv, NEW pending, ObserveUnsolicitedResult(pending)  PROVE TrackerInv'
  BY DEF TrackerInv, TrackerTypes, TrackerAgrees, FirstPending, ObserveUnsolicitedResult,
         MoveTo

LEMMA MarkQuerySafe ==
  ASSUME TrackerInv, MarkQuery  PROVE TrackerInv'
  BY DEF TrackerInv, TrackerTypes, TrackerAgrees, FirstPending, MarkQuery

LEMMA TrackerUnchanged ==
  ASSUME TrackerInv, UNCHANGED trackerVars  PROVE TrackerInv'
  BY DEF TrackerInv, TrackerTypes, TrackerAgrees, FirstPending, trackerVars

-----------------------------------------------------------------------------
(* The count of pending tool uses                                          *)

\* Between trackState and observe of a terminal event no tool is outstanding
\* any more, and the tracker does not know it yet.
Balanced ==
  /\ outstanding \in SUBSET Tool /\ IsFiniteSet(outstanding)
  /\ PairingBalanced
  /\ rlPc = "observe" => outstanding = {}

CountInv == TrackerInv /\ Balanced

LEMMA CountInit == Init => CountInv
  BY FS_EmptySet DEF Init, TrackerInit, CountInv, TrackerInv, TrackerTypes, TrackerAgrees,
     FirstPending, Balanced, PairingBalanced

LEMMA CountNext ==
  ASSUME CountInv, Next  PROVE CountInv'
  <1> USE DEF CountInv
  <1>1. CASE ReadCallerTurn \/ ReadNoteTurn \/ ReadFolded \/ EmitTransition
    <2>1. UNCHANGED <<trackerVars, outstanding>> /\ rlPc # "observe" /\ rlPc' # "observe"
      BY <1>1 DEF ReadCallerTurn, ReadNoteTurn, ReadFolded, EmitTransition, loopVars,
                  trackerVars, turnVars, InTurn
    <2> QED
      BY <2>1, TrackerUnchanged DEF Balanced, PairingBalanced, trackerVars
  <1>2. CASE ReadContent
    <2>1. TrackerInv'
      BY <1>2, ObserveContentSafe DEF ReadContent
    <2> QED
      BY <1>2, <2>1 DEF ReadContent, InTurn, ThenEmit, ObserveContent, turnVars, Balanced,
                        PairingBalanced
  <1>3. CASE ReadSubagent
    <2>1. TrackerInv'
      BY <1>3, TrackerUnchanged DEF ReadSubagent, ObserveSubagent
    <2> QED
      BY <1>3, <2>1 DEF ReadSubagent, InTurn, ThenEmit, ObserveSubagent, trackerVars,
                        turnVars, Balanced, PairingBalanced
  <1>4. ASSUME NEW t \in Tool, ReadToolUse(t)  PROVE CountInv'
    <2>1. TrackerInv'
      BY <1>4, ObserveToolUseSafe DEF ReadToolUse
    <2>2. outstanding' \in SUBSET Tool /\ IsFiniteSet(outstanding')
      BY <1>4, FS_AddElement DEF ReadToolUse, Balanced
    <2>3. pendingToolUses' = Cardinality(outstanding')
      BY <1>4, FS_AddElement DEF ReadToolUse, InTurn, ObserveToolUse, Balanced,
                                 PairingBalanced
    <2> QED
      BY <1>4, <2>1, <2>2, <2>3 DEF ReadToolUse, ThenEmit, Balanced, PairingBalanced
  <1>5. ASSUME NEW t \in Tool, ReadToolResult(t)  PROVE CountInv'
    <2>1. pendingToolUses = Cardinality(outstanding) /\ t \in outstanding
      BY <1>5 DEF ReadToolResult, InTurn, Balanced, PairingBalanced
    <2>2. pendingToolUses \in Nat /\ pendingToolUses > 0
      BY <2>1, FS_EmptySet DEF TrackerInv, TrackerTypes, Balanced
    <2>3. TrackerInv'
      BY <1>5, <2>2, ObserveToolResultSafe DEF ReadToolResult
    <2>4. outstanding' \in SUBSET Tool /\ IsFiniteSet(outstanding')
      BY <1>5, FS_RemoveElement DEF ReadToolResult, Balanced
    <2>5. pendingToolUses' = Cardinality(outstanding')
      BY <1>5, <2>1, <2>2, FS_RemoveElement
      DEF ReadToolResult, ObserveToolResult, Settled, Balanced
    <2> QED
      BY <1>5, <2>3, <2>4, <2>5 DEF ReadToolResult, ThenEmit, Balanced, PairingBalanced
  <1>6. ASSUME NEW ts \in SUBSET outstanding, ReadUser(ts)  PROVE CountInv'
    <2>1. IsFiniteSet(ts) /\ Cardinality(ts) \in Nat /\ Cardinality(ts) <= Cardinality(outstanding)
      BY FS_Subset, FS_CardinalityType DEF Balanced
    <2>2. TrackerInv'
      BY <1>6, <2>1, ObserveUserSafe DEF ReadUser
    <2>3. IsFiniteSet(outstanding \ ts)
          /\ Cardinality(outstanding \ ts) = Cardinality(outstanding) - Cardinality(ts)
      <3>1. outstanding \cap ts = ts
        OBVIOUS
      <3> QED
        BY <3>1, FS_Difference DEF Balanced
    <2>4. outstanding' \in SUBSET Tool /\ IsFiniteSet(outstanding')
      BY <1>6, <2>3 DEF ReadUser, Balanced
    <2>5. pendingToolUses' = Cardinality(outstanding')
      <3>1. pendingToolUses = Cardinality(outstanding) /\ pendingToolUses \in Nat
        BY <1>6 DEF ReadUser, InTurn, Balanced, PairingBalanced, TrackerInv, TrackerTypes
      <3>2. pendingToolUses' = Settled(Cardinality(ts)) /\ outstanding' = outstanding \ ts
        BY <1>6 DEF ReadUser, ObserveUser
      <3> QED
        BY <3>1, <3>2, <2>1, <2>3 DEF Settled
    <2> QED
      BY <1>6, <2>2, <2>4, <2>5 DEF ReadUser, ThenEmit, Balanced, PairingBalanced
  <1>7. CASE ReadHeldResult
    <2>1. TrackerInv'
      BY <1>7, ObserveUnsolicitedSafe DEF ReadHeldResult
    <2> QED
      BY <1>7, <2>1, FS_EmptySet
      DEF ReadHeldResult, EndTurn, ThenEmit, ObserveUnsolicitedResult, Balanced,
          PairingBalanced
  <1>8. CASE ReadResult \/ ReadApiError
    <2>1. UNCHANGED trackerVars /\ outstanding' = {} /\ rlPc' = "observe"
      BY <1>8 DEF ReadResult, ReadApiError, EndTurn
    <2> QED
      BY <2>1, TrackerUnchanged, FS_EmptySet DEF Balanced, PairingBalanced
  <1>9. CASE ObserveTracked
    <2>1. TrackerInv'
      BY <1>9, ObserveTerminalSafe DEF ObserveTracked
    <2> QED
      BY <1>9, <2>1, FS_EmptySet
      DEF ObserveTracked, ObserveTerminal, ThenEmit, turnVars, Balanced, PairingBalanced
  <1>10. ASSUME NEW c \in Callers, CallStep(c)  PROVE CountInv'
    <2>1. CASE Mark(c)
      <3>1. TrackerInv'
        BY <2>1, MarkQuerySafe DEF Mark
      <3> QED
        BY <2>1, <3>1 DEF Mark, MarkQuery, turnVars, loopVars, Balanced, PairingBalanced
    <2>2. CASE ~Mark(c)
      <3>1. UNCHANGED <<trackerVars, outstanding, rlPc>>
        BY <1>10, <2>2 DEF CallStep, PrepareQuery, ValidateSendable, SendTransition, Write, WriteFails,
                           turnVars, loopVars
      <3> QED
        BY <3>1, TrackerUnchanged DEF Balanced, PairingBalanced, trackerVars
    <2> QED
      BY <2>1, <2>2
  <1> QED
    BY <1>1, <1>2, <1>3, <1>4, <1>5, <1>6, <1>7, <1>8, <1>9, <1>10 DEF Next, ReadLoop

LEMMA CountInvariant == Spec => []CountInv
  <1>1. CountInv /\ UNCHANGED vars => CountInv'
    BY DEF CountInv, TrackerInv, TrackerTypes, TrackerAgrees, FirstPending, Balanced,
           PairingBalanced, vars, trackerVars, turnVars, loopVars
  <1> QED
    BY <1>1, CountInit, CountNext, PTL DEF Spec

\* The tracker's state, its count and its first tool use always agree.
THEOREM TrackerAlwaysAgrees == Spec => []TrackerAgrees
  BY CountInvariant, PTL DEF CountInv, TrackerInv

\* The count of pending tool uses is that of the tools the CLI has not answered.
THEOREM PairingStaysBalanced == Spec => []PairingBalanced
  BY CountInvariant, PTL DEF CountInv, Balanced

\* A step within the awaiting state never changes the tool use that is reported.
THEOREM FirstPendingIsStable == Spec => FirstPendingStable
  <1>1. ASSUME CountInv, [Next]_vars
        PROVE  [activity = "awaiting" /\ activity' = "awaiting"
                  => firstPending' = firstPending]_trackerVars
    <2>0. SUFFICES ASSUME Next, activity = "awaiting", activity' = "awaiting"
                   PROVE  firstPending' = firstPending
      BY <1>1 DEF vars, trackerVars
    <2>1. pendingToolUses > 0
      BY <1>1, <2>0 DEF CountInv, TrackerInv, TrackerAgrees
    <2>2. CASE ReadLoop
      BY <2>0, <2>1, <2>2
      DEF ReadLoop, ReadCallerTurn, ReadNoteTurn, ReadFolded, ReadContent, ReadSubagent,
          ReadToolUse, ReadToolResult, ReadUser, ReadHeldResult, ReadResult, ReadApiError,
          ObserveTracked, EmitTransition, ObserveContent, ObserveSubagent, ObserveToolUse,
          ObserveToolResult, ObserveUser, ObserveUnsolicitedResult, ObserveTerminal, MoveTo,
          trackerVars
    <2>3. ASSUME NEW c \in Callers, CallStep(c)  PROVE firstPending' = firstPending
      BY <2>3 DEF CallStep, PrepareQuery, ValidateSendable, Mark, SendTransition, Write, WriteFails,
                  MarkQuery, trackerVars
    <2> QED
      BY <2>0, <2>2, <2>3 DEF Next
  <1> QED
    BY <1>1, CountInvariant, PTL DEF Spec, FirstPendingStable

-----------------------------------------------------------------------------
(* The ticker                                                              *)

\* A transition that is not enqueued yet leads to where the tracker is, as far
\* as awaiting goes: only readLoop enters that state or leaves it.
TickerInv ==
  /\ TickerMirrorsState
  /\ rlPc = "emit" => (transition = "awaiting" <=> activity = "awaiting")

LEMMA TickerNext ==
  ASSUME TrackerInv, TickerInv, Next  PROVE TickerInv'
  <1> USE DEF TickerInv, TickerMirrorsState
  <1>1. ASSUME rlPc # "emit", ThenEmit  PROVE TickerInv'
    <2>1. CASE activity' = activity
      BY <1>1, <2>1 DEF ThenEmit
    <2>2. CASE activity' # activity
      BY <1>1, <2>2 DEF ThenEmit
    <2> QED
      BY <2>1, <2>2
  <1>2. CASE ReadContent \/ ReadSubagent \/ ReadHeldResult \/ ObserveTracked
    BY <1>1, <1>2 DEF ReadContent, ReadSubagent, ReadHeldResult, ObserveTracked, InTurn
  <1>3. ASSUME NEW t \in Tool, ReadToolUse(t) \/ ReadToolResult(t)  PROVE TickerInv'
    BY <1>1, <1>3 DEF ReadToolUse, ReadToolResult, InTurn
  <1>4. ASSUME NEW ts \in SUBSET outstanding, ReadUser(ts)  PROVE TickerInv'
    BY <1>1, <1>4 DEF ReadUser, InTurn
  <1>5. CASE ReadCallerTurn \/ ReadNoteTurn \/ ReadFolded
    BY <1>5 DEF ReadCallerTurn, ReadNoteTurn, ReadFolded, trackerVars, loopVars
  <1>6. CASE ReadResult \/ ReadApiError
    <2>1. rlPc = "scan" /\ rlPc' = "observe" /\ ticker' = ticker /\ activity' = activity
      BY <1>6 DEF ReadResult, ReadApiError, InTurn, trackerVars
    <2> QED
      BY <2>1
  <1>7. CASE EmitTransition
    <2>1. rlPc = "emit" /\ rlPc' = "scan" /\ activity' = activity
          /\ ticker' = (transition = "awaiting")
      BY <1>7 DEF EmitTransition, trackerVars
    <2> QED
      BY <2>1
  <1>8. ASSUME NEW c \in Callers, CallStep(c)  PROVE TickerInv'
    <2>1. UNCHANGED <<rlPc, transition, ticker>>
      BY <1>8 DEF CallStep, PrepareQuery, ValidateSendable, Mark, SendTransition, Write, WriteFails,
                  loopVars
    <2>2. activity' = "awaiting" <=> activity = "awaiting"
      BY <1>8 DEF CallStep, PrepareQuery, ValidateSendable, Mark, SendTransition, Write, WriteFails,
                  MarkQuery, trackerVars
    <2> QED
      BY <2>1, <2>2
  <1> QED
    BY <1>2, <1>3, <1>4, <1>5, <1>6, <1>7, <1>8 DEF Next, ReadLoop

\* The tool-progress ticker runs exactly while a tool result is awaited.
THEOREM TickerMirrors == Spec => []TickerMirrorsState
  <1>1. Init => TickerInv
    BY DEF Init, TrackerInit, TickerInv, TickerMirrorsState
  <1>2. TickerInv /\ UNCHANGED vars => TickerInv'
    BY DEF TickerInv, TickerMirrorsState, vars, trackerVars, loopVars
  <1>3. TrackerInv /\ TickerInv /\ [Next]_vars => TickerInv'
    BY <1>2, TickerNext
  <1>4. CountInv => TrackerInv
    BY DEF CountInv
  <1>5. TickerInv => TickerMirrorsState
    BY DEF TickerInv
  <1> QED
    BY <1>1, <1>3, <1>4, <1>5, CountInvariant, PTL DEF Spec

-----------------------------------------------------------------------------
(* Between turns                                                           *)

CallTypes ==
  /\ stdin \in Nat
  /\ call \in [Callers -> {"idle", "mark", "send", "write"}]

\* Who has a reason to hold the tracker away from idle while no turn runs: a query that
\* was prepared, a message the CLI has not read, a call on its way to its write, or one
\* that marked the tracker and whose write failed.
Expected == unsent \/ state # "idle" \/ stdin > 0 \/ \E c \in Callers : call[c] # "idle"

IdleInv ==
  CallTypes /\ (turn = "none" /\ rlPc # "observe" /\ activity # "idle" => Expected)

LEMMA IdleNext ==
  ASSUME IdleInv, Next  PROVE IdleInv'
  <1> USE DEF IdleInv, CallTypes, Expected
  <1>1. CASE ReadCallerTurn \/ ReadNoteTurn \/ ReadFolded
    BY <1>1 DEF ReadCallerTurn, ReadNoteTurn, ReadFolded, InTurn, callVars
  <1>2. ASSUME turn # "none", UNCHANGED <<turn, stdin, call>>  PROVE IdleInv'
    BY <1>2
  <1>3. CASE ReadContent \/ ReadSubagent
    BY <1>2, <1>3 DEF ReadContent, ReadSubagent, InTurn, turnVars, callVars
  <1>4. ASSUME NEW t \in Tool, ReadToolUse(t) \/ ReadToolResult(t)  PROVE IdleInv'
    BY <1>2, <1>4 DEF ReadToolUse, ReadToolResult, InTurn, callVars
  <1>5. ASSUME NEW ts \in SUBSET outstanding, ReadUser(ts)  PROVE IdleInv'
    BY <1>2, <1>5 DEF ReadUser, InTurn, callVars
  <1>6. CASE ReadHeldResult
    <2>1. activity' # "idle" => state' = "running"
      BY <1>6 DEF ReadHeldResult, ObserveUnsolicitedResult, MoveTo, sessionVars
    <2> QED
      BY <1>6, <2>1 DEF ReadHeldResult, callVars
  <1>7. CASE ReadResult \/ ReadApiError
    <2>1. rlPc' = "observe" /\ UNCHANGED <<stdin, call>>
      BY <1>7 DEF ReadResult, ReadApiError, callVars
    <2> QED
      BY <2>1
  <1>8. CASE ObserveTracked
    <2>1. activity' = "idle" /\ UNCHANGED <<stdin, call>>
      BY <1>8 DEF ObserveTracked, ObserveTerminal, MoveTo, turnVars
    <2> QED
      BY <2>1
  <1>9. CASE EmitTransition
    <2>1. UNCHANGED <<activity, turn, stdin, state, call, unsent>> /\ rlPc = "emit"
      BY <1>9 DEF EmitTransition, trackerVars, turnVars, sessionVars, callVars
    <2> QED
      BY <2>1
  <1>10. ASSUME NEW c \in Callers, CallStep(c)  PROVE IdleInv'
    <2>1. CASE PrepareQuery(c) \/ ValidateSendable(c) \/ Mark(c) \/ SendTransition(c)
      <3>1. call'[c] # "idle"
        BY <2>1 DEF PrepareQuery, ValidateSendable, Mark, SendTransition
      <3>2. stdin' = stdin /\ call' \in [Callers -> {"idle", "mark", "send", "write"}]
        BY <2>1 DEF PrepareQuery, ValidateSendable, Mark, SendTransition, turnVars
      <3> QED
        BY <3>1, <3>2
    <2>3. CASE WriteFails(c)
      <3>1. stdin' \in Nat /\ call' \in [Callers -> {"idle", "mark", "send", "write"}]
        BY <2>3 DEF WriteFails
      <3>2. activity' = activity /\ (activity # "idle" => unsent')
        BY <2>3 DEF WriteFails, trackerVars
      <3> QED
        BY <3>1, <3>2
    <2>2. CASE Write(c)
      <3>1. stdin' > 0 /\ stdin' \in Nat
        BY <2>2 DEF Write
      <3>2. call' \in [Callers -> {"idle", "mark", "send", "write"}]
        BY <2>2 DEF Write
      <3> QED
        BY <3>1, <3>2
    <2> QED
      BY <1>10, <2>1, <2>2, <2>3 DEF CallStep
  <1> QED
    BY <1>1, <1>3, <1>4, <1>5, <1>6, <1>7, <1>8, <1>9, <1>10 DEF Next, ReadLoop

\* Whatever the order of queries, messages that are folded into a turn, notification
\* turns and API errors, the tracker is idle again when nothing is on its way: no
\* held result and no mark of a caller leaves it thinking (src/activity.go), but for the
\* mark of a message whose write failed, until the next terminal event (session.go:439).
THEOREM IdleAgain == Spec => []IdleBetweenTurns
  <1>1. Init => IdleInv
    BY DEF Init, TrackerInit, IdleInv, CallTypes, Expected
  <1>2. IdleInv /\ UNCHANGED vars => IdleInv'
    BY DEF IdleInv, CallTypes, Expected, vars, trackerVars, turnVars, sessionVars, loopVars,
           callVars
  <1>3. IdleInv /\ [Next]_vars => IdleInv'
    BY <1>2, IdleNext
  <1>4. IdleInv => IdleBetweenTurns
    BY DEF IdleInv, CallTypes, Expected, IdleBetweenTurns
  <1> QED
    BY <1>1, <1>3, <1>4, PTL DEF Spec

-----------------------------------------------------------------------------
(* The accounting of turns                                                 *)

TurnLine ==
  [kind : {"init"}, own : BOOLEAN] \cup [kind : {"echo", "apierror"}]
  \cup [kind : {"result"}, own : BOOLEAN, of : Int]

TurnTypes ==
  /\ inbox \in Seq([q : Int, slash : BOOLEAN]) /\ lines \in Seq(TurnLine)
  /\ running \in [kind : {"none", "caller", "own"}, of : Int, failed : BOOLEAN]
  /\ asked \in Int /\ message \in [TurnCaller -> Int]
  /\ unread \in Int /\ turnEchoed \in BOOLEAN /\ stdinBroken \in BOOLEAN
  /\ step \in [TurnCaller -> {"free", "counts", "writes", "retracts", "waits"}]

\* No echo has been read at position i of the lines since the last result before it;
\* `echoed' tells of those before the lines.
FreshIn(ls, echoed, i) ==
  /\ \A k \in 1..(i - 1) : ls[k].kind = "echo" => \E m \in (k + 1)..(i - 1) : ls[m].kind = "result"
  /\ echoed => \E m \in 1..(i - 1) : ls[m].kind = "result"

\* The lines that will take a message off the count: echoes, and results of turns of a
\* caller's that had none.
OwesIn(ls, echoed, i) ==
  \/ ls[i].kind = "echo"
  \/ ls[i].kind = "result" /\ ~ls[i].own /\ FreshIn(ls, echoed, i)
OwedIn(ls, echoed) == {i \in 1..Len(ls) : OwesIn(ls, echoed, i)}

\* On its way are n messages, what the lines owe, what the result of the turn that runs
\* will take off when a caller's runs, and w messages about to be written: u counts them.
Counted(ls, echoed, runs, n, w, u) ==
  n + Cardinality(OwedIn(ls, echoed))
    + (IF runs /\ FreshIn(ls, echoed, Len(ls) + 1) THEN 1 ELSE 0) + w <= u

Writers == {c \in TurnCaller : step[c] = "writes"}

\* Every message on its way is in the count.
MessagesAreCounted ==
  ~stdinBroken =>
    /\ IsFiniteSet(Writers)
    /\ Counted(lines, turnEchoed, running.kind = "caller", Len(inbox), Cardinality(Writers), unread)
    /\ \A c \in TurnCaller : step[c] # "retracts"

\* The turn of every init of a caller's ends among the lines, or it is the one that runs.
EndsIn(ls, i) ==
  \E j \in (i + 1)..Len(ls) : /\ ls[j].kind = "result" /\ ~ls[j].own
                              /\ \A k \in (i + 1)..(j - 1) : ls[k].kind # "result"
Unfinished(ls, i) == \A k \in (i + 1)..Len(ls) : ls[k].kind # "result"
OfCaller(line) == line.kind = "init" /\ ~line.own
TurnsEndIn(ls, runs) ==
  \A i \in 1..Len(ls) : OfCaller(ls[i]) => EndsIn(ls, i) \/ (runs /\ Unfinished(ls, i))
CallerTurnsEnd == TurnsEndIn(lines, running.kind = "caller")

TurnsInv == TurnTypes /\ MessagesAreCounted /\ CallerTurnsEnd /\ UnsolicitedIsTrue

-----------------------------------------------------------------------------
LEMMA TailLines ==
  ASSUME NEW S, NEW ls \in Seq(S), ls # <<>>
  PROVE  /\ Tail(ls) \in Seq(S) /\ Len(Tail(ls)) = Len(ls) - 1 /\ Len(ls) \in Nat /\ Len(ls) >= 1
         /\ Head(ls) = ls[1] /\ Head(ls) \in S
         /\ \A i \in 1..(Len(ls) - 1) : Tail(ls)[i] = ls[i + 1]
  OBVIOUS

LEMMA OneMoreLine ==
  ASSUME NEW S, NEW ls \in Seq(S), NEW line \in S
  PROVE  /\ Append(ls, line) \in Seq(S) /\ Len(Append(ls, line)) = Len(ls) + 1 /\ Len(ls) \in Nat
         /\ Append(ls, line)[Len(ls) + 1] = line
         /\ \A i \in 1..Len(ls) : Append(ls, line)[i] = ls[i]
  OBVIOUS

\* What was read of a line says from then on whether the turn was echoed.
EchoedAfter(line, echoed) ==
  IF line.kind = "echo" THEN TRUE ELSE IF line.kind = "result" THEN FALSE ELSE echoed

LEMMA TailFresh ==
  ASSUME NEW S, NEW ls \in Seq(S), ls # <<>>, NEW e \in BOOLEAN, NEW i \in 1..Len(ls)
  PROVE  FreshIn(Tail(ls), EchoedAfter(Head(ls), e), i) <=> FreshIn(ls, e, i + 1)
  <1> DEFINE t == Tail(ls)
             e2 == EchoedAfter(Head(ls), e)
  <1>0. /\ Len(ls) \in Nat /\ Len(ls) >= 1 /\ Head(ls) = ls[1]
        /\ \A k \in 1..(Len(ls) - 1) : t[k] = ls[k + 1]
    BY TailLines
  <1>e. e2 = IF ls[1].kind = "echo" THEN TRUE ELSE IF ls[1].kind = "result" THEN FALSE ELSE e
    BY <1>0 DEF EchoedAfter
  <1> HIDE DEF t, e2
  <1>1. ASSUME FreshIn(t, e2, i) PROVE FreshIn(ls, e, i + 1)
    <2>1. ASSUME e2 PROVE \E m \in 2..i : ls[m].kind = "result"
      <3>1. PICK m \in 1..(i - 1) : t[m].kind = "result"
        BY <1>1, <2>1 DEF FreshIn
      <3>2. m + 1 \in 2..i /\ ls[m + 1].kind = "result"
        BY <1>0, <3>1
      <3> QED
        BY <3>2
    <2>2. ASSUME NEW k \in 1..i, ls[k].kind = "echo"
          PROVE  \E m \in (k + 1)..i : ls[m].kind = "result"
      <3>1. CASE k = 1
        BY <1>e, <2>1, <2>2, <3>1
      <3>2. CASE k # 1
        <4>1. k - 1 \in 1..(i - 1) /\ t[k - 1].kind = "echo"
          BY <1>0, <2>2, <3>2
        <4>2. PICK m \in ((k - 1) + 1)..(i - 1) : t[m].kind = "result"
          BY <1>1, <4>1 DEF FreshIn
        <4>3. m \in 1..(Len(ls) - 1) /\ m + 1 \in (k + 1)..i
          BY <1>0, <4>1, <4>2
        <4>4. ls[m + 1].kind = "result"
          BY <1>0, <4>2, <4>3
        <4> QED
          BY <4>3, <4>4
      <3> QED
        BY <3>1, <3>2
    <2>3. ASSUME e PROVE \E m \in 1..i : ls[m].kind = "result"
      <3>1. CASE ls[1].kind = "result"
        BY <3>1
      <3>2. CASE ls[1].kind # "result"
        BY <1>e, <2>1, <2>3, <3>2
      <3> QED
        BY <3>1, <3>2
    <2>4. (i + 1) - 1 = i
      OBVIOUS
    <2> QED
      BY <2>2, <2>3, <2>4 DEF FreshIn
  <1>2. ASSUME FreshIn(ls, e, i + 1) PROVE FreshIn(t, e2, i)
    <2>0. (i + 1) - 1 = i
      OBVIOUS
    <2>1. ASSUME e2 PROVE \E m \in 1..(i - 1) : t[m].kind = "result"
      <3>1. PICK m \in 2..i : ls[m].kind = "result"
        <4>1. CASE ls[1].kind = "echo"
          BY <1>2, <2>0, <4>1 DEF FreshIn
        <4>2. CASE ls[1].kind # "echo"
          <5>1. e /\ ls[1].kind # "result"
            BY <1>e, <2>1, <4>2
          <5>2. PICK m \in 1..i : ls[m].kind = "result"
            BY <1>2, <2>0, <5>1 DEF FreshIn
          <5> QED
            BY <5>1, <5>2
        <4> QED
          BY <4>1, <4>2
      <3>2. m - 1 \in 1..(i - 1) /\ t[m - 1].kind = "result"
        BY <1>0, <3>1
      <3> QED
        BY <3>2
    <2>2. ASSUME NEW k \in 1..(i - 1), t[k].kind = "echo"
          PROVE  \E m \in (k + 1)..(i - 1) : t[m].kind = "result"
      <3>1. k + 1 \in 1..i /\ ls[k + 1].kind = "echo"
        BY <1>0, <2>2
      <3>2. PICK m \in ((k + 1) + 1)..i : ls[m].kind = "result"
        BY <1>2, <2>0, <3>1 DEF FreshIn
      <3>3. m - 1 \in (k + 1)..(i - 1) /\ t[m - 1].kind = "result"
        BY <1>0, <3>1, <3>2
      <3> QED
        BY <3>3
    <2> QED
      BY <2>1, <2>2 DEF FreshIn
  <1> QED
    BY <1>1, <1>2 DEF t, e2

LEMMA OwedIsFinite ==
  ASSUME NEW S, NEW ls \in Seq(S), NEW e \in BOOLEAN
  PROVE  IsFiniteSet(OwedIn(ls, e)) /\ Cardinality(OwedIn(ls, e)) \in Nat
  <1>1. OwedIn(ls, e) \subseteq 1..Len(ls) /\ Len(ls) \in Nat
    BY DEF OwedIn
  <1>2. IsFiniteSet(1..Len(ls))
    BY <1>1, FS_Interval
  <1> QED
    BY <1>1, <1>2, FS_Subset, FS_CardinalityType

\* A set of positions shifted by one has as many.
LEMMA ShiftedSet ==
  ASSUME NEW A, IsFiniteSet(A), A \subseteq Int
  PROVE  /\ IsFiniteSet({i - 1 : i \in A})
         /\ Cardinality({i - 1 : i \in A}) = Cardinality(A)
  <1> DEFINE B == {i - 1 : i \in A}
             f == [i \in A |-> i - 1]
  <1>1. f \in Bijection(A, B)
    BY DEF Bijection, Injection, Surjection, IsInjective
  <1> QED
    BY <1>1, FS_Bijection DEF ExistsBijection

\* A line that is read takes itself off what is owed.
LEMMA TailOwed ==
  ASSUME NEW S, NEW ls \in Seq(S), ls # <<>>, NEW e \in BOOLEAN
  PROVE  Cardinality(OwedIn(Tail(ls), EchoedAfter(Head(ls), e)))
           = Cardinality(OwedIn(ls, e)) - (IF OwesIn(ls, e, 1) THEN 1 ELSE 0)
  <1> DEFINE t == Tail(ls)
             e2 == EchoedAfter(Head(ls), e)
             A == OwedIn(ls, e) \ {1}
  <1>0. /\ Len(ls) \in Nat /\ Len(ls) >= 1 /\ Len(t) = Len(ls) - 1
        /\ \A k \in 1..(Len(ls) - 1) : t[k] = ls[k + 1]
    BY TailLines
  <1>1. IsFiniteSet(OwedIn(ls, e)) /\ Cardinality(OwedIn(ls, e)) \in Nat
    BY OwedIsFinite
  <1>2. IsFiniteSet(A) /\ A \subseteq Int
    BY <1>1, FS_Subset DEF OwedIn
  <1>3. Cardinality(A) = Cardinality(OwedIn(ls, e)) - (IF OwesIn(ls, e, 1) THEN 1 ELSE 0)
    <2>1. 1 \in OwedIn(ls, e) <=> OwesIn(ls, e, 1)
      BY <1>0 DEF OwedIn
    <2>2. Cardinality(A) = IF 1 \in OwedIn(ls, e) THEN Cardinality(OwedIn(ls, e)) - 1
                           ELSE Cardinality(OwedIn(ls, e))
      BY <1>1, FS_RemoveElement, Zenon
    <2> HIDE DEF A
    <2> QED
      BY <1>1, <2>1, <2>2
  <1>4. \A i \in 1..(Len(ls) - 1) : OwesIn(t, e2, i) <=> OwesIn(ls, e, i + 1)
    <2> SUFFICES ASSUME NEW i \in 1..(Len(ls) - 1) PROVE OwesIn(t, e2, i) <=> OwesIn(ls, e, i + 1)
      OBVIOUS
    <2>1. t[i] = ls[i + 1]
      BY <1>0
    <2>a. i \in 1..Len(ls)
      BY <1>0
    <2>2. FreshIn(t, e2, i) <=> FreshIn(ls, e, i + 1)
      BY <2>a, TailFresh, Zenon
    <2> QED
      BY <2>1, <2>2 DEF OwesIn
  <1> HIDE DEF t, e2
  <1>5. OwedIn(t, e2) = {i - 1 : i \in A}
    <2>1. ASSUME NEW i \in OwedIn(t, e2) PROVE i \in {j - 1 : j \in A}
      <3>1. i \in 1..(Len(ls) - 1) /\ OwesIn(ls, e, i + 1)
        BY <1>0, <1>4 DEF OwedIn
      <3>2. i + 1 \in A /\ (i + 1) - 1 = i
        BY <1>0, <3>1 DEF OwedIn
      <3> QED
        BY <3>2
    <2>2. ASSUME NEW j \in A PROVE j - 1 \in OwedIn(t, e2)
      <3>1. j \in 1..Len(ls) /\ j # 1 /\ OwesIn(ls, e, j)
        BY DEF OwedIn
      <3>2. j - 1 \in 1..(Len(ls) - 1) /\ (j - 1) + 1 = j
        BY <1>0, <3>1
      <3>3. OwesIn(t, e2, j - 1)
        BY <1>4, <3>1, <3>2
      <3> QED
        BY <1>0, <3>2, <3>3 DEF OwedIn
    <2> QED
      BY <2>1, <2>2
  <1>6. Cardinality(OwedIn(t, e2)) = Cardinality(A)
    BY <1>2, <1>5, ShiftedSet
  <1> QED
    BY <1>3, <1>6 DEF t, e2

\* The lines before one more are owed as before, and so is what comes after it unless the
\* line says otherwise.
LEMMA AppendFresh ==
  ASSUME NEW S, NEW ls \in Seq(S), NEW line \in S, NEW e \in BOOLEAN
  PROVE  /\ \A i \in 1..(Len(ls) + 1) : FreshIn(Append(ls, line), e, i) <=> FreshIn(ls, e, i)
         /\ line.kind = "echo" => ~FreshIn(Append(ls, line), e, Len(ls) + 2)
         /\ line.kind \notin {"echo", "result"} =>
              (FreshIn(Append(ls, line), e, Len(ls) + 2) <=> FreshIn(ls, e, Len(ls) + 1))
  <1> DEFINE a == Append(ls, line)
             n == Len(ls)
  <1>0. n \in Nat /\ a[n + 1] = line /\ \A i \in 1..n : a[i] = ls[i]
    BY OneMoreLine
  <1> HIDE DEF a, n
  <1>1. ASSUME NEW i \in 1..(n + 1) PROVE FreshIn(a, e, i) <=> FreshIn(ls, e, i)
    <2>1. \A k \in 1..(i - 1) : a[k] = ls[k]
      BY <1>0
    <2> QED
      BY <2>1 DEF FreshIn
  <1>2. (n + 2) - 1 = n + 1 /\ (n + 1) - 1 = n
    BY <1>0
  <1>3. ASSUME line.kind = "echo" PROVE ~FreshIn(a, e, n + 2)
    <2>1. n + 1 \in 1..(n + 1) /\ a[n + 1].kind = "echo"
      BY <1>0, <1>3
    <2>2. ~ \E m \in ((n + 1) + 1)..(n + 1) : a[m].kind = "result"
      BY <1>0
    <2> QED
      BY <1>2, <2>1, <2>2 DEF FreshIn
  <1>4. ASSUME line.kind \notin {"echo", "result"}
        PROVE  FreshIn(a, e, n + 2) <=> FreshIn(a, e, n + 1)
    <2>1. a[n + 1].kind \notin {"echo", "result"}
      BY <1>0, <1>4
    <2>2. ASSUME FreshIn(a, e, n + 2) PROVE FreshIn(a, e, n + 1)
      <3>1. ASSUME NEW k \in 1..n, a[k].kind = "echo" PROVE \E m \in (k + 1)..n : a[m].kind = "result"
        <4>1. PICK m \in (k + 1)..(n + 1) : a[m].kind = "result"
          BY <1>0, <1>2, <2>2, <3>1 DEF FreshIn
        <4>2. m \in (k + 1)..n
          BY <1>0, <2>1, <4>1
        <4> QED
          BY <4>1, <4>2
      <3>2. ASSUME e PROVE \E m \in 1..n : a[m].kind = "result"
        <4>1. PICK m \in 1..(n + 1) : a[m].kind = "result"
          BY <1>0, <1>2, <2>2, <3>2 DEF FreshIn
        <4>2. m \in 1..n
          BY <1>0, <2>1, <4>1
        <4> QED
          BY <4>1, <4>2
      <3> QED
        BY <1>2, <3>1, <3>2 DEF FreshIn
    <2>3. ASSUME FreshIn(a, e, n + 1) PROVE FreshIn(a, e, n + 2)
      <3>1. ASSUME NEW k \in 1..(n + 1), a[k].kind = "echo"
            PROVE \E m \in (k + 1)..(n + 1) : a[m].kind = "result"
        <4>1. k \in 1..n
          BY <1>0, <2>1, <3>1
        <4>2. PICK m \in (k + 1)..n : a[m].kind = "result"
          BY <1>2, <2>3, <3>1, <4>1 DEF FreshIn
        <4>3. m \in (k + 1)..(n + 1)
          BY <1>0, <4>1, <4>2
        <4> QED
          BY <4>2, <4>3
      <3>2. ASSUME e PROVE \E m \in 1..(n + 1) : a[m].kind = "result"
        <4>1. PICK m \in 1..n : a[m].kind = "result"
          BY <1>2, <2>3, <3>2 DEF FreshIn
        <4>2. m \in 1..(n + 1)
          BY <1>0, <4>1
        <4> QED
          BY <4>1, <4>2
      <3> QED
        BY <1>2, <3>1, <3>2 DEF FreshIn
    <2> QED
      BY <2>2, <2>3
  <1>5. n + 1 \in 1..(n + 1)
    BY <1>0
  <1>6. line.kind \notin {"echo", "result"} => (FreshIn(a, e, n + 2) <=> FreshIn(ls, e, n + 1))
    BY <1>1, <1>4, <1>5
  <1> QED
    BY <1>1, <1>3, <1>6 DEF a, n

\* What one more line adds to what is owed.
Adds(ls, e, line) ==
  IF line.kind = "echo" \/ (line.kind = "result" /\ ~line.own /\ FreshIn(ls, e, Len(ls) + 1)) THEN 1 ELSE 0

LEMMA AppendOwed ==
  ASSUME NEW S, NEW ls \in Seq(S), NEW line \in S, NEW e \in BOOLEAN
  PROVE  Cardinality(OwedIn(Append(ls, line), e)) = Cardinality(OwedIn(ls, e)) + Adds(ls, e, line)
  <1> DEFINE a == Append(ls, line)
             n == Len(ls)
             old == OwedIn(ls, e)
  <1>0. n \in Nat /\ Len(a) = n + 1 /\ a[n + 1] = line /\ \A i \in 1..n : a[i] = ls[i]
    BY OneMoreLine
  <1>g. \A i \in 1..(Len(ls) + 1) : FreshIn(Append(ls, line), e, i) <=> FreshIn(ls, e, i)
    <2> HIDE DEF a, n, old
    <2> QED
      BY AppendFresh
  <1>f. \A i \in 1..(n + 1) : FreshIn(a, e, i) <=> FreshIn(ls, e, i)
    BY <1>g, Zenon
  <1>1. IsFiniteSet(old) /\ Cardinality(old) \in Nat
    BY OwedIsFinite
  <1>2. old \subseteq 1..n
    BY DEF OwedIn
  <1>o. OwedIn(ls, e) = {i \in 1..n : OwesIn(ls, e, i)}
    BY DEF OwedIn
  <1>p. OwedIn(a, e) = {i \in 1..(n + 1) : OwesIn(a, e, i)}
    BY <1>0 DEF OwedIn
  <1> HIDE DEF a, n
  <1>3. \A i \in 1..n : OwesIn(a, e, i) <=> OwesIn(ls, e, i)
    BY <1>0, <1>f DEF OwesIn
  <1>4. OwesIn(a, e, n + 1) <=> Adds(ls, e, line) = 1
    <2>1. n + 1 \in 1..(n + 1)
      BY <1>0
    <2> QED
      BY <1>0, <1>f, <2>1 DEF OwesIn, Adds, n
  <1>5. CASE Adds(ls, e, line) = 1
    <2>1. OwedIn(a, e) = old \cup {n + 1} /\ n + 1 \notin old
      BY <1>0, <1>2, <1>3, <1>4, <1>5, <1>o, <1>p
    <2>2. Cardinality(old \cup {n + 1}) = IF n + 1 \in old THEN Cardinality(old) ELSE Cardinality(old) + 1
      BY <1>1, FS_AddElement, Zenon
    <2> QED
      BY <1>5, <2>1, <2>2 DEF a
  <1>6. CASE Adds(ls, e, line) # 1
    <2>1. OwedIn(a, e) = old
      BY <1>0, <1>2, <1>3, <1>4, <1>6, <1>o, <1>p
    <2>2. Adds(ls, e, line) = 0
      BY <1>6 DEF Adds
    <2> QED
      BY <1>1, <2>1, <2>2 DEF a
  <1> QED
    BY <1>5, <1>6

\* Where turns end, when a line is read or one more is written.
LEMMA TailEnds ==
  ASSUME NEW S, NEW ls \in Seq(S), ls # <<>>, NEW i \in 1..(Len(ls) - 1)
  PROVE  /\ EndsIn(ls, i + 1) => EndsIn(Tail(ls), i)
         /\ Unfinished(ls, i + 1) => Unfinished(Tail(ls), i)
  <1> DEFINE t == Tail(ls)
             n == Len(ls)
  <1>0. n \in Nat /\ Len(t) = n - 1 /\ \A k \in 1..(n - 1) : t[k] = ls[k + 1]
    BY TailLines
  <1>n. Len(ls) = n /\ i \in 1..(n - 1)
    OBVIOUS
  <1> HIDE DEF t, n
  <1>1. ASSUME EndsIn(ls, i + 1) PROVE EndsIn(t, i)
    <2>1. PICK j \in ((i + 1) + 1)..n : /\ ls[j].kind = "result" /\ ~ls[j].own
                                        /\ \A k \in ((i + 1) + 1)..(j - 1) : ls[k].kind # "result"
      BY <1>1, <1>n DEF EndsIn
    <2>2. j - 1 \in (i + 1)..(n - 1) /\ (j - 1) + 1 = j
      BY <1>0, <1>n, <2>1
    <2>3. t[j - 1].kind = "result" /\ ~t[j - 1].own
      BY <1>0, <1>n, <2>1, <2>2
    <2>4. ASSUME NEW k \in (i + 1)..((j - 1) - 1) PROVE t[k].kind # "result"
      <3>1. k \in 1..(n - 1) /\ k + 1 \in ((i + 1) + 1)..(j - 1)
        BY <1>0, <1>n, <2>1, <2>2, <2>4
      <3> QED
        BY <1>0, <2>1, <3>1
    <2> QED
      BY <1>0, <2>2, <2>3, <2>4 DEF EndsIn
  <1>2. ASSUME Unfinished(ls, i + 1) PROVE Unfinished(t, i)
    <2>1. ASSUME NEW k \in (i + 1)..(n - 1) PROVE t[k].kind # "result"
      <3>1. k \in 1..(n - 1) /\ k + 1 \in ((i + 1) + 1)..n
        BY <1>0, <1>n, <2>1
      <3> QED
        BY <1>0, <1>2, <1>n, <3>1 DEF Unfinished
    <2> QED
      BY <1>0, <2>1 DEF Unfinished
  <1> QED
    BY <1>1, <1>2 DEF t

LEMMA AppendEnds ==
  ASSUME NEW S, NEW ls \in Seq(S), NEW line \in S, NEW i \in 1..Len(ls)
  PROVE  /\ EndsIn(ls, i) => EndsIn(Append(ls, line), i)
         /\ Unfinished(ls, i) /\ line.kind # "result" => Unfinished(Append(ls, line), i)
         /\ Unfinished(ls, i) /\ line.kind = "result" /\ ~line.own => EndsIn(Append(ls, line), i)
  <1> DEFINE a == Append(ls, line)
             n == Len(ls)
  <1>0. n \in Nat /\ Len(a) = n + 1 /\ a[n + 1] = line /\ \A k \in 1..n : a[k] = ls[k]
    BY OneMoreLine
  <1>n. Len(ls) = n /\ i \in 1..n
    OBVIOUS
  <1> HIDE DEF a, n
  <1>1. ASSUME EndsIn(ls, i) PROVE EndsIn(a, i)
    <2>1. PICK j \in (i + 1)..n : /\ ls[j].kind = "result" /\ ~ls[j].own
                                  /\ \A k \in (i + 1)..(j - 1) : ls[k].kind # "result"
      BY <1>1, <1>n DEF EndsIn
    <2>2. j \in (i + 1)..(n + 1) /\ j \in 1..n
      BY <1>0, <1>n, <2>1
    <2>3. \A k \in (i + 1)..(j - 1) : a[k].kind # "result"
      <3> SUFFICES ASSUME NEW k \in (i + 1)..(j - 1) PROVE a[k].kind # "result"
        OBVIOUS
      <3>1. k \in 1..n
        BY <1>0, <1>n, <2>1, <2>2
      <3> QED
        BY <1>0, <2>1, <3>1
    <2>4. a[j].kind = "result" /\ ~a[j].own
      BY <1>0, <2>1, <2>2
    <2> QED
      BY <1>0, <2>2, <2>3, <2>4 DEF EndsIn
  <1>2. ASSUME Unfinished(ls, i), line.kind # "result" PROVE Unfinished(a, i)
    BY <1>0, <1>2, <1>n DEF Unfinished
  <1>3. ASSUME Unfinished(ls, i), line.kind = "result", ~line.own PROVE EndsIn(a, i)
    <2>1. n + 1 \in (i + 1)..(n + 1) /\ a[n + 1].kind = "result" /\ ~a[n + 1].own
      BY <1>0, <1>3, <1>n
    <2>2. \A k \in (i + 1)..((n + 1) - 1) : a[k].kind # "result"
      BY <1>0, <1>3, <1>n DEF Unfinished
    <2> QED
      BY <1>0, <2>1, <2>2 DEF EndsIn
  <1> QED
    BY <1>1, <1>2, <1>3 DEF a

-----------------------------------------------------------------------------

\* What is printed comes last, a line or two of it.
LEMMA PrintedLines ==
  ASSUME NEW S, NEW ls \in Seq(S), NEW x \in S, NEW y \in S
  PROVE  /\ ls \o <<x>> = Append(ls, x)
         /\ ls \o (<<x>> \o <<>>) = Append(ls, x)
         /\ ls \o (<<x>> \o <<y>>) = Append(Append(ls, x), y)
  OBVIOUS

LEMMA TurnLines ==
  /\ \A own \in BOOLEAN : [kind |-> "init", own |-> own] \in TurnLine
  /\ [kind |-> "echo"] \in TurnLine /\ [kind |-> "apierror"] \in TurnLine
  /\ \A own \in BOOLEAN, of \in Int : [kind |-> "result", own |-> own, of |-> of] \in TurnLine
  BY DEF TurnLine

LEMMA KindsOfLines ==
  \A line \in TurnLine : /\ line.kind \in {"init", "echo", "apierror", "result"}
                         /\ line.kind \in {"init", "result"} => line.own \in BOOLEAN
                         /\ line.kind = "result" => line.of \in Int
  BY DEF TurnLine

-----------------------------------------------------------------------------
\* What each line, read or printed, does to the count.
LEMMA CountAfterRead ==
  ASSUME NEW S, NEW ls \in Seq(S), ls # <<>>, NEW e \in BOOLEAN, NEW r \in BOOLEAN,
         NEW n \in Int, NEW w \in Int, NEW u \in Int, Counted(ls, e, r, n, w, u)
  PROVE  Counted(Tail(ls), EchoedAfter(Head(ls), e), r, n, w, u - (IF OwesIn(ls, e, 1) THEN 1 ELSE 0))
  <1> DEFINE t == Tail(ls)
             e2 == EchoedAfter(Head(ls), e)
             o == IF OwesIn(ls, e, 1) THEN 1 ELSE 0
             c == Cardinality(OwedIn(ls, e))
             c2 == Cardinality(OwedIn(t, e2))
             f == IF r /\ FreshIn(ls, e, Len(ls) + 1) THEN 1 ELSE 0
             f2 == IF r /\ FreshIn(t, e2, Len(t) + 1) THEN 1 ELSE 0
  <1>1. c2 = c - o
    BY TailOwed
  <1>2. c \in Nat /\ o \in Int /\ f \in Int
    BY OwedIsFinite
  <1>3. Len(t) + 1 = Len(ls) /\ Len(ls) \in 1..Len(ls)
    BY TailLines
  <1>4. FreshIn(t, e2, Len(ls)) <=> FreshIn(ls, e, Len(ls) + 1)
    BY <1>3, TailFresh, Zenon
  <1>5. f2 = f
    BY <1>3, <1>4, Zenon
  <1>6. n + c + f + w <= u
    BY DEF Counted
  <1>7. (n + c2 + f2 + w <= u - o) => Counted(t, e2, r, n, w, u - o)
    BY DEF Counted
  <1> HIDE DEF c, c2, f, f2, o
  <1>8. n + c2 + f2 + w <= u - o
    BY <1>1, <1>2, <1>5, <1>6
  <1> QED
    BY <1>7, <1>8 DEF o

\* What is owed makes the count positive.
LEMMA OwedIsCounted ==
  ASSUME NEW S, NEW ls \in Seq(S), NEW e \in BOOLEAN, NEW r \in BOOLEAN,
         NEW n \in Nat, NEW w \in Nat, NEW u \in Int, Counted(ls, e, r, n, w, u),
         OwedIn(ls, e) # {} \/ (r /\ FreshIn(ls, e, Len(ls) + 1))
  PROVE  u > 0
  <1> DEFINE c == Cardinality(OwedIn(ls, e))
             f == IF r /\ FreshIn(ls, e, Len(ls) + 1) THEN 1 ELSE 0
  <1>1. c \in Nat /\ IsFiniteSet(OwedIn(ls, e))
    BY OwedIsFinite
  <1>2. OwedIn(ls, e) # {} => c # 0
    BY <1>1, FS_EmptySet
  <1>3. n + c + f + w <= u
    BY DEF Counted
  <1>4. f \in Nat /\ (c # 0 \/ f = 1)
    BY <1>2
  <1> HIDE DEF c, f
  <1> QED
    BY <1>1, <1>3, <1>4

LEMMA CountAfterInit ==
  ASSUME NEW S, NEW ls \in Seq(S), NEW line \in S, line.kind \notin {"echo", "result"},
         NEW e \in BOOLEAN, NEW r \in BOOLEAN, NEW n \in Int, NEW w \in Int, NEW u \in Int,
         Counted(ls, e, r, n, w, u)
  PROVE  Counted(Append(ls, line), e, r, n, w, u)
  <1> DEFINE a == Append(ls, line)
             c == Cardinality(OwedIn(ls, e))
             c2 == Cardinality(OwedIn(a, e))
             f == IF r /\ FreshIn(ls, e, Len(ls) + 1) THEN 1 ELSE 0
             f2 == IF r /\ FreshIn(a, e, Len(a) + 1) THEN 1 ELSE 0
  <1>1. c2 = c + Adds(ls, e, line) /\ Adds(ls, e, line) = 0
    BY AppendOwed DEF Adds
  <1>2. c \in Nat /\ f \in Int
    BY OwedIsFinite
  <1>3. Len(a) + 1 = Len(ls) + 2
    BY OneMoreLine
  <1>4. FreshIn(a, e, Len(ls) + 2) <=> FreshIn(ls, e, Len(ls) + 1)
    BY AppendFresh
  <1>5. f2 = f
    BY <1>3, <1>4, Zenon
  <1>6. n + c + f + w <= u
    BY DEF Counted
  <1>7. (n + c2 + f2 + w <= u) => Counted(a, e, r, n, w, u)
    BY DEF Counted
  <1> HIDE DEF c, c2, f, f2
  <1>8. n + c2 + f2 + w <= u
    BY <1>1, <1>2, <1>5, <1>6
  <1> QED
    BY <1>7, <1>8

\* A message whose turn starts, or that is folded into one, leaves the inbox for the lines.
LEMMA CountAfterStart ==
  ASSUME NEW S, NEW ls \in Seq(S), NEW e \in BOOLEAN, NEW n \in Int, NEW w \in Int, NEW u \in Int,
         Counted(ls, e, FALSE, n, w, u)
  PROVE  Counted(ls, e, TRUE, n - 1, w, u)
  <1> DEFINE c == Cardinality(OwedIn(ls, e))
             f2 == IF TRUE /\ FreshIn(ls, e, Len(ls) + 1) THEN 1 ELSE 0
  <1>1. c \in Nat /\ f2 \in 0..1
    BY OwedIsFinite
  <1>2. n + c + 0 + w <= u
    BY DEF Counted
  <1>3. (n - 1) + c + f2 + w <= u => Counted(ls, e, TRUE, n - 1, w, u)
    BY DEF Counted
  <1> HIDE DEF c, f2
  <1>4. (n - 1) + c + f2 + w <= u
    BY <1>1, <1>2
  <1> QED
    BY <1>3, <1>4

LEMMA CountAfterEcho ==
  ASSUME NEW S, NEW ls \in Seq(S), NEW line \in S, line.kind = "echo",
         NEW e \in BOOLEAN, NEW r \in BOOLEAN, NEW r2 \in BOOLEAN,
         NEW n \in Int, NEW w \in Int, NEW u \in Int, Counted(ls, e, r, n, w, u)
  PROVE  Counted(Append(ls, line), e, r2, n - 1, w, u)
  <1> DEFINE a == Append(ls, line)
             c == Cardinality(OwedIn(ls, e))
             c2 == Cardinality(OwedIn(a, e))
             f == IF r /\ FreshIn(ls, e, Len(ls) + 1) THEN 1 ELSE 0
             f2 == IF r2 /\ FreshIn(a, e, Len(a) + 1) THEN 1 ELSE 0
  <1>1. c2 = c + Adds(ls, e, line) /\ Adds(ls, e, line) = 1
    BY AppendOwed DEF Adds
  <1>2. c \in Nat /\ f \in 0..1
    BY OwedIsFinite
  <1>3. Len(a) + 1 = Len(ls) + 2
    BY OneMoreLine
  <1>4. ~FreshIn(a, e, Len(ls) + 2)
    BY AppendFresh
  <1>5. f2 = 0
    BY <1>3, <1>4, Zenon
  <1>6. n + c + f + w <= u
    BY DEF Counted
  <1>7. ((n - 1) + c2 + f2 + w <= u) => Counted(a, e, r2, n - 1, w, u)
    BY DEF Counted
  <1> HIDE DEF c, c2, f, f2
  <1>8. (n - 1) + c2 + f2 + w <= u
    BY <1>1, <1>2, <1>5, <1>6
  <1> QED
    BY <1>7, <1>8

LEMMA CountAfterResult ==
  ASSUME NEW S, NEW ls \in Seq(S), NEW line \in S, line.kind = "result",
         NEW e \in BOOLEAN, NEW r \in BOOLEAN, line.own = ~r,
         NEW n \in Int, NEW w \in Int, NEW u \in Int, Counted(ls, e, r, n, w, u)
  PROVE  Counted(Append(ls, line), e, FALSE, n, w, u)
  <1> DEFINE a == Append(ls, line)
             c == Cardinality(OwedIn(ls, e))
             c2 == Cardinality(OwedIn(a, e))
             f == IF r /\ FreshIn(ls, e, Len(ls) + 1) THEN 1 ELSE 0
  <1>1. c2 = c + Adds(ls, e, line)
    BY AppendOwed
  <1>2. Adds(ls, e, line) = f
    BY DEF Adds
  <1>3. c \in Nat /\ f \in 0..1
    BY OwedIsFinite
  <1>6. n + c + f + w <= u
    BY DEF Counted
  <1>7. (n + c2 + 0 + w <= u) => Counted(a, e, FALSE, n, w, u)
    BY DEF Counted
  <1> HIDE DEF c, c2, f
  <1>8. n + c2 + 0 + w <= u
    BY <1>1, <1>2, <1>3, <1>6
  <1> QED
    BY <1>7, <1>8

\* What each line does to the turns.
LEMMA EndsAfterRead ==
  ASSUME NEW S, NEW ls \in Seq(S), ls # <<>>, NEW r \in BOOLEAN, TurnsEndIn(ls, r)
  PROVE  TurnsEndIn(Tail(ls), r)
  <1> SUFFICES ASSUME NEW i \in 1..Len(Tail(ls)), OfCaller(Tail(ls)[i])
               PROVE  EndsIn(Tail(ls), i) \/ (r /\ Unfinished(Tail(ls), i))
    BY DEF TurnsEndIn
  <1>1. i \in 1..(Len(ls) - 1) /\ i + 1 \in 1..Len(ls) /\ Tail(ls)[i] = ls[i + 1]
    BY TailLines
  <1>2. EndsIn(ls, i + 1) \/ (r /\ Unfinished(ls, i + 1))
    BY <1>1 DEF TurnsEndIn
  <1> QED
    BY <1>1, <1>2, TailEnds

LEMMA EndsAfterLine ==
  ASSUME NEW S, NEW ls \in Seq(S), NEW line \in S, line.kind # "result",
         NEW r \in BOOLEAN, NEW r2 \in BOOLEAN, r => r2, OfCaller(line) => r2, TurnsEndIn(ls, r)
  PROVE  TurnsEndIn(Append(ls, line), r2)
  <1> DEFINE a == Append(ls, line)
  <1>0. Len(ls) \in Nat /\ Len(a) = Len(ls) + 1 /\ a[Len(ls) + 1] = line
        /\ \A i \in 1..Len(ls) : a[i] = ls[i]
    BY OneMoreLine
  <1> HIDE DEF a
  <1> SUFFICES ASSUME NEW i \in 1..(Len(ls) + 1), OfCaller(a[i])
               PROVE  EndsIn(a, i) \/ (r2 /\ Unfinished(a, i))
    BY <1>0 DEF TurnsEndIn, a
  <1>1. CASE i = Len(ls) + 1
    BY <1>0, <1>1 DEF Unfinished
  <1>2. CASE i # Len(ls) + 1
    <2>1. i \in 1..Len(ls) /\ OfCaller(ls[i])
      BY <1>0, <1>2
    <2>2. EndsIn(ls, i) \/ (r /\ Unfinished(ls, i))
      BY <2>1 DEF TurnsEndIn
    <2> QED
      BY <2>1, <2>2, AppendEnds DEF a
  <1> QED
    BY <1>1, <1>2

LEMMA EndsAfterResult ==
  ASSUME NEW S, NEW ls \in Seq(S), NEW line \in S, line.kind = "result",
         NEW r \in BOOLEAN, line.own = ~r, TurnsEndIn(ls, r)
  PROVE  TurnsEndIn(Append(ls, line), FALSE)
  <1> DEFINE a == Append(ls, line)
  <1>0. Len(ls) \in Nat /\ Len(a) = Len(ls) + 1 /\ a[Len(ls) + 1] = line
        /\ \A i \in 1..Len(ls) : a[i] = ls[i]
    BY OneMoreLine
  <1> HIDE DEF a
  <1> SUFFICES ASSUME NEW i \in 1..(Len(ls) + 1), OfCaller(a[i])
               PROVE  EndsIn(a, i)
    BY <1>0 DEF TurnsEndIn, a
  <1>1. i \in 1..Len(ls) /\ OfCaller(ls[i])
    BY <1>0 DEF OfCaller
  <1>2. EndsIn(ls, i) \/ (r /\ Unfinished(ls, i))
    BY <1>1 DEF TurnsEndIn
  <1> QED
    BY <1>1, <1>2, AppendEnds DEF a

\* An init of a caller's that was not echoed yet owes what its turn will be read with: an
\* echo, or a result without one.
LEMMA CallerInitOwes ==
  ASSUME NEW S, NEW ls \in Seq(S), ls # <<>>, ls[1].kind = "init",
         NEW r \in BOOLEAN, EndsIn(ls, 1) \/ (r /\ Unfinished(ls, 1))
  PROVE  OwedIn(ls, FALSE) # {} \/ (r /\ FreshIn(ls, FALSE, Len(ls) + 1))
  <1> DEFINE n == Len(ls)
  <1>0. n \in Nat /\ n >= 1
    BY TailLines
  <1> HIDE DEF n
  <1>1. CASE \E k \in 1..n : ls[k].kind = "echo"
    BY <1>1 DEF OwedIn, OwesIn, n
  <1>2. CASE ~ \E k \in 1..n : ls[k].kind = "echo"
    <2>1. \A j \in 1..(n + 1) : FreshIn(ls, FALSE, j)
      BY <1>0, <1>2 DEF FreshIn
    <2>2. CASE EndsIn(ls, 1)
      <3>1. PICK j \in 2..n : ls[j].kind = "result" /\ ~ls[j].own
        BY <2>2 DEF EndsIn, n
      <3>2. j \in 1..n /\ j \in 1..(n + 1)
        BY <1>0, <3>1
      <3>3. OwesIn(ls, FALSE, j)
        BY <2>1, <3>1, <3>2 DEF OwesIn
      <3> QED
        BY <3>2, <3>3 DEF OwedIn, n
    <2>3. CASE r /\ Unfinished(ls, 1)
      <3>1. n + 1 \in 1..(n + 1)
        BY <1>0
      <3>2. FreshIn(ls, FALSE, n + 1)
        BY <2>1, <3>1
      <3> QED
        BY <2>3, <3>2 DEF n
    <2> QED
      BY <2>2, <2>3
  <1> QED
    BY <1>1, <1>2

-----------------------------------------------------------------------------
LEMMA TurnsInitHolds == TurnsInit => TurnsInv
  <1> SUFFICES ASSUME TurnsInit PROVE TurnsInv
    OBVIOUS
  <1>1. <<>> \in Seq([q : Int, slash : BOOLEAN]) /\ <<>> \in Seq(TurnLine) /\ Len(<<>>) = 0
    OBVIOUS
  <1>2. TurnTypes
    <2>1. inbox \in Seq([q : Int, slash : BOOLEAN]) /\ lines \in Seq(TurnLine)
      BY <1>1 DEF TurnsInit
    <2>2. running \in [kind : {"none", "caller", "own"}, of : Int, failed : BOOLEAN]
      BY DEF TurnsInit, NoTurnRuns
    <2>3. asked = 0 /\ unread = 0 /\ turnEchoed = FALSE /\ stdinBroken = FALSE
      BY DEF TurnsInit
    <2>6. asked \in Int /\ unread \in Int
      BY <2>3
    <2>7. turnEchoed \in BOOLEAN /\ stdinBroken \in BOOLEAN
      BY <2>3
    <2>4. message \in [TurnCaller -> Int]
      BY DEF TurnsInit
    <2>5. step \in [TurnCaller -> {"free", "counts", "writes", "retracts", "waits"}]
      BY DEF TurnsInit
    <2> QED
      BY <2>1, <2>2, <2>4, <2>5, <2>6, <2>7, Zenon DEF TurnTypes
  <1>3. CallerTurnsEnd
    BY <1>1 DEF TurnsInit, CallerTurnsEnd, TurnsEndIn
  <1>4. Writers = {}
    BY DEF TurnsInit, Writers
  <1>5. OwedIn(lines, turnEchoed) = {}
    BY <1>1 DEF TurnsInit, OwedIn
  <1>6. IsFiniteSet({}) /\ Cardinality({}) = 0
    BY FS_EmptySet
  <1>7. Counted(lines, turnEchoed, running.kind = "caller", Len(inbox), Cardinality(Writers), unread)
    <2>1. running.kind # "caller" /\ Len(inbox) = 0 /\ unread = 0
      BY <1>1 DEF TurnsInit, NoTurnRuns
    <2> QED
      BY <1>4, <1>5, <1>6, <2>1 DEF Counted
  <1>8. MessagesAreCounted
    BY <1>4, <1>6, <1>7 DEF MessagesAreCounted, TurnsInit
  <1>9. UnsolicitedIsTrue
    BY DEF TurnsInit, UnsolicitedIsTrue
  <1> QED
    BY <1>2, <1>3, <1>8, <1>9 DEF TurnsInv

\* The messages that wait for the CLI.
LEMMA InboxHead ==
  ASSUME TurnTypes, inbox # <<>>
  PROVE  /\ Head(inbox).slash \in BOOLEAN /\ Head(inbox).q \in Int
         /\ Tail(inbox) \in Seq([q : Int, slash : BOOLEAN]) /\ Len(Tail(inbox)) = Len(inbox) - 1
         /\ Len(inbox) \in Nat
  <1>0. inbox \in Seq([q : Int, slash : BOOLEAN])
    BY DEF TurnTypes
  <1>1. Head(inbox) \in [q : Int, slash : BOOLEAN]
    BY <1>0, TailLines, Zenon
  <1> QED
    BY <1>0, <1>1

LEMMA WritersCounted ==
  ASSUME TurnTypes, MessagesAreCounted, ~stdinBroken
  PROVE  /\ IsFiniteSet(Writers) /\ Cardinality(Writers) \in Nat /\ Len(inbox) \in Nat
         /\ lines \in Seq(TurnLine) /\ turnEchoed \in BOOLEAN /\ unread \in Int
  BY FS_CardinalityType DEF TurnTypes, MessagesAreCounted

LEMMA TurnForMessageKeeps ==
  ASSUME TurnsInv, TurnForMessage PROVE TurnsInv'
  <1> DEFINE init == [kind |-> "init", own |-> FALSE]
             echo == [kind |-> "echo"]
             a == Append(lines, init)
  <1> USE DEF TurnsInv
  <1>1. /\ init \in TurnLine /\ echo \in TurnLine /\ init.kind = "init" /\ ~init.own /\ echo.kind = "echo"
        /\ init.kind \notin {"echo", "result"}
    BY TurnLines
  <1>b. TRUE \in BOOLEAN /\ FALSE \in BOOLEAN
    OBVIOUS
  <1>2. lines \in Seq(TurnLine) /\ turnEchoed \in BOOLEAN /\ inbox # <<>> /\ running.kind = "none"
    BY DEF TurnTypes, TurnForMessage
  <1>3. lines' = IF Head(inbox).slash THEN a ELSE Append(a, echo)
    <2>1. lines' = lines \o (<<init>> \o Echo(Head(inbox)))
      BY DEF TurnForMessage, Prints
    <2>2. CASE Head(inbox).slash
      BY <1>1, <1>2, <2>1, <2>2, PrintedLines DEF Echo
    <2>3. CASE ~Head(inbox).slash
      <3>1. lines' = lines \o (<<init>> \o <<echo>>)
        BY <2>1, <2>3, Zenon DEF Echo
      <3> HIDE DEF init, echo
      <3>2. lines \o (<<init>> \o <<echo>>) = Append(Append(lines, init), echo)
        BY <1>1, <1>2, PrintedLines
      <3> QED
        BY <2>3, <3>1, <3>2, Zenon
    <2> QED
      BY <2>2, <2>3
  <1>4. a \in Seq(TurnLine)
    BY <1>1, <1>2, OneMoreLine
  <1>u. UNCHANGED <<asked, message, unread, turnEchoed, stdinBroken, step, flagged>>
    BY DEF TurnForMessage, stateVars, countVars, turnCalls
  <1>r. running' = [kind |-> "caller", of |-> Head(inbox).q, failed |-> FALSE] /\ inbox' = Tail(inbox)
    BY DEF TurnForMessage
  <1> HIDE DEF init, echo, a
  <1>5. lines' \in Seq(TurnLine)
    BY <1>1, <1>3, <1>4, OneMoreLine
  <1>6. TurnTypes'
    BY <1>2, <1>5, <1>r, <1>u, InboxHead DEF TurnTypes
  <1>7. CallerTurnsEnd'
    <2>1. TurnsEndIn(lines, FALSE)
      BY <1>2 DEF CallerTurnsEnd
    <2>2. TurnsEndIn(a, TRUE)
      BY <1>1, <1>2, <2>1, EndsAfterLine DEF a
    <2>3. TurnsEndIn(Append(a, echo), TRUE)
      BY <1>1, <1>4, <2>2, EndsAfterLine
    <2>4. TurnsEndIn(lines', TRUE)
      BY <1>3, <2>2, <2>3
    <2> QED
      BY <1>r, <2>4 DEF CallerTurnsEnd
  <1>8. MessagesAreCounted'
    <2> SUFFICES ASSUME ~stdinBroken PROVE MessagesAreCounted'
      BY <1>u DEF MessagesAreCounted
    <2> DEFINE w == Cardinality(Writers)
               n == Len(inbox)
    <2>1. w \in Int /\ n \in Int /\ n - 1 \in Int /\ n - 1 = Len(inbox') /\ unread \in Int
      BY <1>2, <1>r, InboxHead, WritersCounted
    <2>2. Counted(lines, turnEchoed, FALSE, n, w, unread)
      BY <1>2 DEF MessagesAreCounted
    <2>3. Writers' = Writers
      BY <1>u DEF Writers
    <2> HIDE DEF w, n
    <2>4. Counted(lines, turnEchoed, TRUE, n - 1, w, unread)
      BY <1>b, <1>2, <2>1, <2>2, CountAfterStart, Zenon
    <2>5. Counted(a, turnEchoed, TRUE, n - 1, w, unread)
      BY <1>b, <1>1, <1>2, <2>1, <2>4, CountAfterInit, Zenon DEF a
    <2>6. Counted(a, turnEchoed, FALSE, n, w, unread)
      BY <1>b, <1>1, <1>2, <2>1, <2>2, CountAfterInit, Zenon DEF a
    <2> DEFINE yes == TRUE
               no == FALSE
    <2>b. yes \in BOOLEAN /\ no \in BOOLEAN /\ Counted(a, turnEchoed, no, n, w, unread)
      BY <1>b, <2>6, Zenon
    <2>7. Counted(Append(a, echo), turnEchoed, yes, n - 1, w, unread)
      <3> HIDE DEF yes, no
      <3> QED
        BY <1>1, <1>2, <1>4, <2>1, <2>b, CountAfterEcho
    <2>8. Counted(lines', turnEchoed, TRUE, n - 1, w, unread)
      BY <1>3, <2>5, <2>7, Zenon
    <2>9. running'.kind = "caller"
      BY <1>r
    <2> QED
      BY <1>u, <2>1, <2>3, <2>8, <2>9 DEF MessagesAreCounted, w
  <1>9. UnsolicitedIsTrue'
    BY <1>u DEF UnsolicitedIsTrue
  <1> QED
    BY <1>6, <1>7, <1>8, <1>9

LEMMA TurnOfItsOwnKeeps ==
  ASSUME TurnsInv, TurnOfItsOwn PROVE TurnsInv'
  <1> DEFINE init == [kind |-> "init", own |-> TRUE]
  <1> USE DEF TurnsInv
  <1>1. init \in TurnLine /\ init.kind = "init" /\ init.own /\ init.kind \notin {"echo", "result"}
    BY TurnLines
  <1>b. FALSE \in BOOLEAN
    OBVIOUS
  <1>2. lines \in Seq(TurnLine) /\ turnEchoed \in BOOLEAN /\ running.kind = "none"
    BY DEF TurnTypes, TurnOfItsOwn
  <1>3. lines' = Append(lines, init)
    BY <1>1, <1>2, PrintedLines DEF TurnOfItsOwn, Prints
  <1>u. UNCHANGED <<inbox, asked, message, unread, turnEchoed, stdinBroken, step, flagged>>
    BY DEF TurnOfItsOwn, stateVars, countVars, turnCalls
  <1>r. running' = [kind |-> "own", of |-> 0, failed |-> FALSE]
    BY DEF TurnOfItsOwn
  <1> HIDE DEF init
  <1>5. lines' \in Seq(TurnLine)
    BY <1>1, <1>2, <1>3, OneMoreLine
  <1>6. TurnTypes'
    BY <1>5, <1>r, <1>u DEF TurnTypes
  <1>7. CallerTurnsEnd'
    <2>1. TurnsEndIn(lines, FALSE)
      BY <1>2 DEF CallerTurnsEnd
    <2>2. TurnsEndIn(lines', FALSE)
      BY <1>1, <1>2, <1>3, <2>1, EndsAfterLine DEF OfCaller
    <2> QED
      BY <1>r, <2>2 DEF CallerTurnsEnd
  <1>8. MessagesAreCounted'
    <2> SUFFICES ASSUME ~stdinBroken PROVE MessagesAreCounted'
      BY <1>u DEF MessagesAreCounted
    <2> DEFINE w == Cardinality(Writers)
               n == Len(inbox)
    <2>1. w \in Int /\ n \in Int /\ unread \in Int
      BY WritersCounted
    <2>2. Counted(lines, turnEchoed, FALSE, n, w, unread)
      BY <1>2 DEF MessagesAreCounted
    <2>3. Writers' = Writers
      BY <1>u DEF Writers
    <2> HIDE DEF w, n
    <2>4. Counted(lines', turnEchoed, FALSE, n, w, unread)
      BY <1>b, <1>1, <1>2, <1>3, <2>1, <2>2, CountAfterInit, Zenon
    <2>5. running'.kind # "caller"
      BY <1>r
    <2> QED
      BY <1>u, <2>3, <2>4, <2>5 DEF MessagesAreCounted, w, n
  <1>9. UnsolicitedIsTrue'
    BY <1>u DEF UnsolicitedIsTrue
  <1> QED
    BY <1>6, <1>7, <1>8, <1>9

LEMMA MessageFoldedKeeps ==
  ASSUME TurnsInv, MessageFolded PROVE TurnsInv'
  <1> DEFINE echo == [kind |-> "echo"]
  <1> USE DEF TurnsInv
  <1>1. echo \in TurnLine /\ echo.kind = "echo" /\ echo.kind # "result" /\ ~OfCaller(echo)
    BY TurnLines DEF OfCaller
  <1>2. lines \in Seq(TurnLine) /\ turnEchoed \in BOOLEAN /\ inbox # <<>>
    BY DEF TurnTypes, MessageFolded
  <1>3. lines' = Append(lines, echo)
    <2>1. lines' = lines \o <<echo>>
      BY DEF MessageFolded, Prints, Echo
    <2> HIDE DEF echo
    <2> QED
      BY <1>1, <1>2, <2>1, PrintedLines
  <1>u. UNCHANGED <<asked, message, unread, turnEchoed, stdinBroken, step, flagged>>
    BY DEF MessageFolded, stateVars, countVars, turnCalls
  <1>r. /\ running' = [running EXCEPT !.of = IF Head(inbox).q = 0 THEN @ ELSE Head(inbox).q]
        /\ inbox' = Tail(inbox)
    BY DEF MessageFolded
  <1>k. running'.kind = running.kind /\ running' \in [kind : {"none", "caller", "own"}, of : Int, failed : BOOLEAN]
    BY <1>2, <1>r, InboxHead DEF TurnTypes
  <1> DEFINE r == running.kind = "caller"
  <1>b. r \in BOOLEAN
    OBVIOUS
  <1> HIDE DEF echo, r
  <1>5. lines' \in Seq(TurnLine)
    BY <1>1, <1>2, <1>3, OneMoreLine
  <1>6. TurnTypes'
    BY <1>2, <1>5, <1>k, <1>r, <1>u, InboxHead DEF TurnTypes
  <1>7. CallerTurnsEnd'
    <2>1. TurnsEndIn(lines, r)
      BY DEF CallerTurnsEnd, r
    <2>2. TurnsEndIn(lines', r)
      BY <1>1, <1>2, <1>3, <1>b, <2>1, EndsAfterLine, Zenon
    <2> QED
      BY <1>k, <2>2, Zenon DEF CallerTurnsEnd, r
  <1>8. MessagesAreCounted'
    <2> SUFFICES ASSUME ~stdinBroken PROVE MessagesAreCounted'
      BY <1>u DEF MessagesAreCounted
    <2> DEFINE w == Cardinality(Writers)
               n == Len(inbox)
    <2>1. w \in Int /\ n \in Int /\ n - 1 \in Int /\ n - 1 = Len(inbox') /\ unread \in Int
      BY <1>2, <1>r, InboxHead, WritersCounted
    <2>2. Counted(lines, turnEchoed, r, n, w, unread)
      BY DEF MessagesAreCounted, r
    <2>3. Writers' = Writers
      BY <1>u DEF Writers
    <2> HIDE DEF w, n
    <2>4. Counted(lines', turnEchoed, r, n - 1, w, unread)
      BY <1>1, <1>2, <1>3, <1>b, <2>1, <2>2, CountAfterEcho
    <2>5. Counted(lines', turnEchoed', running'.kind = "caller", Len(inbox'), Cardinality(Writers'), unread')
      BY <1>k, <1>u, <2>1, <2>3, <2>4, Zenon DEF w, r
    <2> QED
      BY <1>u, <2>3, <2>5 DEF MessagesAreCounted
  <1>9. UnsolicitedIsTrue'
    BY <1>u DEF UnsolicitedIsTrue
  <1> QED
    BY <1>6, <1>7, <1>8, <1>9

LEMMA TurnFailsKeeps ==
  ASSUME TurnsInv, TurnFails PROVE TurnsInv'
  <1> DEFINE line == [kind |-> "apierror"]
  <1> USE DEF TurnsInv
  <1>1. line \in TurnLine /\ line.kind \notin {"echo", "result"} /\ line.kind # "result" /\ ~OfCaller(line)
    BY TurnLines DEF OfCaller
  <1>2. lines \in Seq(TurnLine) /\ turnEchoed \in BOOLEAN
    BY DEF TurnTypes
  <1>3. lines' = Append(lines, line)
    BY <1>1, <1>2, PrintedLines DEF TurnFails, Prints
  <1>u. UNCHANGED <<inbox, asked, message, unread, turnEchoed, stdinBroken, step, flagged>>
    BY DEF TurnFails, stateVars, countVars, turnCalls
  <1>k. running'.kind = running.kind /\ running' \in [kind : {"none", "caller", "own"}, of : Int, failed : BOOLEAN]
    BY DEF TurnTypes, TurnFails
  <1> DEFINE r == running.kind = "caller"
  <1>b. r \in BOOLEAN
    OBVIOUS
  <1> HIDE DEF line, r
  <1>5. lines' \in Seq(TurnLine)
    BY <1>1, <1>2, <1>3, OneMoreLine
  <1>6. TurnTypes'
    BY <1>5, <1>k, <1>u DEF TurnTypes
  <1>7. CallerTurnsEnd'
    <2>1. TurnsEndIn(lines, r)
      BY DEF CallerTurnsEnd, r
    <2>2. TurnsEndIn(lines', r)
      BY <1>1, <1>2, <1>3, <1>b, <2>1, EndsAfterLine, Zenon
    <2> QED
      BY <1>k, <2>2, Zenon DEF CallerTurnsEnd, r
  <1>8. MessagesAreCounted'
    <2> SUFFICES ASSUME ~stdinBroken PROVE MessagesAreCounted'
      BY <1>u DEF MessagesAreCounted
    <2> DEFINE w == Cardinality(Writers)
               n == Len(inbox)
    <2>1. w \in Int /\ n \in Int /\ unread \in Int
      BY WritersCounted
    <2>2. Counted(lines, turnEchoed, r, n, w, unread)
      BY DEF MessagesAreCounted, r
    <2>3. Writers' = Writers
      BY <1>u DEF Writers
    <2> HIDE DEF w, n
    <2>4. Counted(lines', turnEchoed, r, n, w, unread)
      BY <1>1, <1>2, <1>3, <1>b, <2>1, <2>2, CountAfterInit, Zenon
    <2>5. Counted(lines', turnEchoed', running'.kind = "caller", Len(inbox'), Cardinality(Writers'), unread')
      BY <1>k, <1>u, <2>3, <2>4, Zenon DEF w, n, r
    <2> QED
      BY <1>u, <2>3, <2>5 DEF MessagesAreCounted
  <1>9. UnsolicitedIsTrue'
    BY <1>u DEF UnsolicitedIsTrue
  <1> QED
    BY <1>6, <1>7, <1>8, <1>9

LEMMA TurnEndsKeeps ==
  ASSUME TurnsInv, TurnEnds PROVE TurnsInv'
  <1> DEFINE r == running.kind = "caller"
             line == [kind |-> "result", own |-> running.kind = "own",
                      of |-> IF running.of = 0 THEN OtherResult ELSE running.of]
  <1> USE DEF TurnsInv
  <1>0. OtherResult \in Int
    BY TurnsAssumption DEF TurnsAssumption, OtherResult
  <1>1. line \in TurnLine /\ line.kind = "result" /\ line.own = ~r
    <2>1. running.of \in Int /\ running.kind \in {"caller", "own"}
      BY DEF TurnTypes, TurnEnds
    <2>2. line.own = ~r /\ line.kind = "result"
      BY <2>1
    <2>3. (IF running.of = 0 THEN OtherResult ELSE running.of) \in Int
      BY <1>0, <2>1
    <2> QED
      BY <2>2, <2>3, TurnLines
  <1>2. lines \in Seq(TurnLine) /\ turnEchoed \in BOOLEAN
    BY DEF TurnTypes
  <1>3. lines' = Append(lines, line)
    <2>1. lines' = lines \o <<line>>
      BY DEF TurnEnds, Prints
    <2> HIDE DEF line
    <2> QED
      BY <1>1, <1>2, <2>1, PrintedLines
  <1>u. UNCHANGED <<inbox, asked, message, unread, turnEchoed, stdinBroken, step, flagged>>
    BY DEF TurnEnds, stateVars, countVars, turnCalls
  <1>k. running'.kind # "caller" /\ running' \in [kind : {"none", "caller", "own"}, of : Int, failed : BOOLEAN]
    BY DEF TurnEnds, NoTurnRuns
  <1>b. r \in BOOLEAN /\ (running'.kind = "caller") = FALSE
    BY <1>k
  <1> HIDE DEF line
  <1>5. lines' \in Seq(TurnLine)
    BY <1>1, <1>2, <1>3, OneMoreLine
  <1>6. TurnTypes'
    BY <1>5, <1>k, <1>u DEF TurnTypes
  <1>7. CallerTurnsEnd'
    <2>1. TurnsEndIn(lines, r)
      BY DEF CallerTurnsEnd
    <2> HIDE DEF r
    <2>2. TurnsEndIn(lines', FALSE)
      BY <1>1, <1>2, <1>3, <1>b, <2>1, EndsAfterResult, Zenon
    <2> QED
      BY <1>b, <2>2, Zenon DEF CallerTurnsEnd
  <1>8. MessagesAreCounted'
    <2> SUFFICES ASSUME ~stdinBroken PROVE MessagesAreCounted'
      BY <1>u DEF MessagesAreCounted
    <2> DEFINE w == Cardinality(Writers)
               n == Len(inbox)
    <2>1. w \in Int /\ n \in Int /\ unread \in Int
      BY WritersCounted
    <2>2. Counted(lines, turnEchoed, r, n, w, unread)
      BY DEF MessagesAreCounted
    <2>3. Writers' = Writers
      BY <1>u DEF Writers
    <2> HIDE DEF w, n, r
    <2>4. Counted(lines', turnEchoed, FALSE, n, w, unread)
      BY <1>1, <1>2, <1>3, <1>b, <2>1, <2>2, CountAfterResult, Zenon
    <2>5. Counted(lines', turnEchoed', running'.kind = "caller", Len(inbox'), Cardinality(Writers'), unread')
      BY <1>b, <1>u, <2>3, <2>4, Zenon DEF w, n
    <2> QED
      BY <1>u, <2>3, <2>5 DEF MessagesAreCounted
  <1>9. UnsolicitedIsTrue'
    BY <1>u DEF UnsolicitedIsTrue
  <1> QED
    BY <1>6, <1>7, <1>8, <1>9

-----------------------------------------------------------------------------
\* A line is read: the count loses what the line owed, or the input is broken.
LEMMA LineReadKeeps ==
  ASSUME TurnsInv, lines # <<>>, lines' = Tail(lines),
         turnEchoed' = EchoedAfter(Head(lines), turnEchoed),
         ~stdinBroken => unread' = unread - (IF OwesIn(lines, turnEchoed, 1) THEN 1 ELSE 0),
         unread' \in Int, asked' \in Int,
         UNCHANGED <<inbox, running, message, stdinBroken, step>>, UnsolicitedIsTrue'
  PROVE  TurnsInv'
  <1> USE DEF TurnsInv
  <1>1. lines \in Seq(TurnLine) /\ turnEchoed \in BOOLEAN
    BY DEF TurnTypes
  <1>2. lines' \in Seq(TurnLine)
    BY <1>1, TailLines, Zenon
  <1>3. turnEchoed' \in BOOLEAN
    BY <1>1 DEF EchoedAfter
  <1>4. TurnTypes'
    BY <1>2, <1>3 DEF TurnTypes
  <1> DEFINE r == running.kind = "caller"
  <1>b. r \in BOOLEAN
    OBVIOUS
  <1>5. CallerTurnsEnd'
    <2>1. TurnsEndIn(lines, r)
      BY DEF CallerTurnsEnd
    <2> HIDE DEF r
    <2>2. TurnsEndIn(lines', r)
      BY <1>1, <1>b, <2>1, EndsAfterRead, Zenon
    <2> QED
      BY <2>2, Zenon DEF CallerTurnsEnd, r
  <1>6. MessagesAreCounted'
    <2> SUFFICES ASSUME ~stdinBroken PROVE MessagesAreCounted'
      BY DEF MessagesAreCounted
    <2> DEFINE w == Cardinality(Writers)
               n == Len(inbox)
               o == IF OwesIn(lines, turnEchoed, 1) THEN 1 ELSE 0
    <2>1. w \in Int /\ n \in Int /\ unread \in Int
      BY WritersCounted
    <2>2. Counted(lines, turnEchoed, r, n, w, unread)
      BY DEF MessagesAreCounted
    <2>3. Writers' = Writers
      BY DEF Writers
    <2> HIDE DEF w, n, r
    <2>4. Counted(lines', turnEchoed', r, n, w, unread - o)
      BY <1>1, <1>b, <2>1, <2>2, CountAfterRead, Zenon
    <2>5. Counted(lines', turnEchoed', running'.kind = "caller", Len(inbox'), Cardinality(Writers'), unread')
      BY <2>3, <2>4, Zenon DEF w, n, r
    <2> QED
      BY <2>3, <2>5 DEF MessagesAreCounted
  <1> QED
    BY <1>4, <1>5, <1>6

\* What the first line owes is in the count.
LEMMA FirstLineIsCounted ==
  ASSUME TurnsInv, lines # <<>>, OwesIn(lines, turnEchoed, 1), ~stdinBroken
  PROVE  unread > 0
  <1> USE DEF TurnsInv
  <1>1. /\ Cardinality(Writers) \in Nat /\ Len(inbox) \in Nat
        /\ lines \in Seq(TurnLine) /\ turnEchoed \in BOOLEAN /\ unread \in Int
    BY WritersCounted
  <1>2. 1 \in OwedIn(lines, turnEchoed)
    <2>1. 1 \in 1..Len(lines)
      BY <1>1, TailLines
    <2> QED
      BY <2>1 DEF OwedIn
  <1>3. (running.kind = "caller") \in BOOLEAN
    OBVIOUS
  <1>4. Counted(lines, turnEchoed, running.kind = "caller", Len(inbox), Cardinality(Writers), unread)
    BY DEF MessagesAreCounted
  <1>5. OwedIn(lines, turnEchoed) # {}
    BY <1>2
  <1> QED
    BY <1>1, <1>3, <1>4, <1>5, OwedIsCounted, Zenon

LEMMA NextLineRead ==
  ASSUME NEW kind, NextLine(kind), TurnTypes
  PROVE  lines # <<>> /\ Head(lines) = lines[1] /\ Head(lines) \in TurnLine
         /\ lines[1].kind = kind /\ lines' = Tail(lines)
  <1>1. lines \in Seq(TurnLine) /\ lines # <<>>
    BY DEF TurnTypes, NextLine
  <1>2. Head(lines) = lines[1] /\ Head(lines) \in TurnLine
    BY <1>1, TailLines
  <1> QED
    BY <1>1, <1>2 DEF NextLine

LEMMA ReadInitKeeps ==
  ASSUME TurnsInv, ReadInit PROVE TurnsInv'
  <1> USE DEF TurnsInv
  <1>1. /\ lines # <<>> /\ Head(lines) = lines[1] /\ Head(lines) \in TurnLine
        /\ lines[1].kind = "init" /\ lines' = Tail(lines)
    BY NextLineRead DEF ReadInit
  <1>u. UNCHANGED <<inbox, running, asked, message, unread, turnEchoed, stdinBroken, step>>
    BY DEF ReadInit, stateVars, countVars, turnCalls
  <1>2. turnEchoed' = EchoedAfter(Head(lines), turnEchoed) /\ ~OwesIn(lines, turnEchoed, 1)
    BY <1>1, <1>u DEF EchoedAfter, OwesIn
  <1>3. UnsolicitedIsTrue'
    <2> SUFFICES ASSUME FALSE \in flagged', ~stdinBroken PROVE FALSE
      BY <1>u DEF UnsolicitedIsTrue
    <2>1. unread = 0 /\ ~turnEchoed /\ ~lines[1].own
      BY <1>1 DEF ReadInit
    <2>2. /\ Cardinality(Writers) \in Nat /\ Len(inbox) \in Nat
          /\ lines \in Seq(TurnLine) /\ turnEchoed \in BOOLEAN /\ unread \in Int
      BY WritersCounted
    <2> DEFINE r == running.kind = "caller"
    <2>3. r \in BOOLEAN
      OBVIOUS
    <2>4. EndsIn(lines, 1) \/ (r /\ Unfinished(lines, 1))
      <3>1. 1 \in 1..Len(lines)
        BY <1>1, <2>2, TailLines
      <3> QED
        BY <1>1, <2>1, <3>1 DEF CallerTurnsEnd, TurnsEndIn, OfCaller
    <2>5. turnEchoed = FALSE
      BY <2>1, <2>2
    <2>6. Counted(lines, turnEchoed, r, Len(inbox), Cardinality(Writers), unread)
      BY DEF MessagesAreCounted
    <2> HIDE DEF r
    <2>7. OwedIn(lines, FALSE) # {} \/ (r /\ FreshIn(lines, FALSE, Len(lines) + 1))
      BY <1>1, <2>2, <2>3, <2>4, CallerInitOwes, Zenon
    <2>8. OwedIn(lines, turnEchoed) # {} \/ (r /\ FreshIn(lines, turnEchoed, Len(lines) + 1))
      BY <2>5, <2>7, Zenon
    <2>9. unread > 0
      BY <2>2, <2>3, <2>6, <2>8, OwedIsCounted, Zenon
    <2> QED
      BY <2>1, <2>9
  <1>4. unread' = unread - (IF OwesIn(lines, turnEchoed, 1) THEN 1 ELSE 0)
    BY <1>2, <1>u DEF TurnTypes
  <1>5. unread' \in Int /\ asked' \in Int
    BY <1>u DEF TurnTypes
  <1> QED
    BY <1>1, <1>2, <1>3, <1>4, <1>5, <1>u, LineReadKeeps

LEMMA ReadEchoKeeps ==
  ASSUME TurnsInv, ReadEcho PROVE TurnsInv'
  <1> USE DEF TurnsInv
  <1>1. /\ lines # <<>> /\ Head(lines) = lines[1] /\ Head(lines) \in TurnLine
        /\ lines[1].kind = "echo" /\ lines' = Tail(lines)
    BY NextLineRead DEF ReadEcho
  <1>u. UNCHANGED <<inbox, running, asked, message, stdinBroken, step, flagged>>
    BY DEF ReadEcho, stateVars, turnCalls
  <1>2. turnEchoed' = EchoedAfter(Head(lines), turnEchoed) /\ OwesIn(lines, turnEchoed, 1)
    BY <1>1 DEF EchoedAfter, OwesIn, ReadEcho
  <1>3. UnsolicitedIsTrue'
    BY <1>u DEF UnsolicitedIsTrue
  <1>4. unread' = IF unread > 0 THEN unread - 1 ELSE unread
    BY DEF ReadEcho
  <1>5. ~stdinBroken => unread' = unread - (IF OwesIn(lines, turnEchoed, 1) THEN 1 ELSE 0)
    BY <1>1, <1>2, <1>4, FirstLineIsCounted
  <1>6. unread' \in Int /\ asked' \in Int
    BY <1>4, <1>u DEF TurnTypes
  <1> QED
    BY <1>1, <1>2, <1>3, <1>5, <1>6, <1>u, LineReadKeeps

LEMMA ReadFatalErrorKeeps ==
  ASSUME TurnsInv, ReadFatalError PROVE TurnsInv'
  <1> USE DEF TurnsInv
  <1>1. /\ lines # <<>> /\ Head(lines) = lines[1] /\ Head(lines) \in TurnLine
        /\ lines[1].kind = "apierror" /\ lines' = Tail(lines)
    BY NextLineRead DEF ReadFatalError
  <1>u. UNCHANGED <<inbox, running, asked, message, unread, turnEchoed, stdinBroken, step, flagged>>
    BY DEF ReadFatalError, countVars, turnCalls
  <1>2. turnEchoed' = EchoedAfter(Head(lines), turnEchoed) /\ ~OwesIn(lines, turnEchoed, 1)
    BY <1>1, <1>u DEF EchoedAfter, OwesIn
  <1>3. UnsolicitedIsTrue'
    BY <1>u DEF UnsolicitedIsTrue
  <1>4. unread' = unread - (IF OwesIn(lines, turnEchoed, 1) THEN 1 ELSE 0)
    BY <1>2, <1>u DEF TurnTypes
  <1>5. unread' \in Int /\ asked' \in Int
    BY <1>u DEF TurnTypes
  <1> QED
    BY <1>1, <1>2, <1>3, <1>4, <1>5, <1>u, LineReadKeeps

LEMMA ReadTurnResultKeeps ==
  ASSUME TurnsInv, ReadTurnResult PROVE TurnsInv'
  <1> USE DEF TurnsInv
  <1>1. /\ lines # <<>> /\ Head(lines) = lines[1] /\ Head(lines) \in TurnLine
        /\ lines[1].kind = "result" /\ lines' = Tail(lines)
    BY NextLineRead DEF ReadTurnResult
  <1>u. UNCHANGED <<inbox, running, message, stdinBroken, step, flagged>>
    BY DEF ReadTurnResult, turnCalls
  <1>a. UNCHANGED asked
    BY DEF ReadTurnResult, stateVars
  <1>s. /\ unread' = IF ~lines[1].own /\ ~turnEchoed /\ unread > 0 THEN unread - 1 ELSE unread
        /\ turnEchoed' = FALSE
    BY <1>1 DEF ReadTurnResult, TurnSettled
  <1>f. FreshIn(lines, turnEchoed, 1) <=> ~turnEchoed
    BY DEF FreshIn
  <1>2. turnEchoed' = EchoedAfter(Head(lines), turnEchoed)
    BY <1>1, <1>s DEF EchoedAfter
  <1>o. OwesIn(lines, turnEchoed, 1) <=> ~lines[1].own /\ ~turnEchoed
    BY <1>1, <1>f DEF OwesIn
  <1>3. UnsolicitedIsTrue'
    BY <1>u DEF UnsolicitedIsTrue
  <1>t. unread \in Int /\ asked \in Int
    BY DEF TurnTypes
  <1>5. ~stdinBroken => unread' = unread - (IF OwesIn(lines, turnEchoed, 1) THEN 1 ELSE 0)
    <2>1. CASE OwesIn(lines, turnEchoed, 1)
      BY <1>1, <1>o, <1>s, <1>t, <2>1, FirstLineIsCounted
    <2>2. CASE ~OwesIn(lines, turnEchoed, 1)
      BY <1>o, <1>s, <1>t, <2>2
    <2> QED
      BY <2>1, <2>2
  <1>6. unread' \in Int /\ asked' \in Int
    BY <1>a, <1>s, <1>t
  <1> QED
    BY <1>1, <1>2, <1>3, <1>5, <1>6, <1>u, LineReadKeeps

-----------------------------------------------------------------------------
\* The callers' steps that leave the accounting alone.
LEMMA UnaccountedKeeps ==
  ASSUME TurnsInv, TurnTypes',
         UNCHANGED <<inbox, lines, running, unread, turnEchoed, stdinBroken, flagged>>,
         ~stdinBroken => /\ Writers' = Writers
                         /\ \A c \in TurnCaller : step[c] # "retracts" => step'[c] # "retracts"
  PROVE  TurnsInv'
  <1>1. CallerTurnsEnd'
    BY DEF TurnsInv, CallerTurnsEnd
  <1>2. UnsolicitedIsTrue'
    BY DEF TurnsInv, UnsolicitedIsTrue
  <1>3. MessagesAreCounted'
    BY DEF TurnsInv, MessagesAreCounted
  <1> QED
    BY <1>1, <1>2, <1>3 DEF TurnsInv

LEMMA StartSendKeeps ==
  ASSUME TurnsInv, NEW c \in TurnCaller, StartSend(c) PROVE TurnsInv'
  <1> USE DEF TurnsInv
  <1>u. UNCHANGED <<inbox, lines, running, asked, message, turnEchoed, stdinBroken, flagged>>
    BY DEF StartSend, turnCLI, stateVars
  <1>s. step[c] = "counts" /\ step' = [step EXCEPT ![c] = "writes"] /\ unread' = unread + 1
    BY DEF StartSend, CountMessage
  <1>t. unread \in Int /\ step \in [TurnCaller -> {"free", "counts", "writes", "retracts", "waits"}]
    BY DEF TurnTypes
  <1>1. TurnTypes'
    BY <1>u, <1>s, <1>t DEF TurnTypes
  <1>2. CallerTurnsEnd' /\ UnsolicitedIsTrue'
    BY <1>u DEF CallerTurnsEnd, UnsolicitedIsTrue
  <1>3. MessagesAreCounted'
    <2> SUFFICES ASSUME ~stdinBroken PROVE MessagesAreCounted'
      BY <1>u DEF MessagesAreCounted
    <2>1. Writers' = Writers \cup {c} /\ c \notin Writers
      BY <1>s, <1>t DEF Writers
    <2>2. IsFiniteSet(Writers) /\ Cardinality(Writers) \in Nat /\ Len(inbox) \in Nat
      BY WritersCounted
    <2>3. IsFiniteSet(Writers \cup {c}) /\ Cardinality(Writers \cup {c}) = IF c \in Writers
             THEN Cardinality(Writers) ELSE Cardinality(Writers) + 1
      BY <2>2, FS_AddElement, Zenon
    <2>4. Cardinality(Writers') = Cardinality(Writers) + 1 /\ IsFiniteSet(Writers')
      BY <2>1, <2>3
    <2> DEFINE o == Cardinality(OwedIn(lines, turnEchoed))
               f == IF running.kind = "caller" /\ FreshIn(lines, turnEchoed, Len(lines) + 1) THEN 1 ELSE 0
    <2>5. Len(inbox) + o + f + Cardinality(Writers) <= unread
      BY DEF MessagesAreCounted, Counted
    <2>6. o \in Nat /\ f \in Int
      BY OwedIsFinite DEF TurnTypes
    <2>7. (Len(inbox) + o + f + Cardinality(Writers') <= unread') =>
            Counted(lines', turnEchoed', running'.kind = "caller", Len(inbox'), Cardinality(Writers'), unread')
      BY <1>u, Zenon DEF Counted
    <2> HIDE DEF o, f
    <2>8. Len(inbox) + o + f + Cardinality(Writers') <= unread'
      BY <1>s, <1>t, <2>2, <2>4, <2>5, <2>6
    <2>9. \A d \in TurnCaller : step'[d] # "retracts"
      BY <1>s, <1>t DEF MessagesAreCounted
    <2> QED
      BY <2>4, <2>7, <2>8, <2>9, Zenon DEF MessagesAreCounted
  <1> QED
    BY <1>1, <1>2, <1>3

LEMMA WriteMessageKeeps ==
  ASSUME TurnsInv, NEW c \in TurnCaller, WriteMessage(c) PROVE TurnsInv'
  <1> USE DEF TurnsInv
  <1>0. PICK slash \in BOOLEAN, arrives \in BOOLEAN, fails \in BOOLEAN :
          /\ step[c] = "writes" /\ (arrives => ~stdinBroken) /\ (~arrives => fails /\ ~slash)
          /\ inbox' = IF arrives THEN Append(inbox, [q |-> message[c], slash |-> slash]) ELSE inbox
          /\ step' = [step EXCEPT ![c] = IF fails THEN "retracts" ELSE "free"]
          /\ stdinBroken' = (stdinBroken \/ fails)
          /\ UNCHANGED <<lines, running, ownTurns, stateVars, sessionDone, countVars, message, waitsFor,
                         sends, waits, returned, flagged>>
    BY DEF WriteMessage
  <1>u. UNCHANGED <<lines, running, asked, message, unread, turnEchoed, flagged>>
    BY <1>0 DEF stateVars, countVars
  <1>t. /\ inbox \in Seq([q : Int, slash : BOOLEAN]) /\ message[c] \in Int
        /\ step \in [TurnCaller -> {"free", "counts", "writes", "retracts", "waits"}]
    BY DEF TurnTypes
  <1>m. [q |-> message[c], slash |-> slash] \in [q : Int, slash : BOOLEAN]
    BY <1>t
  <1>n. inbox' \in Seq([q : Int, slash : BOOLEAN]) /\ (arrives => Len(inbox') = Len(inbox) + 1)
    <2> DEFINE m == [q |-> message[c], slash |-> slash]
               M == [q : Int, slash : BOOLEAN]
    <2>1. inbox' = IF arrives THEN Append(inbox, m) ELSE inbox
      BY <1>0
    <2>2. m \in M /\ inbox \in Seq(M)
      BY <1>m, <1>t
    <2> HIDE DEF m, M
    <2>3. Append(inbox, m) \in Seq(M) /\ Len(Append(inbox, m)) = Len(inbox) + 1
      BY <2>2, OneMoreLine
    <2>4. inbox' \in Seq(M) /\ (arrives => Len(inbox') = Len(inbox) + 1)
      BY <2>1, <2>2, <2>3, Zenon
    <2> QED
      BY <2>4 DEF M
  <1>b. stdinBroken' \in BOOLEAN
    BY <1>0
  <1>s. step' \in [TurnCaller -> {"free", "counts", "writes", "retracts", "waits"}]
    BY <1>0, <1>t
  <1>1. TurnTypes'
    BY <1>u, <1>n, <1>b, <1>s DEF TurnTypes
  <1>2. CallerTurnsEnd' /\ UnsolicitedIsTrue'
    BY <1>u, <1>0 DEF CallerTurnsEnd, UnsolicitedIsTrue
  <1>3. MessagesAreCounted'
    <2> SUFFICES ASSUME ~stdinBroken' PROVE MessagesAreCounted'
      BY DEF MessagesAreCounted
    <2>0. ~stdinBroken /\ ~fails /\ arrives
      BY <1>0
    <2>1. Writers' = Writers \ {c} /\ c \in Writers
      BY <1>0, <1>t, <2>0 DEF Writers
    <2>2. IsFiniteSet(Writers) /\ Cardinality(Writers) \in Nat /\ Len(inbox) \in Nat
      BY <2>0, WritersCounted
    <2>3. IsFiniteSet(Writers \ {c}) /\ Cardinality(Writers \ {c}) = IF c \in Writers
             THEN Cardinality(Writers) - 1 ELSE Cardinality(Writers)
      BY <2>2, FS_RemoveElement, Zenon
    <2>4. Cardinality(Writers') = Cardinality(Writers) - 1 /\ IsFiniteSet(Writers')
      BY <2>1, <2>3
    <2> DEFINE o == Cardinality(OwedIn(lines, turnEchoed))
               f == IF running.kind = "caller" /\ FreshIn(lines, turnEchoed, Len(lines) + 1) THEN 1 ELSE 0
    <2>5. Len(inbox) + o + f + Cardinality(Writers) <= unread
      BY <2>0 DEF MessagesAreCounted, Counted
    <2>6. o \in Nat /\ f \in Int
      BY OwedIsFinite DEF TurnTypes
    <2>7. (Len(inbox') + o + f + Cardinality(Writers') <= unread') =>
            Counted(lines', turnEchoed', running'.kind = "caller", Len(inbox'), Cardinality(Writers'), unread')
      BY <1>u, Zenon DEF Counted
    <2> HIDE DEF o, f
    <2>8. Len(inbox') + o + f + Cardinality(Writers') <= unread'
      <3>1. unread' = unread /\ Len(inbox') = Len(inbox) + 1 /\ unread \in Int
        BY <1>u, <1>n, <2>0 DEF TurnTypes
      <3> QED
        BY <2>2, <2>4, <2>5, <2>6, <3>1
    <2>9. \A d \in TurnCaller : step'[d] # "retracts"
      BY <1>0, <1>t, <2>0 DEF MessagesAreCounted
    <2> QED
      BY <2>4, <2>7, <2>8, <2>9, Zenon DEF MessagesAreCounted
  <1> QED
    BY <1>1, <1>2, <1>3

LEMMA TurnsStep ==
  ASSUME TurnsInv, [TurnsNext]_sessionTurnVars PROVE TurnsInv'
  <1> USE DEF TurnsInv
  <1>t. /\ message \in [TurnCaller -> Int] /\ asked \in Int /\ unread \in Int
        /\ step \in [TurnCaller -> {"free", "counts", "writes", "retracts", "waits"}]
    BY DEF TurnTypes
  <1>1. CASE SessionOver
    <2>1. UNCHANGED <<inbox, lines, running, asked, message, unread, turnEchoed, stdinBroken, step, flagged>>
      BY <1>1 DEF SessionOver, turnCLI, countVars, turnCalls
    <2> QED
      BY <2>1, UnaccountedKeeps DEF TurnTypes, Writers
  <1>2. ASSUME NEW c \in TurnCaller, CallQuery(c) PROVE TurnsInv'
    <2>1. UNCHANGED <<inbox, lines, running, unread, turnEchoed, stdinBroken, flagged>>
      BY <1>2 DEF CallQuery, turnCLI
    <2>2. /\ step[c] = "free" /\ step' = [step EXCEPT ![c] = "counts"]
          /\ message' = [message EXCEPT ![c] = asked + 1] /\ asked' = asked + 1
      BY <1>2 DEF CallQuery, PrepareQueryState
    <2>3. TurnTypes'
      BY <2>1, <2>2 DEF TurnTypes
    <2>4. Writers' = Writers /\ \A d \in TurnCaller : step[d] # "retracts" => step'[d] # "retracts"
      BY <1>t, <2>2 DEF Writers
    <2> QED
      BY <2>1, <2>3, <2>4, UnaccountedKeeps
  <1>3. ASSUME NEW c \in TurnCaller, CallSend(c) PROVE TurnsInv'
    <2>1. UNCHANGED <<inbox, lines, running, asked, unread, turnEchoed, stdinBroken, flagged>>
      BY <1>3 DEF CallSend, turnCLI, stateVars, countVars
    <2>2. /\ step[c] = "free" /\ step' = [step EXCEPT ![c] = "counts"]
          /\ message' = [message EXCEPT ![c] = 0]
      BY <1>3 DEF CallSend
    <2>3. TurnTypes'
      BY <2>1, <2>2 DEF TurnTypes
    <2>4. Writers' = Writers /\ \A d \in TurnCaller : step[d] # "retracts" => step'[d] # "retracts"
      BY <1>t, <2>2 DEF Writers
    <2> QED
      BY <2>1, <2>3, <2>4, UnaccountedKeeps
  <1>4. ASSUME NEW c \in TurnCaller, TakeBackCount(c) PROVE TurnsInv'
    <2>1. UNCHANGED <<inbox, lines, running, asked, message, turnEchoed, stdinBroken, flagged>>
      BY <1>4 DEF TakeBackCount, turnCLI, stateVars
    <2>2. /\ step[c] = "retracts" /\ step' = [step EXCEPT ![c] = "free"] /\ unread' = unread - 1
      BY <1>4 DEF TakeBackCount
    <2>3. stdinBroken
      BY <2>2 DEF MessagesAreCounted
    <2>4. TurnTypes'
      BY <1>t, <2>1, <2>2 DEF TurnTypes
    <2>5. MessagesAreCounted' /\ CallerTurnsEnd' /\ UnsolicitedIsTrue'
      BY <2>1, <2>3 DEF MessagesAreCounted, CallerTurnsEnd, UnsolicitedIsTrue
    <2> QED
      BY <2>4, <2>5
  <1>5. ASSUME NEW c \in TurnCaller, CallSessionWait(c) PROVE TurnsInv'
    <2>1. UNCHANGED <<inbox, lines, running, asked, message, unread, turnEchoed, stdinBroken, flagged>>
      BY <1>5 DEF CallSessionWait, turnCLI, stateVars, countVars
    <2>2. step[c] = "free" /\ step' \in {step, [step EXCEPT ![c] = "waits"]}
      BY <1>5 DEF CallSessionWait
    <2>3. TurnTypes'
      BY <2>1, <2>2 DEF TurnTypes
    <2>4. Writers' = Writers /\ \A d \in TurnCaller : step[d] # "retracts" => step'[d] # "retracts"
      BY <1>t, <2>2 DEF Writers
    <2> QED
      BY <2>1, <2>3, <2>4, UnaccountedKeeps
  <1>6. ASSUME NEW c \in TurnCaller, SessionWaitReturns(c) PROVE TurnsInv'
    <2>1. UNCHANGED <<inbox, lines, running, asked, message, unread, turnEchoed, stdinBroken, flagged>>
      BY <1>6 DEF SessionWaitReturns, turnCLI, countVars
    <2>2. step[c] = "waits" /\ step' = [step EXCEPT ![c] = "free"]
      BY <1>6 DEF SessionWaitReturns
    <2>3. TurnTypes'
      BY <2>1, <2>2 DEF TurnTypes
    <2>4. Writers' = Writers /\ \A d \in TurnCaller : step[d] # "retracts" => step'[d] # "retracts"
      BY <1>t, <2>2 DEF Writers
    <2> QED
      BY <2>1, <2>3, <2>4, UnaccountedKeeps
  <1>7. CASE UNCHANGED sessionTurnVars
    <2>1. UNCHANGED <<inbox, lines, running, asked, message, unread, turnEchoed, stdinBroken, step, flagged>>
      BY <1>7 DEF sessionTurnVars, turnCLI, stateVars, countVars, turnCalls
    <2> QED
      BY <2>1, UnaccountedKeeps DEF TurnTypes, Writers
  <1> HIDE DEF TurnsInv
  <1> QED
    BY <1>1, <1>2, <1>3, <1>4, <1>5, <1>6, <1>7, TurnForMessageKeeps, TurnOfItsOwnKeeps,
       MessageFoldedKeeps, TurnFailsKeeps, TurnEndsKeeps, ReadInitKeeps, ReadEchoKeeps,
       ReadFatalErrorKeeps, ReadTurnResultKeeps, StartSendKeeps, WriteMessageKeeps, Zenon
    DEF TurnsNext

\* However messages are folded into turns, written while a turn runs or answered without
\* an echo, the messages counted are at least those on their way, so that a turn the CLI
\* starts for a caller's message is never flagged unsolicited unless a write failed
\* (src/session.go: noteTurnStart, sendUserMessage, notePromptEcho, noteTurnEnd).
THEOREM FlaggedIsUnsolicited == TurnsSpec => []UnsolicitedIsTrue
  <1>1. TurnsInit => TurnsInv
    BY TurnsInitHolds
  <1>2. TurnsInv /\ [TurnsNext]_sessionTurnVars => TurnsInv'
    BY TurnsStep
  <1>3. TurnsInv => UnsolicitedIsTrue
    BY DEF TurnsInv
  <1> QED
    BY <1>1, <1>2, <1>3, PTL DEF TurnsSpec

HIDE NoToolAssumption

-----------------------------------------------------------------------------
(* StdinWriter: who holds s.mu, and what is in the pipe                    *)

USE StdinAssumption

\* One call at a time holds s.mu.
OneHolds ==
  /\ \A w \in Writer : write[w] = "writes" => mu = "held"
  /\ \A v, w \in Writer : write[v] = "writes" /\ write[w] = "writes" => v = w

\* How a call and its goroutine go together: a goroutine that may still put pieces
\* into the pipe has a call that waits for it.
CallAndGoroutine ==
  \A w \in Writer :
    /\ write[w] \in {"idle", "locks"} => writing[w] = "none"
    /\ writing[w] = "none" => written[w] = 0
    /\ writing[w] = "running" => written[w] < LineLen
    /\ writing[w] = "running" /\ pipeOpen => write[w] = "writes"
    /\ writing[w] = "done" => written[w] = LineLen
    /\ write[w] = "ok" => writing[w] = "done"

\* After a failure nothing more can get into the pipe.
BrokenForGood ==
  stdinClosed \/ (\E w \in Writer : writing[w] = "error") => ~(pipeOpen /\ cliReads)

\* Only the call that writes has part of a line in the pipe.
TornIsCurrent ==
  ~stdinClosed =>
    \A w \in Writer : written[w] \in 1..(LineLen - 1) => write[w] = "writes"

\* The three parts of LinesStayWhole, and that a piece in the pipe was counted.
Unmixed == \A i, j, k \in 1..Len(wire) : i < j /\ j < k /\ wire[i] = wire[k] => wire[j] = wire[i]
WholeButLast == \A i \in 1..Len(wire) : wire[i] # wire[Len(wire)] => written[wire[i]] = LineLen
SuccessIsWhole == \A w \in Writer : write[w] = "ok" => written[w] = LineLen
PiecesCounted == \A i \in 1..Len(wire) : written[wire[i]] > 0

StdinInv ==
  /\ StdinTypeOK
  /\ OneHolds /\ CallAndGoroutine /\ BrokenForGood /\ TornIsCurrent
  /\ Unmixed /\ WholeButLast /\ PiecesCounted

-----------------------------------------------------------------------------
LEMMA AppendPieceProperties ==
  ASSUME NEW seq \in Seq(Writer), NEW w \in Writer
  PROVE  /\ Append(seq, w) \in Seq(Writer)
         /\ Len(Append(seq, w)) = Len(seq) + 1 /\ Len(seq) \in Nat
         /\ \A i \in 1..Len(seq) : Append(seq, w)[i] = seq[i]
         /\ Append(seq, w)[Len(seq) + 1] = w
  OBVIOUS

LEMMA ElementIsWriter ==
  ASSUME NEW seq \in Seq(Writer), NEW i \in 1..Len(seq)
  PROVE  seq[i] \in Writer
  OBVIOUS

LEMMA StdinInitInv == StdinInit => StdinInv
  <1> SUFFICES ASSUME StdinInit PROVE StdinInv
    OBVIOUS
  <1>1. <<>> \in Seq(Writer) /\ Len(<<>>) = 0
    OBVIOUS
  <1>2. StdinTypeOK
    <2>1. wire \in Seq(Writer)
      BY <1>1 DEF StdinInit
    <2>2. written \in [Writer -> 0..LineLen] /\ unreadPieces \in 0..StdinPipe
      BY DEF StdinInit
    <2> QED
      BY <2>1, <2>2 DEF StdinInit, StdinTypeOK
  <1>3. OneHolds /\ CallAndGoroutine /\ BrokenForGood /\ TornIsCurrent
    BY DEF StdinInit, OneHolds, CallAndGoroutine, BrokenForGood, TornIsCurrent
  <1>4. Unmixed /\ WholeButLast /\ PiecesCounted
    BY <1>1 DEF StdinInit, Unmixed, WholeButLast, PiecesCounted
  <1> QED
    BY <1>2, <1>3, <1>4 DEF StdinInv

-----------------------------------------------------------------------------
\* The step that puts a piece into the pipe: it is the current call's, every other
\* line in the pipe is whole, and if its own line has pieces there, they are the last.
LEMMA WritePieceInv ==
  ASSUME StdinInv, NEW w \in Writer, WritePiece(w)
  PROVE  StdinInv'
  <1> DEFINE n == Len(wire)
  <1> USE DEF StdinInv
  <1>1. /\ writing[w] = "running" /\ pipeOpen /\ cliReads /\ unreadPieces < StdinPipe
        /\ wire' = Append(wire, w) /\ unreadPieces' = unreadPieces + 1
        /\ written' = [written EXCEPT ![w] = @ + 1]
        /\ writing' = [writing EXCEPT ![w] = IF written[w] + 1 = LineLen THEN "done" ELSE "running"]
        /\ UNCHANGED <<write, mu, stdinClosed, pipeOpen, cliReads, sessionEnded, closeCall>>
    BY DEF WritePiece
  <1>2. write[w] = "writes" /\ written[w] < LineLen /\ written[w] \in Nat
    BY <1>1 DEF CallAndGoroutine, StdinTypeOK
  <1>3. ~stdinClosed /\ \A v \in Writer : writing[v] # "error"
    BY <1>1 DEF BrokenForGood
  <1>4. n \in Nat /\ wire' \in Seq(Writer) /\ Len(wire') = n + 1 /\ wire'[n + 1] = w
        /\ \A i \in 1..n : wire'[i] = wire[i] /\ wire[i] \in Writer
    BY <1>1, AppendPieceProperties, ElementIsWriter DEF StdinTypeOK
  <1>5. /\ written'[w] = written[w] + 1
        /\ \A v \in Writer : v # w => written'[v] = written[v]
    BY <1>1 DEF StdinTypeOK
  <1>6. \A i \in 1..n : wire[i] # w => written[wire[i]] = LineLen
    <2> SUFFICES ASSUME NEW i \in 1..n, wire[i] # w PROVE written[wire[i]] = LineLen
      OBVIOUS
    <2>1. wire[i] \in Writer /\ written[wire[i]] > 0 /\ written[wire[i]] \in 0..LineLen
      BY <1>4 DEF PiecesCounted, StdinTypeOK
    <2>2. write[wire[i]] # "writes"
      BY <1>2, <2>1 DEF OneHolds
    <2>3. written[wire[i]] \notin 1..(LineLen - 1)
      BY <1>3, <2>1, <2>2 DEF TornIsCurrent
    <2> QED
      BY <2>1, <2>3
  <1>7. \A i \in 1..n : wire[i] = w => wire[n] = w
    BY <1>2 DEF WholeButLast
  <1>8. StdinTypeOK'
    <2>1. written' \in [Writer -> 0..LineLen]
      BY <1>1, <1>2 DEF StdinTypeOK
    <2>2. writing' \in [Writer -> {"none", "running", "done", "error"}]
      BY <1>1 DEF StdinTypeOK
    <2>3. unreadPieces' \in 0..StdinPipe
      BY <1>1 DEF StdinTypeOK
    <2> QED
      BY <1>1, <1>4, <2>1, <2>2, <2>3 DEF StdinTypeOK
  <1>9. OneHolds' /\ BrokenForGood' /\ TornIsCurrent'
    <2>1. OneHolds'
      BY <1>1 DEF OneHolds
    <2>2. BrokenForGood'
      BY <1>1, <1>3 DEF BrokenForGood, StdinTypeOK
    <2>3. TornIsCurrent'
      BY <1>1, <1>2, <1>5 DEF TornIsCurrent
    <2> QED
      BY <2>1, <2>2, <2>3
  <1>10. CallAndGoroutine'
    <2> SUFFICES ASSUME NEW v \in Writer
                 PROVE  /\ write'[v] \in {"idle", "locks"} => writing'[v] = "none"
                        /\ writing'[v] = "none" => written'[v] = 0
                        /\ writing'[v] = "running" => written'[v] < LineLen
                        /\ writing'[v] = "running" /\ pipeOpen' => write'[v] = "writes"
                        /\ writing'[v] = "done" => written'[v] = LineLen
                        /\ write'[v] = "ok" => writing'[v] = "done"
      BY DEF CallAndGoroutine
    <2>1. CASE v = w
      BY <1>1, <1>2, <1>5, <2>1 DEF StdinTypeOK
    <2>2. CASE v # w
      BY <1>1, <1>5, <2>2 DEF StdinTypeOK, CallAndGoroutine
    <2> QED
      BY <2>1, <2>2
  <1>11. Unmixed'
    <2> SUFFICES ASSUME NEW i \in 1..(n + 1), NEW j \in 1..(n + 1), NEW k \in 1..(n + 1),
                        i < j, j < k, wire'[i] = wire'[k]
                 PROVE  wire'[j] = wire'[i]
      BY <1>4 DEF Unmixed
    <2>1. i \in 1..n /\ j \in 1..n /\ n \in 1..n
      BY <1>4
    <2>2. CASE k \in 1..n
      BY <1>4, <2>1, <2>2 DEF Unmixed
    <2>3. CASE k = n + 1
      <3>1. wire[i] = w /\ wire[n] = w
        BY <1>4, <1>7, <2>1, <2>3
      <3>2. wire[j] = w
        BY <3>1, <2>1 DEF Unmixed
      <3> QED
        BY <1>4, <2>1, <3>1, <3>2
    <2> QED
      BY <1>4, <2>2, <2>3
  <1>12. WholeButLast'
    <2> SUFFICES ASSUME NEW i \in 1..(n + 1), wire'[i] # w
                 PROVE  written'[wire'[i]] = LineLen
      BY <1>4 DEF WholeButLast
    <2>1. i \in 1..n
      BY <1>4
    <2> QED
      BY <2>1, <1>4, <1>5, <1>6
  <1>13. PiecesCounted'
    <2> SUFFICES ASSUME NEW i \in 1..(n + 1) PROVE written'[wire'[i]] > 0
      BY <1>4 DEF PiecesCounted
    <2>1. CASE i = n + 1
      BY <2>1, <1>2, <1>4, <1>5
    <2>2. CASE i \in 1..n
      <3>1. wire'[i] = wire[i] /\ wire[i] \in Writer /\ written[wire[i]] > 0
        BY <2>2, <1>4 DEF PiecesCounted
      <3> QED
        BY <3>1, <1>2, <1>5
    <2> QED
      BY <1>4, <2>1, <2>2
  <1> QED
    BY <1>8, <1>9, <1>10, <1>11, <1>12, <1>13

-----------------------------------------------------------------------------
\* Every other step leaves the pieces and their counts alone.
LEMMA PiecesUnchanged ==
  ASSUME StdinInv, UNCHANGED <<wire, written>>
  PROVE  Unmixed' /\ WholeButLast' /\ PiecesCounted'
  BY DEF StdinInv, Unmixed, WholeButLast, PiecesCounted

\* The steps of a call.  One that takes s.mu finds nobody with it; one that gives it
\* back has written its line, or closes stdin.
LEMMA WriterStep ==
  ASSUME StdinInv, NEW w \in Writer,
         \/ CallWrite(w) \/ RefuseWrite(w) \/ StartWrite(w)
         \/ WriteBreaks(w) \/ WriteReturns(w) \/ GiveUpWrite(w)
  PROVE  StdinInv'
  <1> USE DEF StdinInv, pipeVars
  <1>1. Unmixed' /\ WholeButLast' /\ PiecesCounted'
    BY PiecesUnchanged
       DEF CallWrite, RefuseWrite, StartWrite, WriteBreaks, WriteReturns, GiveUpWrite
  <1>2. CASE CallWrite(w)
    <2>1. StdinTypeOK'
      BY <1>2 DEF CallWrite, StdinTypeOK
    <2>2. OneHolds' /\ CallAndGoroutine' /\ BrokenForGood' /\ TornIsCurrent'
      BY <1>2 DEF CallWrite, StdinTypeOK, OneHolds, CallAndGoroutine, BrokenForGood, TornIsCurrent
    <2> QED
      BY <1>1, <2>1, <2>2
  <1>3. CASE RefuseWrite(w)
    <2>1. StdinTypeOK'
      BY <1>3 DEF RefuseWrite, StdinTypeOK
    <2>2. OneHolds' /\ CallAndGoroutine' /\ BrokenForGood' /\ TornIsCurrent'
      BY <1>3 DEF RefuseWrite, StdinTypeOK, OneHolds, CallAndGoroutine, BrokenForGood, TornIsCurrent
    <2> QED
      BY <1>1, <2>1, <2>2
  <1>4. CASE StartWrite(w)
    <2>1. StdinTypeOK'
      BY <1>4 DEF StartWrite, StdinTypeOK
    <2>2. OneHolds'
      BY <1>4 DEF StartWrite, StdinTypeOK, OneHolds
    <2>3. CallAndGoroutine'
      BY <1>4 DEF StartWrite, StdinTypeOK, CallAndGoroutine
    <2>4. BrokenForGood' /\ TornIsCurrent'
      BY <1>4 DEF StartWrite, StdinTypeOK, BrokenForGood, TornIsCurrent
    <2> QED
      BY <1>1, <2>1, <2>2, <2>3, <2>4
  <1>5. CASE WriteBreaks(w)
    <2>1. StdinTypeOK'
      BY <1>5 DEF WriteBreaks, StdinTypeOK
    <2>2. OneHolds' /\ BrokenForGood' /\ TornIsCurrent'
      BY <1>5 DEF WriteBreaks, OneHolds, BrokenForGood, TornIsCurrent
    <2>3. CallAndGoroutine'
      BY <1>5 DEF WriteBreaks, StdinTypeOK, CallAndGoroutine
    <2> QED
      BY <1>1, <2>1, <2>2, <2>3
  <1>6. CASE WriteReturns(w)
    <2>1. StdinTypeOK'
      BY <1>6 DEF WriteReturns, StdinTypeOK
    <2>2. OneHolds'
      BY <1>6 DEF WriteReturns, StdinTypeOK, OneHolds
    <2>3. CallAndGoroutine'
      BY <1>6 DEF WriteReturns, StdinTypeOK, CallAndGoroutine
    <2>4. BrokenForGood'
      BY <1>6 DEF WriteReturns, BrokenForGood
    <2>5. TornIsCurrent'
      <3> SUFFICES ASSUME ~stdinClosed', NEW v \in Writer, written[v] \in 1..(LineLen - 1)
                   PROVE  write'[v] = "writes"
        BY <1>6 DEF WriteReturns, TornIsCurrent
      <3>1. ~stdinClosed /\ writing[w] = "done" /\ written[w] = LineLen
        BY <1>6 DEF WriteReturns, CallAndGoroutine
      <3>2. v # w /\ write[v] = "writes"
        BY <3>1 DEF TornIsCurrent
      <3> QED
        BY <1>6, <3>2 DEF WriteReturns, StdinTypeOK
    <2> QED
      BY <1>1, <2>1, <2>2, <2>3, <2>4, <2>5
  <1>7. CASE GiveUpWrite(w)
    <2>1. StdinTypeOK'
      BY <1>7 DEF GiveUpWrite, StdinTypeOK
    <2>2. OneHolds'
      BY <1>7 DEF GiveUpWrite, StdinTypeOK, OneHolds
    <2>3. CallAndGoroutine'
      BY <1>7 DEF GiveUpWrite, StdinTypeOK, CallAndGoroutine
    <2>4. BrokenForGood' /\ TornIsCurrent'
      BY <1>7 DEF GiveUpWrite, BrokenForGood, TornIsCurrent
    <2> QED
      BY <1>1, <2>1, <2>2, <2>3, <2>4
  <1> QED
    BY <1>2, <1>3, <1>4, <1>5, <1>6, <1>7

\* Close, the end of the context, and what the CLI does.
LEMMA OtherStep ==
  ASSUME StdinInv, CallClose \/ CloseStdin \/ EndSession \/ CLIReadsPiece \/ CLIDies
  PROVE  StdinInv'
  <1> USE DEF StdinInv, pipeVars, callsVars
  <1>1. Unmixed' /\ WholeButLast' /\ PiecesCounted'
    BY PiecesUnchanged DEF CallClose, CloseStdin, EndSession, CLIReadsPiece, CLIDies
  <1>2. StdinTypeOK'
    <2>1. CASE CallClose
      BY <2>1 DEF CallClose, StdinTypeOK
    <2>2. CASE CloseStdin
      BY <2>2 DEF CloseStdin, StdinTypeOK
    <2>3. CASE EndSession
      BY <2>3 DEF EndSession, StdinTypeOK
    <2>4. CASE CLIReadsPiece
      BY <2>4 DEF CLIReadsPiece, StdinTypeOK
    <2>5. CASE CLIDies
      BY <2>5 DEF CLIDies, StdinTypeOK
    <2> QED
      BY <2>1, <2>2, <2>3, <2>4, <2>5
  <1>3. OneHolds' /\ CallAndGoroutine' /\ BrokenForGood' /\ TornIsCurrent'
    BY DEF CallClose, CloseStdin, EndSession, CLIReadsPiece, CLIDies,
           OneHolds, CallAndGoroutine, BrokenForGood, TornIsCurrent
  <1> QED
    BY <1>1, <1>2, <1>3

LEMMA StdinStep == StdinInv /\ [StdinNext]_stdinVars => StdinInv'
  <1> SUFFICES ASSUME StdinInv, [StdinNext]_stdinVars PROVE StdinInv'
    OBVIOUS
  <1>1. CASE UNCHANGED stdinVars
    BY <1>1, PiecesUnchanged DEF stdinVars, callsVars, pipeVars, StdinInv, StdinTypeOK, OneHolds,
                                 CallAndGoroutine, BrokenForGood, TornIsCurrent
  <1>2. CASE StdinNext
    BY <1>2, WritePieceInv, WriterStep, OtherStep DEF StdinNext
  <1> QED
    BY <1>1, <1>2

LEMMA StdinInvariant == StdinSpec => []StdinInv
  BY StdinInitInv, StdinStep, PTL DEF StdinSpec

-----------------------------------------------------------------------------
\* At most one call at a time is between taking s.mu and giving it back
\* (writeStdinTimeout).
THEOREM StdinIsExclusive == StdinSpec => []OneHolds
  BY StdinInvariant, PTL DEF StdinInv

\* What reaches the CLI is whole lines, unmixed, and at most one torn line at the very
\* end, for any number of concurrent writes of which any may be given up at its deadline
\* (writeStdinTimeout, Close).
THEOREM StdinLinesStayWhole == StdinSpec => []LinesStayWhole
  <1>1. StdinInv => SuccessIsWhole
    BY DEF StdinInv, CallAndGoroutine, SuccessIsWhole
  <1>2. StdinInv => LinesStayWhole
    BY <1>1 DEF StdinInv, LinesStayWhole, Unmixed, WholeButLast, SuccessIsWhole
  <1> QED
    BY <1>2, StdinInvariant, PTL

HIDE StdinAssumption

-----------------------------------------------------------------------------
(* CommandList: how far initialize is, and what the session knows by then *)

\* Lines of a session that only initialize asks: its answer, if it is on its way, is
\* ahead of every change.
OnlyChanges(ls) == ls \in Seq([answers : {{}}, list : Nat])
AnswerFirst(ls) == ls # << >> /\ Head(ls).answers = {Initialize} /\ OnlyChanges(Tail(ls))

NothingKnown == commands = 0 /\ newest = 0 /\ ~commandsChanged

\* One conjunct per state of initialize.
InitializeProgress ==
  /\ request \in [Request -> {"unsent", "sent", "answered", "handed", "applied", "abandoned",
                           "dropped"}]
  /\ inHand \in [Request -> Nat] /\ cliCommands \in Nat
  /\ commandLines \in Seq([answers : SUBSET Request, list : Nat])
  /\ request[Initialize] \in {"unsent", "sent"} => commandLines = << >> /\ NothingKnown
  /\ request[Initialize] = "answered" => AnswerFirst(commandLines) /\ NothingKnown
  /\ request[Initialize] = "handed" =>
       /\ OnlyChanges(commandLines)
       /\ IF commandsChanged THEN commands = newest ELSE commands = 0 /\ newest = inHand[Initialize]
  /\ request[Initialize] = "applied" => OnlyChanges(commandLines) /\ commands = newest

LEMMA FirstLine ==
  ASSUME NEW S, NEW ls \in Seq(S), ls # << >>
  PROVE  Head(ls) \in S /\ Tail(ls) \in Seq(S)
OBVIOUS

LEMMA AnotherLine ==
  ASSUME NEW S, NEW ls \in Seq(S), NEW line \in S
  PROVE  Append(ls, line) \in Seq(S)
OBVIOUS

LEMMA InitializeInit == CommandsInit => InitializeProgress
<1> SUFFICES ASSUME CommandsInit  PROVE InitializeProgress
  OBVIOUS
<1>1. /\ request \in [Request -> {"unsent", "sent", "answered", "handed", "applied", "abandoned",
                           "dropped"}]
      /\ inHand \in [Request -> Nat] /\ cliCommands \in Nat
      /\ commandLines = << >> /\ NothingKnown
  BY DEF CommandsInit, NothingKnown
<1>2. request[Initialize] = "unsent"
  BY CommandsAssumption DEF CommandsInit, CommandsAssumption, Request, Initialize
<1>3. << >> \in Seq([answers : SUBSET Request, list : Nat])
  OBVIOUS
<1> QED
  BY <1>1, <1>2, <1>3 DEF InitializeProgress

LEMMA InitializeNext ==
  ASSUME MaxReloads = 0, InitializeProgress, [CommandsNext]_commandVars
  PROVE  InitializeProgress'
<1> USE DEF InitializeProgress
<1>0. Request = {Initialize} /\ Initialize \in Request
  BY DEF Request, Initialize
<1>1. ASSUME NEW r \in Request, SendRequest(r)  PROVE InitializeProgress'
  BY <1>0, <1>1 DEF SendRequest, NothingKnown
<1>2. ASSUME NEW r \in Request, CLIAnswersCommands(r)  PROVE InitializeProgress'
  <2>1. PICK list \in Nat : commandLines' = Append(commandLines, [answers |-> {r}, list |-> list])
    <3>1. PICK with \in BOOLEAN :
            /\ cliCommands' = IF with THEN cliCommands + 1 ELSE cliCommands
            /\ commandLines' = Append(commandLines,
                                  [answers |-> {r}, list |-> IF with THEN cliCommands' ELSE 0])
      BY <1>2 DEF CLIAnswersCommands
    <3>2. (IF with THEN cliCommands' ELSE 0) \in Nat
      BY <3>1
    <3> QED
      BY <3>1, <3>2
  <2>2. request[Initialize] = "sent" /\ request'[Initialize] = "answered" /\ cliCommands' \in Nat
    BY <1>0, <1>2 DEF CLIAnswersCommands
  <2>3. commandLines' = <<[answers |-> {Initialize}, list |-> list]>>
    <3>1. r = Initialize /\ commandLines = << >>
      BY <1>0, <2>2
    <3> QED
      BY <2>1, <3>1
  <2>4. AnswerFirst(commandLines')
    BY <2>3 DEF AnswerFirst, OnlyChanges
  <2>5. commandLines' \in Seq([answers : SUBSET Request, list : Nat])
    BY <1>0, <2>3
  <2>6. NothingKnown' /\ inHand' = inHand
    BY <1>2, <2>2 DEF CLIAnswersCommands, NothingKnown
  <2>7. request' \in [Request -> {"unsent", "sent", "answered", "handed", "applied", "abandoned",
                           "dropped"}]
    BY <1>2 DEF CLIAnswersCommands
  <2> QED
    BY <2>2, <2>4, <2>5, <2>6, <2>7
<1>3. ASSUME NEW r \in Request, ApplyAnswer(r)  PROVE InitializeProgress'
  BY <1>0, <1>3 DEF ApplyAnswer, SeedCommands
<1>4. ASSUME NEW r \in Request, GiveUpRequest(r)  PROVE InitializeProgress'
  BY <1>0, <1>4 DEF GiveUpRequest
<1>5. CASE CLIChangesCommands
  <2> DEFINE line == [answers |-> {}, list |-> cliCommands + 1]
  <2>1. commandLines' = Append(commandLines, line) /\ cliCommands' \in Nat
    BY <1>5 DEF CLIChangesCommands
  <2>2. line \in [answers : {{}}, list : Nat] /\ line \in [answers : SUBSET Request, list : Nat]
    OBVIOUS
  <2> HIDE DEF line
  <2>3. commandLines' \in Seq([answers : SUBSET Request, list : Nat])
    BY <2>1, <2>2
  <2>4. ASSUME OnlyChanges(commandLines)  PROVE OnlyChanges(commandLines')
    BY <2>1, <2>2, <2>4 DEF OnlyChanges
  <2>5. ASSUME AnswerFirst(commandLines)  PROVE AnswerFirst(commandLines')
    <3>1. Head(commandLines') = Head(commandLines) /\ commandLines' # << >>
      BY <2>1, <2>5 DEF AnswerFirst
    <3>2. Tail(commandLines') = Append(Tail(commandLines), line)
      BY <2>1, <2>2, <2>5 DEF AnswerFirst
    <3> QED
      <4>1. OnlyChanges(Tail(commandLines))
        BY <2>5 DEF AnswerFirst
      <4>2. OnlyChanges(Append(Tail(commandLines), line))
        BY <2>2, <4>1, AnotherLine DEF OnlyChanges
      <4> QED
        BY <2>5, <3>1, <3>2, <4>2 DEF AnswerFirst
  <2>6. UNCHANGED <<request, inHand, commands, commandsChanged, newest>>
        /\ request[Initialize] \notin {"unsent", "sent"}
    BY <1>5 DEF CLIChangesCommands
  <2> QED
    BY <2>1, <2>3, <2>4, <2>5, <2>6 DEF NothingKnown
<1>6. CASE ReadChange
  <2>1. commandLines' \in Seq([answers : SUBSET Request, list : Nat])
    BY <1>6 DEF ReadChange
  <2>2. OnlyChanges(commandLines) => OnlyChanges(commandLines')
    BY <1>6 DEF ReadChange, OnlyChanges
  <2>3. ~AnswerFirst(commandLines) /\ commandLines # << >>
    BY <1>6 DEF ReadChange, AnswerFirst
  <2>4. commands' = newest' /\ commandsChanged' = TRUE
    BY <1>6 DEF ReadChange, SetCommands
  <2> QED
    BY <1>6, <2>1, <2>2, <2>3, <2>4 DEF ReadChange
<1>7. CASE ReadCommandAnswer
  <2> DEFINE waiting == {r \in Head(commandLines).answers : request[r] = "answered"}
             list == Head(commandLines).list
  <2>1. Head(commandLines) \in [answers : SUBSET Request, list : Nat]
        /\ commandLines' \in Seq([answers : SUBSET Request, list : Nat])
    <3>1. commandLines # << >> /\ commandLines' = Tail(commandLines)
      BY <1>7 DEF ReadCommandAnswer
    <3> QED
      BY <3>1, FirstLine
  <2>2. ~OnlyChanges(commandLines)
    <3>1. commandLines # << >> /\ Head(commandLines).answers # {}
      BY <1>7 DEF ReadCommandAnswer
    <3>2. ASSUME OnlyChanges(commandLines)
          PROVE  Head(commandLines) \in [answers : {{}}, list : Nat]
      BY <3>1, <3>2, FirstLine DEF OnlyChanges
    <3> QED
      BY <3>1, <3>2
  <2>3. /\ request' = [r \in Request |-> IF r \in waiting THEN "handed" ELSE request[r]]
        /\ inHand' = [r \in Request |-> IF r \in waiting THEN list ELSE inHand[r]]
        /\ newest' = IF waiting # {} /\ list # 0 THEN list ELSE newest
        /\ commandLines # << >> /\ commandLines' = Tail(commandLines)
        /\ UNCHANGED <<cliCommands, commands, commandsChanged>>
    BY <1>7 DEF ReadCommandAnswer
  <2>4. CASE request[Initialize] = "answered"
    <3>1. waiting = {Initialize} /\ OnlyChanges(commandLines') /\ NothingKnown
      BY <2>3, <2>4 DEF AnswerFirst
    <3> HIDE DEF waiting
    <3>2. /\ request'[Initialize] = "handed" /\ inHand'[Initialize] = list
          /\ newest' = list /\ commands' = 0 /\ ~commandsChanged'
      BY <1>0, <2>3, <3>1 DEF NothingKnown
    <3> QED
      BY <1>0, <2>1, <2>3, <3>1, <3>2
  <2>5. CASE request[Initialize] # "answered"
    <3>1. waiting = {}
      BY <1>0, <2>1, <2>5
    <3> HIDE DEF waiting
    <3> QED
      BY <1>0, <2>1, <2>2, <2>3, <2>5, <3>1
  <2> QED
    BY <2>4, <2>5
<1>8. CASE UNCHANGED commandVars
  BY <1>8 DEF commandVars, NothingKnown
<1> QED
  BY <1>1, <1>2, <1>3, <1>4, <1>5, <1>6, <1>7, <1>8 DEF CommandsNext

\* The list a session reports is the one that reached it last, as long as nobody calls
\* ReloadPlugins: seedCommands (src/commands.go) does not let the answer to initialize undo
\* a change that readLoop applied while Connect still held the answer.
THEOREM SeedIsNeverStale ==
  ASSUME MaxReloads = 0
  PROVE  CommandsSpec => []CommandsAreCurrent
<1>1. InitializeProgress => CommandsAreCurrent
  BY DEF InitializeProgress, CommandsAreCurrent
<1>2. InitializeProgress /\ [CommandsNext]_commandVars => InitializeProgress'
  BY InitializeNext
<1> QED
  BY <1>1, <1>2, InitializeInit, PTL DEF CommandsSpec
=============================================================================
