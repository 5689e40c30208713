------------------------- MODULE QueryResultProofs -------------------------
(***************************************************************************)
(* Proofs about QuerySession, on top of QuerySessionProofs: a result is    *)
(* held once, from when readLoop reads it until a consumer has it.         *)
(***************************************************************************)
EXTENDS QuerySessionProofs

-----------------------------------------------------------------------------
(* How often a query's result is held: counting it from place to place     *)

\* Whether an event answers query g, as a number.
Once(sev, g) == IF sev.ev.kind \in Answers /\ g \in sev.ev.of THEN 1 ELSE 0

LEMMA Counted ==
  ASSUME NEW S, NEW seq \in Seq(S), NEW g
  PROVE  /\ IsFiniteSet(ResultsIn(seq, g)) /\ ResultsAt(seq, g) = Cardinality(ResultsIn(seq, g))
         /\ ResultsAt(seq, g) \in Nat
         /\ ResultsAt(seq, g) = 0 <=> ResultsIn(seq, g) = {}
  <1>1. Len(seq) \in Nat /\ DOMAIN seq = 1..Len(seq)
    OBVIOUS
  <1>2. IsFiniteSet(1..Len(seq))
    BY <1>1, FS_Interval
  <1>3. ResultsIn(seq, g) \in SUBSET (1..Len(seq))
    BY <1>1 DEF ResultsIn
  <1>4. IsFiniteSet(ResultsIn(seq, g))
    BY <1>2, <1>3, FS_Subset
  <1> QED
    BY <1>4, FS_CardinalityType, FS_EmptySet DEF ResultsAt

LEMMA NoneHeld ==
  ASSUME NEW g
  PROVE  ResultsAt(<< >>, g) = 0
  <1>1. << >> \in Seq({}) /\ DOMAIN << >> = {}
    OBVIOUS
  <1>2. ResultsIn(<< >>, g) = {}
    BY <1>1 DEF ResultsIn
  <1> QED
    BY <1>1, <1>2, Counted

\* Its content, not its stamp, decides what an event answers.
LEMMA SameHeld ==
  ASSUME NEW s, NEW t, DOMAIN s = DOMAIN t, \A i \in DOMAIN s : s[i].ev = t[i].ev, NEW g
  PROVE  ResultsAt(s, g) = ResultsAt(t, g)
  <1>1. ResultsIn(s, g) = ResultsIn(t, g)
    BY DEF ResultsIn
  <1> QED
    BY <1>1 DEF ResultsAt

LEMMA OneMore ==
  ASSUME NEW S, NEW seq \in Seq(S), NEW sev \in S, NEW g
  PROVE  ResultsAt(Append(seq, sev), g) = ResultsAt(seq, g) + Once(sev, g)
  <1> DEFINE n == Len(seq) + 1
             longer == Append(seq, sev)
             before == ResultsIn(seq, g)
             after == ResultsIn(longer, g)
  <1>1. /\ n \in Nat \ {0} /\ DOMAIN seq = 1..(n - 1) /\ DOMAIN longer = 1..n /\ longer[n] = sev
        /\ \A i \in 1..(n - 1) : longer[i] = seq[i]
        /\ longer \in Seq(S)
    OBVIOUS
  <1> HIDE DEF longer, n
  <1>2. \A i \in 1..n : i \in 1..(n - 1) \/ i = n
    BY <1>1
  <1>3. n \notin 1..(n - 1) /\ \A i \in 1..(n - 1) : i \in 1..n
    BY <1>1
  <1>4. n \in 1..n
    BY <1>1
  <1>5. \A i \in 1..(n - 1) : i \in after <=> i \in before
    BY <1>1, <1>3 DEF ResultsIn
  <1>6. n \in after <=> sev.ev.kind \in Answers /\ g \in sev.ev.of
    BY <1>1, <1>4 DEF ResultsIn, Answers
  <1>7. before \subseteq 1..(n - 1) /\ after \subseteq 1..n
    BY <1>1 DEF ResultsIn
  <1>8. IsFiniteSet(before) /\ Cardinality(before) \in Nat
    BY Counted, FS_CardinalityType
  <1> HIDE DEF before, after
  <1>9. Cardinality(after) = Cardinality(before) + Once(sev, g)
    <2>1. CASE n \in after
      <3>1. after = before \cup {n} /\ n \notin before
        BY <1>2, <1>3, <1>5, <1>7, <2>1
      <3>2. Cardinality(after) = Cardinality(before) + 1
        BY <1>8, <3>1, FS_AddElement
      <3> QED
        BY <1>6, <2>1, <3>2 DEF Once
    <2>2. CASE n \notin after
      <3>1. after = before
        BY <1>2, <1>3, <1>5, <1>7, <2>2
      <3> QED
        BY <1>6, <1>8, <2>2, <3>1 DEF Once
    <2> QED
      BY <2>1, <2>2
  <1> QED
    BY <1>9 DEF ResultsAt, before, after, longer

LEMMA OneHeld ==
  ASSUME NEW S, NEW sev \in S, NEW g
  PROVE  ResultsAt(<<sev>>, g) = Once(sev, g)
  <1>1. << >> \in Seq(S)
    BY OwnKinds
  <1>2. Append(<< >>, sev) = <<sev>>
    OBVIOUS
  <1>3. ResultsAt(Append(<< >>, sev), g) = ResultsAt(<< >>, g) + Once(sev, g)
    BY <1>1, OneMore
  <1>4. ResultsAt(<< >>, g) = 0
    BY NoneHeld
  <1> QED
    BY <1>2, <1>3, <1>4 DEF Once

\* What is added for an event is taken away with it.
LEMMA OneLess ==
  ASSUME NEW S, NEW seq \in Seq(S), seq # << >>, NEW g
  PROVE  ResultsAt(seq, g) = Once(Head(seq), g) + ResultsAt(Tail(seq), g)
  <1> DEFINE rest == Tail(seq)
             before == ResultsIn(seq, g)
             after == ResultsIn(rest, g)
             later == {i \in before : i # 1}
             shift == [i \in after |-> i + 1]
  <1>1. /\ Len(seq) \in Nat \ {0} /\ DOMAIN seq = 1..Len(seq) /\ DOMAIN rest = 1..(Len(seq) - 1)
        /\ \A i \in 1..(Len(seq) - 1) : rest[i] = seq[i + 1]
        /\ Head(seq) = seq[1] /\ rest \in Seq(S)
    OBVIOUS
  <1> HIDE DEF rest
  <1>2. /\ \A i \in after : i \in Nat /\ i + 1 \in later
        /\ \A j \in later : j - 1 \in after /\ (j - 1) + 1 = j
    BY <1>1 DEF ResultsIn
  <1>3. IsFiniteSet(after) /\ IsFiniteSet(before)
    BY <1>1, Counted
  <1>4. 1 \in before <=> Head(seq).ev.kind \in Answers /\ g \in Head(seq).ev.of
    BY <1>1 DEF ResultsIn, Answers
  <1> HIDE DEF before, after
  <1>5. shift \in Bijection(after, later)
    <2>1. shift \in [after -> later]
      BY <1>2
    <2>2. \A i, j \in after : shift[i] = shift[j] => i = j
      BY <1>2
    <2>3. \A j \in later : \E i \in after : shift[i] = j
      BY <1>2
    <2> QED
      BY <2>1, <2>2, <2>3 DEF Bijection, Injection, Surjection, IsInjective
  <1>6. IsFiniteSet(later) /\ Cardinality(later) = Cardinality(after)
    BY <1>3, <1>5, FS_Bijection DEF ExistsBijection
  <1>7. Cardinality(later) \in Nat
    BY <1>6, FS_CardinalityType
  <1>8. IF 1 \in before THEN before = later \cup {1} /\ 1 \notin later ELSE before = later
    OBVIOUS
  <1> HIDE DEF later
  <1>9. Cardinality(before) = Once(Head(seq), g) + Cardinality(later)
    <2>1. CASE 1 \in before
      <3>1. Cardinality(before) = Cardinality(later) + 1
        BY <1>6, <1>8, <2>1, FS_AddElement
      <3> QED
        BY <1>4, <1>7, <2>1, <3>1 DEF Once
    <2>2. CASE 1 \notin before
      BY <1>4, <1>7, <1>8, <2>2 DEF Once
    <2> QED
      BY <2>1, <2>2
  <1> QED
    BY <1>6, <1>9 DEF ResultsAt, before, after, rest

\* The results of query g in the mailboxes m of the handles in Of.
Boxes(m, Of, g) == UNION {{k} \X ResultsIn(m[k], g) : k \in Of}

LEMMA BoxesSplit ==
  ASSUME NEW m \in [Queries -> Seq(Router!Stamped)], NEW g, NEW h \in Queries
  PROVE  /\ Cardinality(Boxes(m, Queries, g)) = Cardinality(Boxes(m, Queries \ {h}, g)) + ResultsAt(m[h], g)
         /\ Cardinality(Boxes(m, Queries \ {h}, g)) \in Nat /\ ResultsAt(m[h], g) \in Nat
  <1> DEFINE others == Queries \ {h}
             box == [k \in Queries |-> {k} \X ResultsIn(m[k], g)]
  <1>1. \A k \in Queries : IsFiniteSet(box[k]) /\ Cardinality(box[k]) = ResultsAt(m[k], g)
                           /\ ResultsAt(m[k], g) \in Nat
    <2> SUFFICES ASSUME NEW k \in Queries
                 PROVE  IsFiniteSet(box[k]) /\ Cardinality(box[k]) = ResultsAt(m[k], g)
                        /\ ResultsAt(m[k], g) \in Nat
      OBVIOUS
    <2>1. IsFiniteSet({k}) /\ Cardinality({k}) = 1
      BY FS_Singleton
    <2>2. IsFiniteSet(ResultsIn(m[k], g)) /\ ResultsAt(m[k], g) \in Nat
          /\ ResultsAt(m[k], g) = Cardinality(ResultsIn(m[k], g))
      BY Counted
    <2>3. IsFiniteSet(box[k]) /\ Cardinality(box[k]) = 1 * ResultsAt(m[k], g)
      BY <2>1, <2>2, FS_Product
    <2> QED
      BY <2>2, <2>3
  <1>2. IsFiniteSet(Queries)
    BY RouterFacts, FS_Interval
  <1>3. IsFiniteSet(others)
    BY <1>2, FS_RemoveElement
  <1>4. [k \in others |-> box[k]] \in Surjection(others, {box[k] : k \in others})
    BY DEF Surjection
  <1>5. IsFiniteSet({box[k] : k \in others})
    BY <1>3, <1>4, FS_Surjection
  <1>6. IsFiniteSet(Boxes(m, others, g))
    <2>1. IsFiniteSet(UNION {box[k] : k \in others})
      BY <1>1, <1>5, FS_UNION
    <2> QED
      BY <2>1 DEF Boxes
  <1>7. /\ Boxes(m, Queries, g) = Boxes(m, others, g) \cup box[h]
        /\ Boxes(m, others, g) \cap box[h] = {}
    BY DEF Boxes
  <1> HIDE DEF box, others
  <1>8. Cardinality(Boxes(m, Queries, g))
          = Cardinality(Boxes(m, others, g)) + Cardinality(box[h]) - Cardinality({})
    <2>1. IsFiniteSet(box[h])
      BY <1>1
    <2>2. Cardinality(Boxes(m, others, g) \cup box[h])
            = Cardinality(Boxes(m, others, g)) + Cardinality(box[h]) - Cardinality(Boxes(m, others, g) \cap box[h])
      BY <1>6, <2>1, FS_Union
    <2> QED
      BY <1>7, <2>2
  <1>9. Cardinality({}) = 0 /\ Cardinality(Boxes(m, others, g)) \in Nat
    BY <1>6, FS_EmptySet, FS_CardinalityType
  <1> QED
    BY <1>1, <1>8, <1>9 DEF others

-----------------------------------------------------------------------------
(* What is in the hands of readLoop, of the pump and of the router         *)

\* A held result carries no generation, and so never goes to a handle.
Bare == {sev \in Router!Stamped : sev.ev.kind = "unsolicited" => sev.gen = 0}
ForHandle(g) == {sev \in Router!Stamped : sev.gen = g /\ sev.ev.kind # "unsolicited"}

BarePipe == rlOut \in Seq(Bare) /\ pump \in Seq(Bare) /\ pumpEv \in Seq(Bare)

\* A mailbox has events for its handle only, and the eviction has one for the
\* active handle.
Delivered ==
  /\ \A h \in Queries : mailbox[h] \in Seq(ForHandle(h))
  /\ evicting # << >> => active \in Queries /\ evicting \in Seq(ForHandle(active))

\* Between two events readLoop and the pump hold none; and the router is not
\* shut down before the pump has stopped.
Hands ==
  /\ rlPc \in {"scan", "join"} => rlOut = << >>
  /\ rlPc = "exit" => rlOut[1].ev.kind = "exit"
  /\ Len(pumpEv) <= 1 /\ (pumpPc \notin {"have", "events"} => pumpEv = << >>)
  /\ rlPc \in {"exit", "shut", "shutdown", "finish", "ended"} => pumpPc = "done"
  /\ shutdown => rlPc \in {"finish", "ended"}

LEMMA NextKeepsHands ==
  ASSUME Settled, Stopped', Hands, [Next]_vars
  PROVE  Hands'
  <1>0. Len(<< >>) = 0 /\ pumpEv \in Seq(Router!Stamped)
    BY DEF Settled, SessionTypes, PumpTypes
  <1>1. CASE ReadLoop
    <2>1. UNCHANGED <<pumpEv, pumpPc>>
      BY <1>1 DEF ReadLoop, ReadEcho, ReadInit, ReadTool, ReadHeldResult, StampHeld, ReadResult, ReadApiError,
         ClearGen, TrackState, ObserveTerminal, Push, WaitProcess, ClosePump, StampExit, DeliverExit,
         CheckRouted, Shutdown, Finish, StampTerminal, pumpState
    <2>2. /\ rlPc' \in {"scan", "join"} => rlOut' = << >>
          /\ rlPc' = "exit" => rlOut'[1].ev.kind = "exit"
      BY <1>1 DEF ReadLoop, ReadEcho, ReadInit, ReadTool, ReadHeldResult, StampHeld, ReadResult, ReadApiError,
         ClearGen, TrackState, ObserveTerminal, Push, WaitProcess, ClosePump, StampExit, DeliverExit,
         CheckRouted, Shutdown, Finish, StampTerminal, Reads, WithTransition, loopState, Hands
    <2>3. rlPc' \in {"exit", "shut", "shutdown", "finish", "ended"} => pumpPc' = "done"
      <3>1. rlPc' = "exit" => pumpPc' = "done"
        BY DEF Stopped, Exiting
      <3>2. rlPc' \in {"shut", "shutdown", "finish", "ended"} =>
              rlPc \in {"exit", "shut", "shutdown", "finish", "ended"}
        BY <1>1 DEF ReadLoop, ReadEcho, ReadInit, ReadTool, ReadHeldResult, StampHeld, ReadResult, ReadApiError,
           ClearGen, TrackState, ObserveTerminal, Push, WaitProcess, ClosePump, StampExit, DeliverExit,
           CheckRouted, Shutdown, Finish, StampTerminal, Reads, WithTransition, loopState
      <3> QED
        BY <2>1, <3>1, <3>2 DEF Hands
    <2>4. shutdown' => rlPc' \in {"finish", "ended"}
      <3>1. CASE Shutdown \/ Finish
        BY <3>1 DEF Shutdown, Finish
      <3>2. CASE ~(Shutdown \/ Finish)
        <4>1. shutdown' = shutdown
          BY <1>1, <3>2, RouterEnds DEF ReadLoop, ReadEcho, ReadInit, ReadTool, ReadHeldResult, StampHeld, ReadResult, ReadApiError,
             ClearGen, TrackState, ObserveTerminal, Push, WaitProcess, ClosePump, StampExit, DeliverExit,
             CheckRouted, StampTerminal
        <4>2. rlPc \notin {"finish", "ended"}
          BY <1>1, <3>2 DEF ReadLoop, ReadEcho, ReadInit, ReadTool, ReadHeldResult, StampHeld, ReadResult, ReadApiError,
             ClearGen, TrackState, ObserveTerminal, Push, WaitProcess, ClosePump, StampExit, DeliverExit,
             CheckRouted, Reads
        <4> QED
          BY <4>1, <4>2 DEF Hands
      <3> QED
        BY <3>1, <3>2
    <2> QED
      BY <2>1, <2>2, <2>3, <2>4 DEF Hands
  <1>2. CASE Pump
    <2>1. UNCHANGED <<rlPc, rlOut>> /\ shutdown' = shutdown
      BY <1>2, RouterEnds DEF Pump, PumpTake, PumpRoute, PumpUnrouted, PumpSend, PumpBarrier, PumpFlush,
         PumpFlushed, PumpStop, Evict, loopState
    <2>2. pumpPc = "done" => pumpPc' = "done"
      BY <1>2 DEF Pump, PumpTake, PumpRoute, PumpUnrouted, PumpSend, PumpBarrier, PumpFlush,
         PumpFlushed, PumpStop, Evict, pumpState
    <2>3. Len(pumpEv') <= 1 /\ (pumpPc' \notin {"have", "events"} => pumpEv' = << >>)
      <3>1. CASE PumpTake
        <4>1. pumpEv' = <<Head(pump)>> /\ pumpPc' = "have"
          BY <3>1 DEF PumpTake
        <4>2. Len(<<Head(pump)>>) = 1
          OBVIOUS
        <4> QED
          BY <4>1, <4>2
      <3>2. CASE ~PumpTake
        <4>1. pumpEv' = << >> \/ (pumpEv' = pumpEv /\ (pumpPc' \notin {"have", "events"} => pumpPc \notin {"have", "events"}))
          BY <1>2, <3>2 DEF Pump, PumpRoute, PumpUnrouted, PumpSend, PumpBarrier, PumpFlush,
             PumpFlushed, PumpStop, Evict, pumpState
        <4> QED
          BY <1>0, <4>1 DEF Hands
      <3> QED
        BY <3>1, <3>2
    <2> QED
      BY <2>1, <2>2, <2>3 DEF Hands
  <1>3. ASSUME UNCHANGED <<rlPc, rlOut, pumpPc, pumpEv, shutdown>>
        PROVE  Hands'
    BY <1>3 DEF Hands
  <1>4. ASSUME NEW c \in Callers, StartCall(c) \/ CallStep(c)
        PROVE  Hands'
    <2>1. UNCHANGED <<rlPc, rlOut, pumpPc, pumpEv, shutdown>>
      BY <1>4 DEF StartCall, CallStep, EnableRouting, CallStamp, CallSend, PrepareQuery, ValidateSendable, CountGen,
         ArmHandle, StoreGen, MarkQuery, WriteOk, WriteFails, FailGen, FailState, FailDetach,
         loopState, pumpState, routerState, Router!Arm, Router!Detach
    <2> QED
      BY <1>3, <2>1
  <1>5. CASE Consume \/ Ticker \/ CLIStep \/ Cancel \/ UNCHANGED vars
    <2>1. UNCHANGED <<rlPc, rlOut, pumpPc, pumpEv, shutdown>>
      BY <1>5 DEF Consume, DrainOrphans, ReadEvents, WaitReceive, WaitClosed, Abandon, Ticker, TickRead, TickStamp,
         TickSend, CLIStep, Cancel, vars, loopState, pumpState, routerState, Router!DrainOrphans, Router!Receive,
         Router!Detach
    <2> QED
      BY <1>3, <2>1
  <1> QED
    BY <1>1, <1>2, <1>4, <1>5 DEF Next, Terminated

\* readLoop and the pump hand on what is bare.
LEMMA NextKeepsBare ==
  ASSUME Settled, Settled', BarePipe, Sent, MaxTicks = 0, [Next]_vars
  PROVE  BarePipe'
  <1> USE DEF Settled
  <1>1. CASE ReadLoop
    <2>1. Stamps(Bare)
      <3>1. activeGen \in 0..MaxGen /\ 0 \in 0..MaxGen
        BY CLIAssumption DEF SessionTypes, QueryTypes
      <3>2. \A of \in SUBSET Queries : StampedAs("unsolicited", of, 0) \in Bare
        BY <3>1, StampedType, StampedFields DEF Bare, Kinds
      <3>3. ASSUME ReadResult
            PROVE  StampedAs("result", Head(stdout).of, activeGen) \in Bare
        <4>1. Head(stdout).of \in SUBSET Queries
          BY <3>3, ReadsTypes DEF ReadResult, SessionTypes
        <4> QED
          BY <3>1, <4>1, StampedType, StampedFields DEF Bare, Kinds
      <3>4. Bare \subseteq Router!Stamped /\ Notices \subseteq Bare
        BY DEF Bare, Notices, Answers
      <3> QED
        BY <3>2, <3>3, <3>4 DEF Stamps
    <2>2. pumpEv' = pumpEv
      BY <1>1 DEF ReadLoop, ReadEcho, ReadInit, ReadTool, ReadHeldResult, StampHeld, ReadResult, ReadApiError,
         ClearGen, TrackState, ObserveTerminal, Push, WaitProcess, ClosePump, StampExit, DeliverExit,
         CheckRouted, Shutdown, Finish, StampTerminal, pumpState
    <2> QED
      BY <1>1, <2>1, <2>2, LoopStamps DEF BarePipe, OwnInv
  <1>2. CASE Pump
    <2>1. rlOut' = rlOut
      BY <1>2 DEF Pump, PumpTake, PumpRoute, PumpUnrouted, PumpSend, PumpBarrier, PumpFlush,
         PumpFlushed, PumpStop, Evict, loopState
    <2> QED
      BY <1>2, <2>1, PumpTakes DEF BarePipe
  <1>3. ASSUME NEW c \in Callers, CallSend(c)
        PROVE  BarePipe'
    <2>1. call[c].out[1] \in Notices
      BY <1>3, SendingParts, HeadTypes DEF CallSend, SessionTypes, OwnInv, OwnPipe
    <2>2. call[c].out[1] \in Bare
      BY <2>1 DEF Bare, Notices, Answers
    <2>3. pump' \in Seq(Bare)
      BY <1>3, <2>2, SendEnqueues DEF CallSend, BarePipe
    <2> QED
      BY <1>3, <2>3 DEF CallSend, BarePipe, loopState
  <1>4. ASSUME UNCHANGED <<rlOut, pump, pumpEv>>
        PROVE  BarePipe'
    BY <1>4 DEF BarePipe
  <1>5. ASSUME NEW c \in Callers, StartCall(c) \/ (CallStep(c) /\ ~CallSend(c))
        PROVE  BarePipe'
    <2>1. UNCHANGED <<rlOut, pump, pumpEv>>
      BY <1>5 DEF StartCall, CallStep, EnableRouting, CallStamp, PrepareQuery, ValidateSendable, CountGen,
         ArmHandle, StoreGen, MarkQuery, WriteOk, WriteFails, FailGen, FailState, FailDetach, loopState, pumpState
    <2> QED
      BY <1>4, <2>1
  <1>6. CASE Consume \/ Ticker \/ CLIStep \/ Cancel \/ UNCHANGED vars
    <2>1. UNCHANGED <<rlOut, pump, pumpEv>>
      BY <1>6 DEF Consume, DrainOrphans, ReadEvents, WaitReceive, WaitClosed, Abandon, Ticker, TickRead, TickStamp,
         TickSend, CLIStep, Cancel, vars, loopState, pumpState, Sent
    <2> QED
      BY <1>4, <2>1
  <1> QED
    BY <1>1, <1>2, <1>3, <1>5, <1>6 DEF Next, Terminated

\* What routing an event makes of the router: it is in its handle's mailbox, or
\* about to be, or among the orphans, which may lose their oldest.
RoutedTo(sev) ==
  /\ evicting = << >> /\ active' = active
  /\ \/ /\ active \in Queries /\ sev \in ForHandle(active)
        /\ mailbox' = [mailbox EXCEPT ![active] = Append(mailbox[active], sev)]
        /\ UNCHANGED <<evicting, orphans>>
     \/ /\ active \in Queries /\ sev \in ForHandle(active)
        /\ evicting' = <<sev>>
        /\ UNCHANGED <<mailbox, orphans>>
     \/ /\ \/ Len(orphans) # OrphanMailboxCap /\ orphans' = Append(orphans, sev)
           \/ Len(orphans) = OrphanMailboxCap /\ orphans' = Append(Tail(orphans), sev)
        /\ UNCHANGED <<mailbox, evicting>>
     \/ shutdown /\ UNCHANGED <<mailbox, evicting, orphans>>

LEMMA RouteForms ==
  ASSUME RouterTypes, NEW sev \in Bare, Router!RouteStamped(sev)
  PROVE  RoutedTo(sev)
  <1>0. evicting = << >>
    BY DEF Router!RouteStamped, Router!Unlocked
  <1>1. CASE Router!DropAfterShutdown(sev)
    BY <1>0, <1>1 DEF Router!DropAfterShutdown, Router!routerVars, RoutedTo
  <1>2. ASSUME Router!Addressed(sev)
        PROVE  active \in Queries /\ sev \in ForHandle(active)
    <2>1. active = sev.gen /\ active # 0
      BY <1>2, RouterFacts DEF Router!Addressed
    <2>2. active \in Queries
      BY <2>1, RouterFacts DEF RouterTypes, Router!RouterTypeOK
    <2> QED
      BY <2>1, <2>2 DEF Bare, ForHandle
  <1>3. CASE Router!Deliver(sev)
    BY <1>0, <1>2, <1>3 DEF Router!Deliver, RoutedTo
  <1>4. CASE Router!FindFull(sev)
    BY <1>0, <1>2, <1>4 DEF Router!FindFull, RoutedTo
  <1>5. CASE Router!Orphan(sev)
    BY <1>0, <1>5 DEF Router!Orphan, Router!AddOrphan, RoutedTo
  <1> QED
    BY <1>1, <1>3, <1>4, <1>5 DEF Router!RouteStamped

\* What an eviction leaves of the active handle's mailbox, before it appends.
Kept == IF mailbox[active] = << >> THEN << >> ELSE Tail(mailbox[active])

LEMMA EvictForm ==
  ASSUME RouterTypes, Delivered, Router!Evict
  PROVE  /\ active \in Queries /\ evicting # << >> /\ evicting[1] \in ForHandle(active)
         /\ evicting = <<evicting[1]>> /\ evicting' = << >>
         /\ mailbox[active] \in Seq(ForHandle(active)) /\ Kept \in Seq(ForHandle(active))
         /\ mailbox' = [mailbox EXCEPT ![active] = Append(Kept, evicting[1])]
         /\ UNCHANGED <<active, orphans>>
  <1>1. evicting # << >> /\ active \in Queries /\ evicting \in Seq(ForHandle(active))
    BY DEF Router!Evict, Delivered
  <1>2. evicting[1] \in ForHandle(active) /\ mailbox[active] \in Seq(ForHandle(active))
    BY <1>1, HeadTypes DEF Delivered
  <1>3. evicting = <<evicting[1]>>
    <2>1. Len(evicting) <= 1 /\ evicting \in Seq(Router!Stamped)
      BY DEF RouterTypes, Router!RouterTypeOK
    <2>2. PICK n \in Nat : n = Len(evicting) /\ n >= 1 /\ n <= 1
      BY <1>1, <2>1, HeadTypes
    <2>3. n = 1
      BY <2>2
    <2>4. Len(evicting) = 1 /\ evicting[1] \in Router!Stamped
      <3>1. Len(evicting) = 1
        BY <2>2, <2>3
      <3>2. evicting[1] \in Router!Stamped
        BY <1>1, <2>1, HeadTypes
      <3> QED
        BY <3>1, <3>2
    <2>5. \A x \in Router!Stamped : <<x>> \in Seq(Router!Stamped) /\ Len(<<x>>) = 1 /\ <<x>>[1] = x
      OBVIOUS
    <2>6. \A i \in 1..Len(evicting) : evicting[i] = <<evicting[1]>>[i]
      BY <2>4, <2>5
    <2> QED
      BY <2>1, <2>4, <2>5, <2>6, SeqEqual
  <1>4. Kept \in Seq(ForHandle(active))
    BY <1>2, OwnKinds, HeadTypes DEF Kept
  <1>5. mailbox' = [mailbox EXCEPT ![active] = Append(Kept, evicting[1])]
    BY <1>1, RouterFacts DEF Router!Evict, RouterTypes, Router!RouterTypeOK, Kept
  <1> QED
    BY <1>1, <1>2, <1>3, <1>4, <1>5 DEF Router!Evict

\* One mailbox changes.
LEMMA MailboxFor ==
  ASSUME RouterTypes, Delivered, NEW g \in Queries, NEW seq \in Seq(ForHandle(g)),
         mailbox' = [mailbox EXCEPT ![g] = seq]
  PROVE  \A h \in Queries : mailbox'[h] \in Seq(ForHandle(h))
  <1>1. DOMAIN mailbox = Queries
    BY RouterFacts DEF RouterTypes, Router!RouterTypeOK
  <1> QED
    BY <1>1 DEF Delivered

LEMMA RoutedKeepsDelivered ==
  ASSUME RouterTypes, Delivered, NEW sev, RoutedTo(sev)
  PROVE  Delivered'
  <1>1. ASSUME active \in Queries, sev \in ForHandle(active),
               mailbox' = [mailbox EXCEPT ![active] = Append(mailbox[active], sev)], evicting' = << >>
        PROVE  Delivered'
    <2>1. Append(mailbox[active], sev) \in Seq(ForHandle(active))
      BY <1>1, SequenceTypes DEF Delivered
    <2>2. \A h \in Queries : mailbox'[h] \in Seq(ForHandle(h))
      BY <1>1, <2>1, MailboxFor
    <2> QED
      BY <1>1, <2>2 DEF Delivered
  <1>2. ASSUME active \in Queries, sev \in ForHandle(active), evicting' = <<sev>>, UNCHANGED <<mailbox, active>>
        PROVE  Delivered'
    <2>1. <<sev>> \in Seq(ForHandle(active))
      BY <1>2
    <2> QED
      BY <1>2, <2>1 DEF Delivered
  <1>3. ASSUME UNCHANGED <<mailbox, evicting, active>>
        PROVE  Delivered'
    BY <1>3 DEF Delivered
  <1> QED
    BY <1>1, <1>2, <1>3 DEF RoutedTo

\* A mailbox takes what is addressed to its handle only.
LEMMA NextKeepsDelivered ==
  ASSUME Settled, BarePipe, Delivered, [Next]_vars
  PROVE  Delivered'
  <1>0. RouterTypes /\ CallTypes
    BY DEF Settled, SessionTypes
  <1>1. ASSUME NEW sev \in Bare, Router!RouteStamped(sev)
        PROVE  Delivered'
    BY <1>0, <1>1, RouteForms, RoutedKeepsDelivered
  <1>2. ASSUME UNCHANGED <<mailbox, evicting>>, evicting = << >> \/ active' = active
        PROVE  Delivered'
    BY <1>2 DEF Delivered
  <1>3. CASE ReadLoop
    <2>1. CASE DeliverExit
      <3>1. rlOut[1] \in Bare
        BY <2>1, HeadTypes DEF DeliverExit, Settled, SessionTypes, LoopTypes, BarePipe
      <3> QED
        BY <1>1, <1>2, <2>1, <3>1 DEF DeliverExit, routerState
    <2>2. CASE ~DeliverExit
      <3>1. UNCHANGED <<mailbox, evicting>> /\ (evicting = << >> \/ active' = active)
        BY <1>3, <2>2 DEF ReadLoop, ReadEcho, ReadInit, ReadTool, ReadHeldResult, StampHeld, ReadResult, ReadApiError,
           ClearGen, TrackState, ObserveTerminal, Push, WaitProcess, ClosePump, StampExit,
           CheckRouted, Shutdown, Finish, StampTerminal, routerState, Router!ShutdownRouter, Router!Unlocked
      <3> QED
        BY <1>2, <3>1
    <2> QED
      BY <2>1, <2>2
  <1>4. CASE Pump
    <2>1. CASE PumpRoute
      <3>1. pumpEv[1] \in Bare
        BY <2>1, HeadTypes DEF PumpRoute, Settled, SessionTypes, PumpTypes, BarePipe
      <3> QED
        BY <1>1, <2>1, <3>1 DEF PumpRoute
    <2>2. CASE Evict
      <3>1. \A h \in Queries : mailbox'[h] \in Seq(ForHandle(h))
        <4>1. Router!Evict
          BY <2>2 DEF Evict
        <4>2. Append(Kept, evicting[1]) \in Seq(ForHandle(active))
          BY <1>0, <4>1, EvictForm, SequenceTypes
        <4> QED
          BY <1>0, <4>1, <4>2, EvictForm, MailboxFor
      <3> QED
        BY <1>0, <2>2, <3>1, EvictForm DEF Evict, Delivered
    <2>3. CASE ~PumpRoute /\ ~Evict
      <3>1. UNCHANGED <<mailbox, evicting, active>>
        BY <1>4, <2>3 DEF Pump, PumpTake, PumpUnrouted, PumpSend, PumpBarrier, PumpFlush,
           PumpFlushed, PumpStop, routerState, Router!Flush
      <3> QED
        BY <1>2, <3>1
    <2> QED
      BY <2>1, <2>2, <2>3
  <1>5. ASSUME NEW c \in Callers, StartCall(c) \/ CallStep(c)
        PROVE  Delivered'
    <2>1. UNCHANGED <<mailbox, evicting>> /\ (evicting = << >> \/ active' = active)
      BY <1>5 DEF StartCall, CallStep, EnableRouting, CallStamp, CallSend, PrepareQuery, ValidateSendable, CountGen,
         ArmHandle, StoreGen, MarkQuery, WriteOk, WriteFails, FailGen, FailState, FailDetach,
         routerState, Router!Arm, Router!Detach, Router!Unlocked
    <2> QED
      BY <1>2, <2>1
  <1>6. ASSUME NEW g \in Queries, WaitReceive(g)
        PROVE  Delivered'
    <2>1. /\ mailbox[g] # << >> /\ mailbox' = [mailbox EXCEPT ![g] = Tail(mailbox[g])]
          /\ UNCHANGED <<active, evicting>>
      BY <1>6 DEF WaitReceive, Router!Receive
    <2>2. Tail(mailbox[g]) \in Seq(ForHandle(g))
      BY <2>1, HeadTypes DEF Delivered
    <2>3. \A h \in Queries : mailbox'[h] \in Seq(ForHandle(h))
      BY <1>0, <2>1, <2>2, MailboxFor
    <2> QED
      BY <2>1, <2>3 DEF Delivered
  <1>7. CASE Consume /\ ~\E g \in Queries : WaitReceive(g)
    <2>1. UNCHANGED <<mailbox, evicting>> /\ (evicting = << >> \/ active' = active)
      BY <1>7 DEF Consume, DrainOrphans, ReadEvents, WaitClosed, Abandon, routerState, Router!DrainOrphans,
         Router!Detach, Router!Unlocked
    <2> QED
      BY <1>2, <2>1
  <1>8. CASE Ticker \/ CLIStep \/ Cancel \/ UNCHANGED vars
    <2>1. UNCHANGED <<mailbox, evicting, active>>
      BY <1>8 DEF Ticker, TickRead, TickStamp, TickSend, CLIStep, Cancel, vars, routerState
    <2> QED
      BY <1>2, <2>1
  <1> QED
    BY <1>3, <1>4, <1>5, <1>6, <1>7, <1>8 DEF Next, Terminated

-----------------------------------------------------------------------------
(* What is behind a result of a query that is past                         *)

ResultOf(sev, g) == sev.gen = g /\ sev.ev.kind = "result"
Has(seq, g) == \E i \in DOMAIN seq : ResultOf(seq[i], g)

\* Behind a result of g nothing is for its handle.
Ordered(seq, g) ==
  \A i, j \in DOMAIN seq : i < j /\ ResultOf(seq[i], g) => seq[j] \in Behind(g)

\* Where a result of g is, its generation has ended, and whatever is stamped
\* with it was stamped before.
Sealed(g) ==
  /\ Has(rlOut, g) => /\ g \in Past /\ (activeGen # g \/ rlPc = "clear")
                      /\ \A i \in DOMAIN rlOut : ResultOf(rlOut[i], g) => i = Len(rlOut)
  /\ Has(pump, g) => g \in Past /\ Passed(g) /\ Ordered(pump, g)
  /\ Has(pumpEv, g) => g \in Past /\ Drained(g)
  /\ Has(evicting, g) => g \in Past /\ Emptied(g)
  /\ Has(mailbox[g], g) => g \in Past /\ Emptied(g) /\ evicting \in Seq(NotOf(g))

\* What a step leaves of it, for a query that is past.
Stays(g) ==
  g \in Past =>
    /\ g \in Past'
    /\ activeGen # g => activeGen' # g
    /\ Passed(g) => Passed(g)'
    /\ Drained(g) => Drained(g)'
    /\ Emptied(g) => Emptied(g)'

\* The ends of a sequence.
LEMMA HasOne ==
  ASSUME NEW g
  PROVE  /\ ~Has(<< >>, g)
         /\ \A sev : Has(<<sev>>, g) <=> ResultOf(sev, g)
         /\ \A sev : Ordered(<<sev>>, g)
  <1>1. DOMAIN << >> = {}
    OBVIOUS
  <1>2. \A sev : DOMAIN <<sev>> = {1} /\ <<sev>>[1] = sev
    OBVIOUS
  <1>3. \A i, j \in {1} : ~(i < j)
    OBVIOUS
  <1> QED
    BY <1>1, <1>2, <1>3 DEF Has, Ordered

LEMMA HasAppend ==
  ASSUME NEW S, NEW seq \in Seq(S), NEW sev \in S, NEW g
  PROVE  /\ Has(Append(seq, sev), g) <=> Has(seq, g) \/ ResultOf(sev, g)
         /\ (Has(seq, g) => sev \in Behind(g) /\ Ordered(seq, g)) => Ordered(Append(seq, sev), g)
  <1> DEFINE n == Len(seq) + 1
             longer == Append(seq, sev)
  <1>1. /\ n \in Nat \ {0} /\ DOMAIN seq = 1..(n - 1) /\ DOMAIN longer = 1..n /\ longer[n] = sev
        /\ \A i \in 1..(n - 1) : longer[i] = seq[i]
    OBVIOUS
  <1> HIDE DEF longer, n
  <1>2. n \in 1..n /\ \A i \in 1..n : i = n \/ i \in 1..(n - 1)
    BY <1>1
  <1>3. \A i \in 1..(n - 1) : i \in 1..n
    BY <1>1
  <1>4. Has(longer, g) <=> Has(seq, g) \/ ResultOf(sev, g)
    BY <1>1, <1>2, <1>3 DEF Has
  <1>5. ASSUME Has(seq, g) => sev \in Behind(g) /\ Ordered(seq, g),
               NEW i \in DOMAIN longer, NEW j \in DOMAIN longer, i < j, ResultOf(longer[i], g)
        PROVE  longer[j] \in Behind(g)
    <2>1. i \in 1..(n - 1) /\ longer[i] = seq[i]
      BY <1>1, <1>5
    <2>2. Has(seq, g)
      BY <1>1, <1>5, <2>1 DEF Has
    <2>3. CASE j = n
      BY <1>1, <1>5, <2>2, <2>3
    <2>4. CASE j # n
      <3>1. j \in 1..(n - 1) /\ longer[j] = seq[j]
        BY <1>1, <1>2, <2>4
      <3> QED
        BY <1>1, <1>5, <2>1, <2>2, <3>1 DEF Ordered
    <2> QED
      BY <2>3, <2>4
  <1>6. (Has(seq, g) => sev \in Behind(g) /\ Ordered(seq, g)) => Ordered(longer, g)
    BY <1>5 DEF Ordered
  <1> QED
    BY <1>4, <1>6 DEF longer

LEMMA HasTail ==
  ASSUME NEW S, NEW seq \in Seq(S), seq # << >>, NEW g
  PROVE  /\ Has(Tail(seq), g) => Has(seq, g)
         /\ ResultOf(Head(seq), g) => Has(seq, g)
         /\ Ordered(seq, g) => Ordered(Tail(seq), g)
         /\ Ordered(seq, g) /\ ResultOf(Head(seq), g) => Tail(seq) \in Seq(Behind(g))
         /\ (\A i \in DOMAIN seq : ResultOf(seq[i], g) => i = Len(seq)) =>
              /\ \A i \in DOMAIN Tail(seq) : ResultOf(Tail(seq)[i], g) => i = Len(Tail(seq))
              /\ ResultOf(Head(seq), g) => Tail(seq) = << >>
  <1> DEFINE n == Len(seq)
             rest == Tail(seq)
  <1>1. /\ n \in Nat \ {0} /\ DOMAIN seq = 1..n /\ DOMAIN rest = 1..(n - 1) /\ Len(rest) = n - 1
        /\ \A i \in 1..(n - 1) : rest[i] = seq[i + 1]
        /\ Head(seq) = seq[1] /\ rest \in Seq(S)
    OBVIOUS
  <1>2. n = 1 => rest = << >>
    BY <1>1, EmptySeq
  <1> HIDE DEF rest
  <1>3. \A i \in 1..(n - 1) : i + 1 \in 1..n /\ 1 < i + 1
    BY <1>1
  <1>4. 1 \in 1..n
    BY <1>1
  <1>5. (Has(rest, g) => Has(seq, g)) /\ (ResultOf(Head(seq), g) => Has(seq, g))
    BY <1>1, <1>3, <1>4 DEF Has
  <1>6. ASSUME Ordered(seq, g), NEW i \in DOMAIN rest, NEW j \in DOMAIN rest, i < j, ResultOf(rest[i], g)
        PROVE  rest[j] \in Behind(g)
    <2>1. i + 1 \in DOMAIN seq /\ j + 1 \in DOMAIN seq /\ i + 1 < j + 1
      BY <1>1, <1>6
    <2> QED
      BY <1>1, <1>6, <2>1 DEF Ordered
  <1>7. ASSUME Ordered(seq, g), ResultOf(Head(seq), g)
        PROVE  rest \in Seq(Behind(g))
    <2>1. \A j \in DOMAIN rest : rest[j] \in Behind(g)
      BY <1>1, <1>3, <1>4, <1>7 DEF Ordered
    <2> QED
      BY <1>1, <2>1, SeqOf
  <1>8. ASSUME \A i \in DOMAIN seq : ResultOf(seq[i], g) => i = Len(seq)
        PROVE  /\ \A i \in DOMAIN rest : ResultOf(rest[i], g) => i = Len(rest)
               /\ ResultOf(Head(seq), g) => rest = << >>
    BY <1>1, <1>2, <1>3, <1>4, <1>8
  <1> QED
    BY <1>5, <1>6, <1>7, <1>8 DEF Ordered, rest

\* What a call sends is not for the handle of a query that is past.
LEMMA SendsPast ==
  ASSUME Settled, Sent, NEW c \in Callers, call[c].pc = "send", NEW g \in Past
  PROVE  call[c].out[1] \in Behind(g) /\ call[c].out[1] \in Notices
  <1>1. call[c].out[1] \in Router!Stamped
    BY SendingParts DEF Settled, SessionTypes
  <1>2. ASSUME call[c].out[1].ev.kind # "barrier"
        PROVE  call[c].out[1] \in Behind(g)
    <2>1. Asking(call[c])
      BY <1>2 DEF Asking, Marked
    <2>2. call[c].gen # g /\ g # 0
      BY <2>1, RouterFacts DEF Past
    <2> QED
      BY <1>1, <1>2, <2>2 DEF Sent, Behind
  <1>3. call[c].out[1] \in Notices
    BY SendingParts, HeadTypes DEF Settled, SessionTypes, OwnInv, OwnPipe
  <1> QED
    BY <1>1, <1>2, <1>3 DEF Behind

\* What is stamped with a generation that is past was stamped before its end.
LEMMA NextStays ==
  ASSUME Settled, Sent, PastGrows, MaxTicks = 0, NEW g \in Queries, [Next]_vars
  PROVE  Stays(g)
  <1> USE DEF Settled
  <1> SUFFICES ASSUME g \in Past
               PROVE  /\ activeGen # g => activeGen' # g
                      /\ Passed(g) => Passed(g)'
                      /\ Drained(g) => Drained(g)'
                      /\ Emptied(g) => Emptied(g)'
    BY DEF Stays, PastGrows
  <1>0. g # 0 /\ NotOf(g) \subseteq Behind(g) /\ pump \in Seq(Router!Stamped) /\ pumpEv \in Seq(Router!Stamped)
    BY RouterFacts DEF NotOf, Behind, SessionTypes, PumpTypes
  <1>1. CASE ReadLoop
    <2>1. activeGen' \in {activeGen, 0}
      BY <1>1 DEF ReadLoop, ReadEcho, ReadInit, ReadTool, ReadHeldResult, StampHeld, ReadResult, ReadApiError,
         ClearGen, TrackState, ObserveTerminal, Push, WaitProcess, ClosePump, StampExit, DeliverExit,
         CheckRouted, Shutdown, Finish, StampTerminal, queryState
    <2>2. UNCHANGED <<pumpPc, pumpEv>>
      BY <1>1 DEF ReadLoop, ReadEcho, ReadInit, ReadTool, ReadHeldResult, StampHeld, ReadResult, ReadApiError,
         ClearGen, TrackState, ObserveTerminal, Push, WaitProcess, ClosePump, StampExit, DeliverExit,
         CheckRouted, Shutdown, Finish, StampTerminal, pumpState
    <2>3. Passed(g) => Passed(g)'
      <3>1. Passed(g) => rlOut' \in Seq(NotOf(g))
        BY <1>0, <1>1, StampsOthers, LoopStamps DEF Passed, OwnInv, NotOf
      <3> QED
        BY <1>0, <2>1, <3>1 DEF Passed, NotOf
    <2>4. Drained(g) => pump' \in Seq(Behind(g))
      BY <1>0, <1>1, StampsOthers, LoopStamps DEF Drained, Passed, OwnInv
    <2> QED
      BY <1>0, <2>1, <2>2, <2>3, <2>4 DEF Drained, Emptied, Behind
  <1>2. CASE Pump
    <2>1. UNCHANGED <<activeGen, rlOut>>
      BY <1>2 DEF Pump, PumpTake, PumpRoute, PumpUnrouted, PumpSend, PumpBarrier, PumpFlush,
         PumpFlushed, PumpStop, Evict, queryState, loopState
    <2>2. CASE PumpTake
      <3>1. pump # << >> /\ pump' = Tail(pump) /\ pumpEv' = <<Head(pump)>>
        BY <2>2 DEF PumpTake
      <3>2. pump \in Seq(Behind(g)) => Head(pump) \in Behind(g) /\ Tail(pump) \in Seq(Behind(g))
        BY <3>1, HeadTypes
      <3>3. pumpEv'[1] = Head(pump)
        BY <3>1
      <3> QED
        BY <2>1, <3>1, <3>2, <3>3 DEF Passed, Drained, Emptied, NotOf, Behind
    <2>3. CASE ~PumpTake
      <3>1. pump' = pump /\ (pumpPc' \in {"have", "events"} => pumpPc \in {"have", "events"} /\ pumpEv' = pumpEv)
        BY <1>2, <2>3 DEF Pump, PumpRoute, PumpUnrouted, PumpSend, PumpBarrier, PumpFlush,
           PumpFlushed, PumpStop, Evict, pumpState
      <3> QED
        BY <2>1, <3>1 DEF Passed, Drained, Emptied, NotOf, Behind
    <2> QED
      BY <2>2, <2>3
  <1>3. ASSUME UNCHANGED <<rlOut, pumpPc, pumpEv>>, activeGen # g => activeGen' # g,
               pump' = pump \/ \E sev \in Behind(g) : pump' = Append(pump, sev)
        PROVE  /\ activeGen # g => activeGen' # g
               /\ Passed(g) => Passed(g)'
               /\ Drained(g) => Drained(g)'
               /\ Emptied(g) => Emptied(g)'
    <2>1. pump \in Seq(Behind(g)) => pump' \in Seq(Behind(g))
      BY <1>3, SequenceTypes
    <2> QED
      BY <1>3, <2>1 DEF Passed, Drained, Emptied, NotOf, Behind
  <1>4. ASSUME NEW c \in Callers, CallStep(c)
        PROVE  /\ activeGen # g => activeGen' # g
               /\ Passed(g) => Passed(g)'
               /\ Drained(g) => Drained(g)'
               /\ Emptied(g) => Emptied(g)'
    <2>1. UNCHANGED <<rlOut, pumpPc, pumpEv>>
      BY <1>4 DEF CallStep, EnableRouting, CallStamp, CallSend, PrepareQuery, ValidateSendable, CountGen,
         ArmHandle, StoreGen, MarkQuery, WriteOk, WriteFails, FailGen, FailState, FailDetach,
         loopState, pumpState
    <2>2. activeGen' \in {activeGen, 0} \/ (activeGen' = call[c].gen /\ Asking(call[c]))
      BY <1>4 DEF CallStep, EnableRouting, CallStamp, CallSend, PrepareQuery, ValidateSendable, CountGen,
         ArmHandle, StoreGen, MarkQuery, WriteOk, WriteFails, FailGen, FailState, FailDetach,
         queryState, Asking
    <2>3. activeGen # g => activeGen' # g
      BY <1>0, <2>2 DEF Past
    <2>4. pump' = pump \/ \E sev \in Behind(g) : pump' = Append(pump, sev)
      <3>1. CASE CallSend(c)
        <4>1. call[c].out[1] \in Behind(g)
          BY <3>1, SendsPast DEF CallSend
        <4> QED
          BY <3>1, <4>1 DEF CallSend, SendSelect
      <3>2. CASE ~CallSend(c)
        BY <1>4, <3>2 DEF CallStep, EnableRouting, CallStamp, PrepareQuery, ValidateSendable, CountGen,
           ArmHandle, StoreGen, MarkQuery, WriteOk, WriteFails, FailGen, FailState, FailDetach, pumpState
      <3> QED
        BY <3>1, <3>2
    <2> QED
      BY <1>3, <2>1, <2>3, <2>4
  <1>5. CASE Consume \/ CLIStep \/ Cancel \/ UNCHANGED vars \/ \E c \in Callers : StartCall(c)
    <2>1. UNCHANGED <<activeGen, rlOut, pump, pumpPc, pumpEv>>
      BY <1>5 DEF Consume, DrainOrphans, ReadEvents, WaitReceive, WaitClosed, Abandon, CLIStep, Cancel, StartCall,
         vars, queryState, loopState, pumpState
    <2> QED
      BY <1>3, <2>1
  <1>6. CASE Ticker
    BY <1>6 DEF Sent, Ticker, TickRead, TickStamp, TickSend
  <1> QED
    BY <1>1, <1>2, <1>4, <1>5, <1>6 DEF Next, Terminated

LEMMA SealedAgain ==
  ASSUME NEW g,
         Has(rlOut', g) => /\ g \in Past' /\ (activeGen' # g \/ rlPc' = "clear")
                           /\ \A i \in DOMAIN rlOut' : ResultOf(rlOut'[i], g) => i = Len(rlOut'),
         Has(pump', g) => g \in Past' /\ Passed(g)' /\ Ordered(pump', g),
         Has(pumpEv', g) => g \in Past' /\ Drained(g)',
         Has(evicting', g) => g \in Past' /\ Emptied(g)',
         Has(mailbox'[g], g) => g \in Past' /\ Emptied(g)' /\ evicting' \in Seq(NotOf(g))
  PROVE  Sealed(g)'
  BY DEF Sealed, Has, Ordered, ResultOf, Behind, NotOf

\* A step that leaves what the pump and the router hold.
LEMMA LoopFrame ==
  ASSUME NEW g \in Queries, Sealed(g), Stays(g), UNCHANGED <<pump, pumpEv, evicting, mailbox>>,
         Has(rlOut', g) => /\ g \in Past' /\ (activeGen' # g \/ rlPc' = "clear")
                           /\ \A i \in DOMAIN rlOut' : ResultOf(rlOut'[i], g) => i = Len(rlOut')
  PROVE  Sealed(g)'
  <1>1. Has(pump', g) => g \in Past' /\ Passed(g)' /\ Ordered(pump', g)
    BY DEF Sealed, Stays
  <1>2. Has(pumpEv', g) => g \in Past' /\ Drained(g)'
    BY DEF Sealed, Stays
  <1>3. Has(evicting', g) => g \in Past' /\ Emptied(g)'
    BY DEF Sealed, Stays
  <1>4. Has(mailbox'[g], g) => g \in Past' /\ Emptied(g)' /\ evicting' \in Seq(NotOf(g))
    BY DEF Sealed, Stays
  <1> QED
    BY <1>1, <1>2, <1>3, <1>4, SealedAgain

\* Routing hands a result on, and puts nothing behind it for its handle.
LEMMA RouteKeepsSealed ==
  ASSUME RouterTypes, Delivered, NEW g \in Queries, Sealed(g), Stays(g), NEW sev \in Router!Stamped, RoutedTo(sev),
         ResultOf(sev, g) => g \in Past' /\ Emptied(g)',
         Has(mailbox[g], g) => sev.gen # g
  PROVE  /\ Has(evicting', g) => g \in Past' /\ Emptied(g)'
         /\ Has(mailbox'[g], g) => g \in Past' /\ Emptied(g)' /\ evicting' \in Seq(NotOf(g))
  <1>0. /\ mailbox[g] \in Seq(Router!Stamped) /\ DOMAIN mailbox = Queries
        /\ evicting = << >> /\ << >> \in Seq(NotOf(g)) /\ ~Has(<< >>, g)
    BY RouterFacts, OwnKinds, HasOne DEF RouterTypes, Router!RouterTypeOK, RoutedTo
  <1>1. Has(mailbox[g], g) => g \in Past' /\ Emptied(g)'
    BY DEF Sealed, Stays
  <1>2. CASE active \in Queries /\ sev \in ForHandle(active)
             /\ mailbox' = [mailbox EXCEPT ![active] = Append(mailbox[active], sev)] /\ evicting' = evicting
    <2>1. mailbox'[g] = IF active = g THEN Append(mailbox[g], sev) ELSE mailbox[g]
      BY <1>0, <1>2
    <2>2. Has(mailbox'[g], g) => Has(mailbox[g], g) \/ ResultOf(sev, g)
      BY <1>0, <2>1, HasAppend
    <2> QED
      BY <1>0, <1>1, <1>2, <2>2
  <1>3. CASE evicting' = <<sev>> /\ mailbox' = mailbox
    <2>1. Has(evicting', g) => ResultOf(sev, g)
      BY <1>3, HasOne
    <2>2. Has(mailbox[g], g) => <<sev>> \in Seq(NotOf(g))
      BY DEF NotOf
    <2> QED
      BY <1>1, <1>3, <2>1, <2>2
  <1>4. CASE UNCHANGED <<mailbox, evicting>>
    BY <1>0, <1>1, <1>4
  <1> QED
    BY <1>2, <1>3, <1>4 DEF RoutedTo

\* Goroutines other than readLoop and the pump, and the CLI, enqueue notices
\* that are for no query that is past, and only take out of a mailbox.
LEMMA OthersKeepSealed ==
  ASSUME SessionTypes, NEW g \in Queries, Sealed(g), Stays(g), UNCHANGED <<rlOut, rlPc, pumpEv, evicting>>,
         \/ pump' = pump
         \/ \E sev \in Notices : pump' = Append(pump, sev) /\ (g \in Past => sev \in Behind(g)),
         Has(mailbox'[g], g) => Has(mailbox[g], g)
  PROVE  Sealed(g)'
  <1>0. pump \in Seq(Router!Stamped)
    BY DEF SessionTypes, PumpTypes
  <1>1. Has(rlOut', g) => /\ g \in Past' /\ (activeGen' # g \/ rlPc' = "clear")
                          /\ \A i \in DOMAIN rlOut' : ResultOf(rlOut'[i], g) => i = Len(rlOut')
    BY DEF Sealed, Stays
  <1>2. Has(pump', g) => g \in Past' /\ Passed(g)' /\ Ordered(pump', g)
    <2>1. CASE pump' = pump
      BY <2>1 DEF Sealed, Stays
    <2>2. ASSUME NEW sev \in Notices, pump' = Append(pump, sev), g \in Past => sev \in Behind(g), Has(pump', g)
          PROVE  g \in Past' /\ Passed(g)' /\ Ordered(pump', g)
      <3>1. sev \in Router!Stamped /\ ~ResultOf(sev, g)
        BY <2>2 DEF Notices, ResultOf, Answers
      <3>2. Has(pump, g)
        BY <1>0, <2>2, <3>1, HasAppend
      <3>3. g \in Past /\ Passed(g) /\ Ordered(pump, g)
        BY <3>2 DEF Sealed
      <3>4. Ordered(pump', g)
        BY <1>0, <2>2, <3>1, <3>3, HasAppend
      <3> QED
        BY <3>3, <3>4 DEF Stays
    <2> QED
      BY <2>1, <2>2
  <1>3. Has(pumpEv', g) => g \in Past' /\ Drained(g)'
    BY DEF Sealed, Stays
  <1>4. Has(evicting', g) => g \in Past' /\ Emptied(g)'
    BY DEF Sealed, Stays
  <1>5. Has(mailbox'[g], g) => g \in Past' /\ Emptied(g)' /\ evicting' \in Seq(NotOf(g))
    BY DEF Sealed, Stays
  <1> QED
    BY <1>1, <1>2, <1>3, <1>4, <1>5, SealedAgain

\* The pump takes a result out of its channel when what is behind it there is
\* for no handle, and an eviction makes room for it in its own mailbox.
LEMMA PumpKeepsSealed ==
  ASSUME Settled, Unrouted, BarePipe, Delivered, NEW g \in Queries, Sealed(g), Stays(g), Pump
  PROVE  Sealed(g)'
  <1> USE DEF Settled
  <1>0. /\ pump \in Seq(Router!Stamped) /\ pumpEv \in Seq(Router!Stamped) /\ RouterTypes /\ g # 0
        /\ mailbox[g] \in Seq(Router!Stamped) /\ DOMAIN mailbox = Queries
        /\ ~Has(<< >>, g) /\ << >> \in Seq(NotOf(g))
    BY RouterFacts, HasOne, OwnKinds DEF SessionTypes, PumpTypes, RouterTypes, Router!RouterTypeOK
  <1>1. Has(rlOut', g) => /\ g \in Past' /\ (activeGen' # g \/ rlPc' = "clear")
                          /\ \A i \in DOMAIN rlOut' : ResultOf(rlOut'[i], g) => i = Len(rlOut')
    <2>1. UNCHANGED <<rlOut, rlPc>>
      BY DEF Pump, PumpTake, PumpRoute, PumpUnrouted, PumpSend, PumpBarrier, PumpFlush,
         PumpFlushed, PumpStop, Evict, loopState
    <2> QED
      BY <2>1 DEF Sealed, Stays
  <1>2. CASE PumpTake
    <2>1. /\ pump # << >> /\ pump' = Tail(pump) /\ pumpEv' = <<Head(pump)>> /\ UNCHANGED <<evicting, mailbox>>
      BY <1>2 DEF PumpTake, routerState
    <2>2. Has(pump', g) => g \in Past' /\ Passed(g)' /\ Ordered(pump', g)
      BY <1>0, <2>1, HasTail DEF Sealed, Stays
    <2>3. ASSUME Has(pumpEv', g)
          PROVE  g \in Past' /\ Drained(g)'
      <3>1. ResultOf(Head(pump), g)
        BY <2>1, <2>3, HasOne
      <3>2. g \in Past /\ Passed(g) /\ pump' \in Seq(Behind(g))
        BY <1>0, <2>1, <3>1, HasTail DEF Sealed
      <3> QED
        BY <3>2 DEF Stays, Drained, Behind
    <2>4. Has(evicting', g) => g \in Past' /\ Emptied(g)'
      BY <2>1 DEF Sealed, Stays
    <2>5. Has(mailbox'[g], g) => g \in Past' /\ Emptied(g)' /\ evicting' \in Seq(NotOf(g))
      BY <2>1 DEF Sealed, Stays
    <2> QED
      BY <1>1, <2>2, <2>3, <2>4, <2>5, SealedAgain
  <1>3. ASSUME pump' = pump
        PROVE  Has(pump', g) => g \in Past' /\ Passed(g)' /\ Ordered(pump', g)
    BY <1>3 DEF Sealed, Stays
  <1>4. CASE PumpRoute
    <2>1. /\ pump' = pump /\ pumpEv' = << >> /\ pumpPc' = "idle" /\ Router!RouteStamped(pumpEv[1])
          /\ (pumpPc = "have" /\ ~IsBarrier) \/ pumpPc = "events"
          /\ pumpEv # << >>
      BY <1>4 DEF PumpRoute, SessionTypes, PumpTypes
    <2>2. pumpEv[1] \in Bare /\ 1 \in DOMAIN pumpEv
      BY <1>0, <2>1, HeadTypes DEF BarePipe
    <2>3. RoutedTo(pumpEv[1]) /\ pumpEv[1] \in Router!Stamped
      BY <1>0, <2>1, <2>2, RouteForms DEF Bare
    <2>4. ResultOf(pumpEv[1], g) => g \in Past' /\ Emptied(g)'
      <3>1. ResultOf(pumpEv[1], g) => g \in Past /\ Drained(g)
        BY <2>2 DEF Has, Sealed
      <3> QED
        BY <2>1, <3>1 DEF Stays, Emptied
    <2>5. Has(mailbox[g], g) => pumpEv[1].gen # g
      <3>1. Has(mailbox[g], g) => pumpEv[1] \in Behind(g)
        BY <2>1 DEF Sealed, Emptied
      <3> QED
        BY <1>0, <2>1, <3>1 DEF Behind, IsBarrier, Unrouted
    <2>6. /\ Has(evicting', g) => g \in Past' /\ Emptied(g)'
          /\ Has(mailbox'[g], g) => g \in Past' /\ Emptied(g)' /\ evicting' \in Seq(NotOf(g))
      BY <1>0, <2>3, <2>4, <2>5, RouteKeepsSealed
    <2>7. ~Has(pumpEv', g)
      BY <1>0, <2>1
    <2> QED
      BY <1>1, <1>3, <2>1, <2>6, <2>7, SealedAgain
  <1>5. CASE Evict
    <2>1. Router!Evict /\ UNCHANGED <<pump, pumpEv>>
      BY <1>5 DEF Evict, pumpState
    <2>2. /\ active \in Queries /\ evicting[1] \in ForHandle(active) /\ evicting # << >>
          /\ evicting' = << >> /\ Kept \in Seq(ForHandle(active)) /\ mailbox[active] \in Seq(ForHandle(active))
          /\ mailbox' = [mailbox EXCEPT ![active] = Append(Kept, evicting[1])]
      BY <1>0, <2>1, EvictForm
    <2>3. Has(mailbox'[g], g) => Has(mailbox[g], g) \/ Has(evicting, g)
      <3>1. CASE active = g
        <4>1. Has(Kept, g) => Has(mailbox[g], g)
          BY <1>0, <3>1, HasTail DEF Kept
        <4>2. Has(Append(Kept, evicting[1]), g) => Has(Kept, g) \/ ResultOf(evicting[1], g)
          BY <2>2, HasAppend
        <4>3. 1 \in DOMAIN evicting
          BY <1>0, <2>2, HeadTypes DEF RouterTypes, Router!RouterTypeOK
        <4>4. mailbox'[g] = Append(Kept, evicting[1])
          BY <1>0, <2>2, <3>1
        <4>5. ResultOf(evicting[1], g) => Has(evicting, g)
          BY <4>3 DEF Has
        <4> QED
          BY <4>1, <4>2, <4>4, <4>5
      <3>2. CASE active # g
        BY <1>0, <2>2, <3>2
      <3> QED
        BY <3>1, <3>2
    <2>4. Has(mailbox'[g], g) => g \in Past' /\ Emptied(g)' /\ evicting' \in Seq(NotOf(g))
      BY <1>0, <2>2, <2>3 DEF Sealed, Stays
    <2>5. ~Has(evicting', g)
      BY <1>0, <2>2
    <2>6. Has(pumpEv', g) => g \in Past' /\ Drained(g)'
      BY <2>1 DEF Sealed, Stays
    <2> QED
      BY <1>1, <1>3, <2>1, <2>4, <2>5, <2>6, SealedAgain
  <1>6. CASE ~(PumpTake \/ PumpRoute \/ Evict)
    <2>1. UNCHANGED <<pump, evicting, mailbox>> /\ pumpEv' \in {pumpEv, << >>}
      BY <1>6 DEF Pump, PumpUnrouted, PumpSend, PumpBarrier, PumpFlush,
         PumpFlushed, PumpStop, pumpState, routerState, Router!Flush
    <2>2. Has(pumpEv', g) => g \in Past' /\ Drained(g)'
      BY <1>0, <2>1 DEF Sealed, Stays
    <2>3. Has(evicting', g) => g \in Past' /\ Emptied(g)'
      BY <2>1 DEF Sealed, Stays
    <2>4. Has(mailbox'[g], g) => g \in Past' /\ Emptied(g)' /\ evicting' \in Seq(NotOf(g))
      BY <2>1 DEF Sealed, Stays
    <2> QED
      BY <1>1, <1>3, <2>1, <2>2, <2>3, <2>4, SealedAgain
  <1> QED
    BY <1>2, <1>4, <1>5, <1>6

\* What readLoop holds when it has read a line, or the end of them: an event, and
\* the transition it causes.
Holds(sev) ==
  \/ rlOut' = <<sev>>
  \/ \E next \in Activities : rlOut' = <<StampedAs(next, sev.ev.of, sev.gen), sev>>

LEMMA LoopReads ==
  ASSUME SessionTypes, \/ ReadInit \/ ReadTool \/ ReadHeldResult \/ ReadResult \/ ReadApiError \/ StampExit
                       \/ (WaitProcess /\ rlPc' # "scan")
  PROVE  \E sev \in Router!Stamped :
           /\ Holds(sev)
           /\ sev.ev.kind = "result" => ReadResult
           /\ sev.ev.kind \in Answers => /\ Reads("result") /\ sev.ev.of = Head(stdout).of
                                         /\ ReadHeldResult \/ ReadResult
  <1>0. activeGen \in 0..MaxGen /\ 0 \in 0..MaxGen /\ {} \in SUBSET Queries /\ CLITypes
    BY CLIAssumption DEF SessionTypes, QueryTypes
  <1>1. CASE ReadInit
    BY <1>0, <1>1, StampedType, StampedFields DEF ReadInit, Kinds, Answers, Holds
  <1>2. ASSUME NEW kind \in Kinds, NEW of \in SUBSET Queries, StampTerminal(kind, of)
        PROVE  StampedAs(kind, of, activeGen) \in Router!Stamped /\ Holds(StampedAs(kind, of, activeGen))
    BY <1>0, <1>2, StampedType DEF StampTerminal, Holds
  <1>3. CASE ReadApiError \/ StampExit \/ (WaitProcess /\ rlPc' # "scan")
    <2>1. \E kind \in {"fatal", "exit"} : \E of \in SUBSET Queries : StampTerminal(kind, of)
      BY <1>0, <1>3, ReadsTypes DEF ReadApiError, StampExit, WaitProcess
    <2>2. PICK kind \in {"fatal", "exit"}, of \in SUBSET Queries : StampTerminal(kind, of)
      BY <2>1
    <2>3. kind \in Kinds /\ kind \notin Answers /\ kind # "result"
      BY DEF Kinds, Answers
    <2> QED
      BY <1>2, <2>2, <2>3, StampedFields
  <1>4. CASE ReadResult
    <2>1. /\ StampTerminal("result", Head(stdout).of) /\ Reads("result")
          /\ Head(stdout).of \in SUBSET Queries /\ "result" \in Kinds
      BY <1>0, <1>4, ReadsTypes DEF ReadResult, Kinds
    <2> QED
      BY <1>2, <1>4, <2>1, StampedFields
  <1>5. ASSUME NEW kind \in Kinds, NEW next \in Activities, NEW of \in SUBSET Queries, NEW gen \in 0..MaxGen, NEW pc,
               WithTransition(next, StampedAs(kind, of, gen), pc)
        PROVE  StampedAs(kind, of, gen) \in Router!Stamped /\ Holds(StampedAs(kind, of, gen))
    <2>1. StampedAs(kind, of, gen) \in Router!Stamped
      BY StampedType
    <2> QED
      BY <1>5, <2>1, WithTransitionTypes DEF Holds
  <1>6. CASE ReadTool
    <2>1. /\ WithTransition("awaiting", StampedAs("tool", Head(stdout).of, activeGen), "push")
          /\ Head(stdout).of \in SUBSET Queries /\ "tool" \in Kinds /\ "tool" \notin Answers /\ "awaiting" \in Activities
      BY <1>0, <1>6, ReadsTypes DEF ReadTool, Kinds, Answers, Activities
    <2> QED
      BY <1>0, <1>5, <2>1, StampedFields DEF Answers
  <1>7. CASE ReadHeldResult
    <2>1. PICK next \in Activities : WithTransition(next, StampedAs("unsolicited", Head(stdout).of, 0), "held")
      BY <1>7 DEF ReadHeldResult, Activities
    <2>2. Reads("result") /\ Head(stdout).of \in SUBSET Queries /\ "unsolicited" \in Kinds
      BY <1>0, <1>7, ReadsTypes DEF ReadHeldResult, Kinds
    <2> QED
      BY <1>0, <1>5, <1>7, <2>1, <2>2, StampedFields
  <1> QED
    BY <1>1, <1>3, <1>4, <1>6, <1>7

LEMMA HasPair ==
  ASSUME NEW g, NEW x, NEW y
  PROVE  /\ Has(<<x, y>>, g) <=> ResultOf(x, g) \/ ResultOf(y, g)
         /\ ~ResultOf(x, g) => \A i \in DOMAIN <<x, y>> : ResultOf(<<x, y>>[i], g) => i = Len(<<x, y>>)
  <1>1. DOMAIN <<x, y>> = {1, 2} /\ Len(<<x, y>>) = 2 /\ <<x, y>>[1] = x /\ <<x, y>>[2] = y
    OBVIOUS
  <1> QED
    BY <1>1 DEF Has

\* readLoop keeps a result last until it has enqueued it, and ends its
\* generation before that.
LEMMA LoopKeepsSealed ==
  ASSUME Settled, Settled', Stopped, BarePipe, Delivered, Hands, NEW g \in Queries, Sealed(g), Stays(g), ReadLoop
  PROVE  Sealed(g)'
  <1> USE DEF Settled
  <1> DEFINE Last == /\ g \in Past' /\ (activeGen' # g \/ rlPc' = "clear")
                     /\ \A i \in DOMAIN rlOut' : ResultOf(rlOut'[i], g) => i = Len(rlOut')
  <1>0. /\ rlOut \in Seq(Router!Stamped) /\ pump \in Seq(Router!Stamped) /\ RouterTypes /\ g # 0
        /\ ~Has(<< >>, g) /\ << >> \in Seq(NotOf(g))
    BY RouterFacts, HasOne, OwnKinds DEF SessionTypes, LoopTypes, PumpTypes
  <1>1. CASE ReadResult
    <2>1. rlOut' = <<StampedAs("result", Head(stdout).of, activeGen)>> /\ rlPc' = "clear" /\ stdout # << >>
          /\ UNCHANGED <<pump, pumpEv, evicting, mailbox>> /\ Head(stdout).kind = "result"
      BY <1>1 DEF ReadResult, StampTerminal, Reads, pumpState, routerState
    <2>2. ASSUME Has(rlOut', g)
          PROVE  Last
      <3>1. activeGen = g
        BY <2>1, <2>2, HasOne, StampedFields DEF ResultOf
      <3>2. g \in Head(stdout).of /\ Head(stdout) = stdout[1] /\ 1 \in DOMAIN stdout
        BY <1>0, <1>1, <3>1, ReadResultIsAnswer DEF AnswerIn, SessionTypes, CLITypes
      <3>3. g \in Past
        BY <2>1, <3>2 DEF Pending, LateInv, PendingOwn
      <3>4. \A x : DOMAIN <<x>> = {1} /\ Len(<<x>>) = 1
        OBVIOUS
      <3> QED
        BY <2>1, <3>3, <3>4 DEF Stays
    <2> QED
      BY <2>1, <2>2, LoopFrame
  <1>2. CASE StampHeld
    <2>1. /\ rlPc = "held" /\ rlOut' = [rlOut EXCEPT ![1].gen = IF Len(rlOut) = 2 THEN activeGen ELSE @]
          /\ UNCHANGED <<activeGen, pump, pumpEv, evicting, mailbox>>
      BY <1>2 DEF StampHeld, pumpState, routerState, queryState
    <2>2. /\ Len(rlOut) \in {1, 2} /\ DOMAIN rlOut = 1..Len(rlOut)
          /\ Len(rlOut) = 1 => rlOut[1].gen = 0
          /\ Len(rlOut) = 2 => rlOut[1].ev.kind \notin Answers
      BY <1>0, <2>1 DEF OwnInv, HeldIsLast
    <2>3. /\ DOMAIN rlOut' = DOMAIN rlOut
          /\ rlOut'[1] = [rlOut[1] EXCEPT !.gen = IF Len(rlOut) = 2 THEN activeGen ELSE rlOut[1].gen]
          /\ \A i \in DOMAIN rlOut : i # 1 => rlOut'[i] = rlOut[i]
      BY <2>1, <2>2
    <2>4. rlOut[1] \in Router!Stamped
      BY <1>0, <2>2
    <2>5. /\ rlOut'[1].ev = rlOut[1].ev
          /\ Len(rlOut) = 1 => rlOut'[1].gen = 0
      BY <2>2, <2>3, <2>4 DEF Router!Stamped
    <2>6. ASSUME NEW i \in DOMAIN rlOut', ResultOf(rlOut'[i], g)
          PROVE  i = 2 /\ i \in DOMAIN rlOut /\ Len(rlOut) = 2 /\ ResultOf(rlOut[i], g)
      <3>1. CASE i = 1
        BY <1>0, <2>2, <2>5, <2>6, <3>1 DEF ResultOf, Answers
      <3>2. CASE i # 1
        BY <2>2, <2>3, <2>6, <3>2
      <3> QED
        BY <3>1, <3>2
    <2>7. rlOut' \in Seq(Router!Stamped)
      BY DEF SessionTypes, LoopTypes
    <2>8. Len(rlOut') = Len(rlOut)
      BY <1>0, <2>3, <2>7
    <2>9. ASSUME Has(rlOut', g)
          PROVE  Last
      <3>1. Has(rlOut, g)
        BY <2>6, <2>9 DEF Has
      <3>2. g \in Past /\ activeGen # g
        BY <2>1, <3>1 DEF Sealed
      <3> QED
        BY <2>1, <2>6, <2>8, <3>2 DEF Stays
    <2> QED
      BY <2>1, <2>9, LoopFrame
  <1>3. CASE ObserveTerminal
    <2>1. /\ Len(rlOut) = 1 /\ rlPc = "observe" /\ WithTransition("idle", rlOut[1], "push")
          /\ UNCHANGED <<activeGen, pump, pumpEv, evicting, mailbox>>
      BY <1>3 DEF ObserveTerminal, Stopped, pumpState, routerState, queryState
    <2>2. 1 \in DOMAIN rlOut /\ rlOut[1] \in Router!Stamped
      <3>1. DOMAIN rlOut = 1..1
        BY <1>0, <2>1
      <3> QED
        BY <1>0, <3>1
    <2>3. \/ rlOut' = <<rlOut[1]>>
          \/ rlOut' = <<StampedAs("idle", rlOut[1].ev.of, rlOut[1].gen), rlOut[1]>>
      BY <2>1, <2>2, WithTransitionTypes DEF Activities
    <2>4. ASSUME NEW i \in DOMAIN rlOut', ResultOf(rlOut'[i], g)
          PROVE  i = Len(rlOut') /\ ResultOf(rlOut[1], g)
      <3>1. \A x, y : /\ DOMAIN <<x>> = {1} /\ Len(<<x>>) = 1 /\ <<x>>[1] = x
                      /\ DOMAIN <<x, y>> = {1, 2} /\ Len(<<x, y>>) = 2 /\ <<x, y>>[1] = x /\ <<x, y>>[2] = y
        OBVIOUS
      <3>2. ~ResultOf(StampedAs("idle", rlOut[1].ev.of, rlOut[1].gen), g)
        BY StampedFields DEF ResultOf
      <3>3. CASE rlOut' = <<rlOut[1]>>
        BY <2>4, <3>1, <3>3
      <3>4. CASE rlOut' = <<StampedAs("idle", rlOut[1].ev.of, rlOut[1].gen), rlOut[1]>>
        BY <2>4, <3>1, <3>2, <3>4
      <3> QED
        BY <2>3, <3>3, <3>4
    <2>5. ASSUME Has(rlOut', g)
          PROVE  Last
      <3>1. ResultOf(rlOut[1], g)
        BY <2>4, <2>5 DEF Has
      <3>2. g \in Past /\ activeGen # g
        BY <2>1, <2>2, <3>1 DEF Sealed, Has
      <3> QED
        BY <2>1, <2>4, <3>2 DEF Stays
    <2> QED
      BY <2>1, <2>5, LoopFrame
  <1>4. CASE Push
    <2>1. /\ rlPc = "push" /\ rlOut # << >> /\ rlOut' = Tail(rlOut)
          /\ pump' = pump \/ pump' = Append(pump, Head(rlOut))
          /\ UNCHANGED <<activeGen, pumpEv, evicting, mailbox>>
      BY <1>4 DEF Push, SessionTypes, LoopTypes, routerState, queryState
    <2>2. Head(rlOut) \in Router!Stamped
      BY <1>0, <2>1, HeadTypes
    <2>3. ASSUME Has(rlOut', g)
          PROVE  Last
      <3>1. Has(rlOut, g)
        BY <1>0, <2>1, <2>3, HasTail
      <3>2. /\ g \in Past /\ activeGen # g
            /\ \A i \in DOMAIN rlOut : ResultOf(rlOut[i], g) => i = Len(rlOut)
        BY <2>1, <3>1 DEF Sealed
      <3>3. \A i \in DOMAIN rlOut' : ResultOf(rlOut'[i], g) => i = Len(rlOut')
        BY <1>0, <2>1, <3>2, HasTail
      <3> QED
        BY <2>1, <3>2, <3>3 DEF Stays
    <2>4. ASSUME Has(pump', g)
          PROVE  g \in Past' /\ Passed(g)' /\ Ordered(pump', g)
      <3>1. CASE Has(pump, g)
        <4>1. g \in Past /\ Passed(g) /\ Ordered(pump, g)
          BY <3>1 DEF Sealed
        <4>2. Head(rlOut) \in Behind(g)
          <5>1. Head(rlOut) \in NotOf(g)
            BY <2>1, <4>1, HeadTypes DEF Passed
          <5> QED
            BY <5>1 DEF NotOf, Behind
        <4>3. Ordered(pump', g)
          BY <1>0, <2>1, <2>2, <4>1, <4>2, HasAppend
        <4> QED
          BY <4>1, <4>3 DEF Stays
      <3>2. CASE ~Has(pump, g)
        <4>1. pump' = Append(pump, Head(rlOut)) /\ ResultOf(Head(rlOut), g)
          BY <1>0, <2>1, <2>2, <2>4, <3>2, HasAppend
        <4>2. Has(rlOut, g)
          BY <1>0, <2>1, <4>1, HasTail
        <4>3. /\ g \in Past /\ activeGen # g
              /\ \A i \in DOMAIN rlOut : ResultOf(rlOut[i], g) => i = Len(rlOut)
          BY <2>1, <4>2 DEF Sealed
        <4>4. rlOut' = << >>
          BY <1>0, <2>1, <4>1, <4>3, HasTail
        <4>5. Passed(g)'
          BY <1>0, <2>1, <4>3, <4>4 DEF Passed, NotOf
        <4>6. Ordered(pump', g)
          BY <1>0, <2>2, <3>2, <4>1, HasAppend
        <4> QED
          BY <4>3, <4>5, <4>6 DEF Stays
      <3> QED
        BY <3>1, <3>2
    <2>5. Has(pumpEv', g) => g \in Past' /\ Drained(g)'
      BY <2>1 DEF Sealed, Stays
    <2>6. Has(evicting', g) => g \in Past' /\ Emptied(g)'
      BY <2>1 DEF Sealed, Stays
    <2>7. Has(mailbox'[g], g) => g \in Past' /\ Emptied(g)' /\ evicting' \in Seq(NotOf(g))
      BY <2>1 DEF Sealed, Stays
    <2> QED
      BY <2>3, <2>4, <2>5, <2>6, <2>7, SealedAgain
  <1>5. CASE DeliverExit
    <2>1. /\ rlPc = "exit" /\ rlOut' = << >> /\ UNCHANGED <<pump, pumpEv>>
          /\ rlOut[1].ev.kind = "exit" /\ rlOut # << >>
          /\ UNCHANGED routerState \/ Router!RouteStamped(rlOut[1])
      BY <1>5 DEF DeliverExit, Hands, SessionTypes, LoopTypes
    <2>2. rlOut[1] \in Bare /\ rlOut[1] \in Router!Stamped /\ ~ResultOf(rlOut[1], g)
      BY <1>0, <2>1, HeadTypes DEF BarePipe, ResultOf
    <2>3. /\ Has(evicting', g) => g \in Past' /\ Emptied(g)'
          /\ Has(mailbox'[g], g) => g \in Past' /\ Emptied(g)' /\ evicting' \in Seq(NotOf(g))
      <3>1. CASE UNCHANGED routerState
        BY <3>1 DEF routerState, Sealed, Stays
      <3>2. CASE Router!RouteStamped(rlOut[1])
        <4>1. RoutedTo(rlOut[1])
          BY <1>0, <2>2, <3>2, RouteForms
        <4>2. Has(mailbox[g], g) => rlOut[1].gen # g
          <5>1. Has(mailbox[g], g) => rlOut \in Seq(NotOf(g))
            BY DEF Sealed, Emptied, Drained, Passed
          <5>2. rlOut \in Seq(NotOf(g)) => rlOut[1] \in NotOf(g)
            BY <2>1, HeadTypes
          <5> QED
            BY <5>1, <5>2 DEF NotOf
        <4> QED
          BY <1>0, <2>2, <4>1, <4>2, RouteKeepsSealed
      <3> QED
        BY <2>1, <3>1, <3>2
    <2>4. Has(rlOut', g) => Last
      BY <1>0, <2>1
    <2>5. Has(pump', g) => g \in Past' /\ Passed(g)' /\ Ordered(pump', g)
      BY <2>1 DEF Sealed, Stays
    <2>6. Has(pumpEv', g) => g \in Past' /\ Drained(g)'
      BY <2>1 DEF Sealed, Stays
    <2> QED
      BY <2>3, <2>4, <2>5, <2>6, SealedAgain
  <1>6. CASE ReadInit \/ ReadTool \/ ReadHeldResult \/ ReadApiError \/ StampExit \/ (WaitProcess /\ rlPc' # "scan")
    <2>1. UNCHANGED <<pump, pumpEv, evicting, mailbox>>
      BY <1>6 DEF ReadInit, ReadTool, ReadHeldResult, ReadApiError, StampExit, WaitProcess, StampTerminal,
         pumpState, routerState
    <2>2. PICK sev \in Router!Stamped : Holds(sev) /\ (sev.ev.kind = "result" => ReadResult)
      BY <1>6, LoopReads
    <2>3. ~ReadResult
      BY <1>6 DEF ReadInit, ReadTool, ReadHeldResult, ReadApiError, StampExit, WaitProcess, Reads, ReadResult, Held
    <2>4. ~ResultOf(sev, g)
      BY <2>2, <2>3 DEF ResultOf
    <2>5. \A next \in Activities : \A of, gen : ~ResultOf(StampedAs(next, of, gen), g)
      BY StampedFields DEF ResultOf, Activities
    <2>6. ~Has(rlOut', g)
      BY <2>2, <2>4, <2>5, HasOne, HasPair DEF Holds
    <2> QED
      BY <2>1, <2>6, LoopFrame
  <1>7. CASE ~(ReadResult \/ StampHeld \/ ObserveTerminal \/ Push \/ DeliverExit \/ ReadInit \/ ReadTool
               \/ ReadHeldResult \/ ReadApiError \/ StampExit) /\ ~(WaitProcess /\ rlPc' # "scan")
    <2>1. UNCHANGED <<rlOut, pump, pumpEv, evicting, mailbox>>
      BY <1>7 DEF ReadLoop, ReadEcho, ClearGen, TrackState, WaitProcess, ClosePump, CheckRouted, Shutdown, Finish,
         StampTerminal, loopState, pumpState, routerState, Router!ShutdownRouter
    <2>2. rlPc = "clear" => activeGen' = 0
      BY <1>7 DEF ReadLoop, ReadEcho, ClearGen, TrackState, WaitProcess, ClosePump, CheckRouted, Shutdown, Finish,
         Reads
    <2> QED
      BY <1>0, <2>1, <2>2, LoopFrame DEF Sealed, Stays
  <1> QED
    BY <1>1, <1>2, <1>3, <1>4, <1>5, <1>6, <1>7

LEMMA NextKeepsSealed ==
  ASSUME Settled, Settled', Stopped, Sent, Unrouted, PastGrows, BarePipe, Delivered, Hands, MaxTicks = 0,
         NEW g \in Queries, Sealed(g), [Next]_vars
  PROVE  Sealed(g)'
  <1>0. Stays(g) /\ SessionTypes
    BY NextStays DEF Settled
  <1>1. CASE ReadLoop
    BY <1>0, <1>1, LoopKeepsSealed
  <1>2. CASE Pump
    BY <1>0, <1>2, PumpKeepsSealed
  <1>3. ASSUME NEW c \in Callers, StartCall(c) \/ CallStep(c)
        PROVE  Sealed(g)'
    <2>1. UNCHANGED <<rlOut, rlPc, pumpEv, evicting, mailbox>>
      BY <1>3 DEF StartCall, CallStep, EnableRouting, CallStamp, CallSend, PrepareQuery, ValidateSendable, CountGen,
         ArmHandle, StoreGen, MarkQuery, WriteOk, WriteFails, FailGen, FailState, FailDetach,
         loopState, pumpState, routerState, Router!Arm, Router!Detach
    <2>2. CASE CallSend(c)
      <3>1. call[c].pc = "send" /\ SendSelect(call[c].out[1])
        BY <2>2 DEF CallSend
      <3>2. call[c].out[1] \in Notices
        BY <3>1, SendingParts, HeadTypes DEF Settled, SessionTypes, OwnInv, OwnPipe
      <3>3. g \in Past => call[c].out[1] \in Behind(g)
        BY <3>1, SendsPast
      <3> QED
        BY <1>0, <2>1, <3>1, <3>2, <3>3, OthersKeepSealed DEF SendSelect
    <2>3. CASE ~CallSend(c)
      <3>1. pump' = pump
        BY <1>3, <2>3 DEF StartCall, CallStep, EnableRouting, CallStamp, PrepareQuery, ValidateSendable, CountGen,
           ArmHandle, StoreGen, MarkQuery, WriteOk, WriteFails, FailGen, FailState, FailDetach, pumpState
      <3> QED
        BY <1>0, <2>1, <3>1, OthersKeepSealed
    <2> QED
      BY <2>2, <2>3
  <1>4. ASSUME NEW h \in Queries, WaitReceive(h)
        PROVE  Sealed(g)'
    <2>1. /\ UNCHANGED <<rlOut, rlPc, pumpEv, evicting, pump>>
          /\ mailbox[h] # << >> /\ mailbox' = [mailbox EXCEPT ![h] = Tail(mailbox[h])]
      BY <1>4 DEF WaitReceive, Router!Receive, loopState, pumpState
    <2>2. mailbox \in [Queries -> Seq(Router!Stamped)]
      BY <1>0, RouterFacts DEF SessionTypes, RouterTypes, Router!RouterTypeOK
    <2>3. mailbox[h] \in Seq(Router!Stamped) /\ mailbox'[g] = IF g = h THEN Tail(mailbox[h]) ELSE mailbox[g]
      BY <2>1, <2>2
    <2>4. Has(mailbox'[g], g) => Has(mailbox[g], g)
      BY <2>1, <2>3, HasTail
    <2> QED
      BY <1>0, <2>1, <2>4, OthersKeepSealed
  <1>5. CASE Consume /\ ~\E h \in Queries : WaitReceive(h)
    <2>1. UNCHANGED <<rlOut, rlPc, pumpEv, evicting, mailbox, pump>>
      BY <1>5 DEF Consume, DrainOrphans, ReadEvents, WaitClosed, Abandon, routerState, Router!DrainOrphans,
         Router!Detach, loopState, pumpState
    <2> QED
      BY <1>0, <2>1, OthersKeepSealed
  <1>6. CASE CLIStep \/ Cancel \/ UNCHANGED vars
    <2>1. UNCHANGED <<rlOut, rlPc, pumpEv, evicting, mailbox, pump>>
      BY <1>6 DEF CLIStep, Cancel, vars, routerState, loopState, pumpState
    <2> QED
      BY <1>0, <2>1, OthersKeepSealed
  <1>7. CASE Ticker
    BY <1>7 DEF Sent, Ticker, TickRead, TickStamp, TickSend
  <1> QED
    BY <1>1, <1>2, <1>3, <1>4, <1>5, <1>6, <1>7 DEF Next, Terminated

-----------------------------------------------------------------------------
(* A result is in one place, and goes on from there                        *)

\* What is in the mailboxes m, what the answers a have, and what came out of
\* Events() or the orphans.
Mailed(m, g) == Cardinality(Boxes(m, Queries, g))
Answered(a, g) == Cardinality({h \in Queries : a[h].by = "result" /\ g \in a[h].of})
Shown(s, g) == IF g \in s THEN 1 ELSE 0

LEMMA PlaceCounts ==
  ASSUME NEW g
  PROVE  /\ \A seq \in Seq(Router!Stamped) : ResultsAt(seq, g) \in Nat
         /\ \A m \in [Queries -> Seq(Router!Stamped)] : Mailed(m, g) \in Nat
         /\ \A a : Answered(a, g) \in Nat
         /\ \A s : Shown(s, g) \in Nat
         /\ \A sev : Once(sev, g) \in Nat /\ Once(sev, g) <= 1
  <1>1. \A seq \in Seq(Router!Stamped) : ResultsAt(seq, g) \in Nat
    BY Counted
  <1>2. IsFiniteSet(Queries)
    BY RouterFacts, FS_Interval
  <1>3. \A m \in [Queries -> Seq(Router!Stamped)] : Mailed(m, g) \in Nat
    <2> SUFFICES ASSUME NEW m \in [Queries -> Seq(Router!Stamped)]
                 PROVE  Mailed(m, g) \in Nat
      OBVIOUS
    <2>1. CASE Queries = {}
      <3>1. Boxes(m, Queries, g) = {}
        BY <2>1 DEF Boxes
      <3> QED
        BY <3>1, FS_EmptySet DEF Mailed
    <2>2. CASE Queries # {}
      <3>1. PICK h \in Queries : TRUE
        BY <2>2
      <3>2. Cardinality(Boxes(m, Queries, g)) = Cardinality(Boxes(m, Queries \ {h}, g)) + ResultsAt(m[h], g)
            /\ Cardinality(Boxes(m, Queries \ {h}, g)) \in Nat /\ ResultsAt(m[h], g) \in Nat
        BY BoxesSplit
      <3>3. Cardinality(Boxes(m, Queries, g)) \in Nat
        BY <3>2
      <3> QED
        BY <3>3 DEF Mailed
    <2> QED
      BY <2>1, <2>2
  <1>4. \A a : Answered(a, g) \in Nat
    <2> SUFFICES ASSUME NEW a
                 PROVE  Answered(a, g) \in Nat
      OBVIOUS
    <2>1. {h \in Queries : a[h].by = "result" /\ g \in a[h].of} \in SUBSET Queries
      OBVIOUS
    <2> QED
      BY <1>2, <2>1, FS_Subset, FS_CardinalityType DEF Answered
  <1> QED
    BY <1>1, <1>3, <1>4 DEF Shown, Once

\* Sums of what is at the places.
LEMMA NatSums ==
  /\ \A a, b, c, d \in Nat : a + b = c + (b + d) => a = c + d
  /\ \A a, b, c, d \in Nat : a + (b + c) = d + c => a + b = d
  /\ \A n \in Nat : n >= 1 /\ n <= 1 => n = 1
  OBVIOUS

\* A step that changes one mailbox.
LEMMA MailboxMoves ==
  ASSUME mailbox \in [Queries -> Seq(Router!Stamped)], NEW g, NEW h \in Queries, NEW seq \in Seq(Router!Stamped),
         mailbox' = [mailbox EXCEPT ![h] = seq]
  PROVE  /\ Mailed(mailbox', g) + ResultsAt(mailbox[h], g) = Mailed(mailbox, g) + ResultsAt(seq, g)
         /\ Mailed(mailbox', g) \in Nat
  <1>1. mailbox'[h] = seq /\ \A k \in Queries \ {h} : mailbox'[k] = mailbox[k]
    OBVIOUS
  <1>2. mailbox' \in [Queries -> Seq(Router!Stamped)]
    OBVIOUS
  <1>3. Boxes(mailbox', Queries \ {h}, g) = Boxes(mailbox, Queries \ {h}, g)
    BY <1>1 DEF Boxes
  <1>4. Mailed(mailbox, g) = Cardinality(Boxes(mailbox, Queries \ {h}, g)) + ResultsAt(mailbox[h], g)
        /\ Cardinality(Boxes(mailbox, Queries \ {h}, g)) \in Nat /\ ResultsAt(mailbox[h], g) \in Nat
    BY BoxesSplit DEF Mailed
  <1>5. Mailed(mailbox', g) = Cardinality(Boxes(mailbox', Queries \ {h}, g)) + ResultsAt(mailbox'[h], g)
        /\ ResultsAt(mailbox'[h], g) \in Nat
    BY <1>2, BoxesSplit DEF Mailed
  <1> QED
    BY <1>1, <1>3, <1>4, <1>5

\* The places of a result, before and after a step.
LEMMA CopiesSum ==
  ASSUME NEW g
  PROVE  /\ Copies(g) = ResultsAt(rlOut, g) + ResultsAt(pump, g) + ResultsAt(pumpEv, g) + ResultsAt(events, g)
                        + ResultsAt(evicting, g) + ResultsAt(orphans, g) + Mailed(mailbox, g)
                        + Answered(answer, g) + Shown(surfaced, g)
         /\ Copies(g)' = ResultsAt(rlOut', g) + ResultsAt(pump', g) + ResultsAt(pumpEv', g) + ResultsAt(events', g)
                         + ResultsAt(evicting', g) + ResultsAt(orphans', g) + Mailed(mailbox', g)
                         + Answered(answer', g) + Shown(surfaced', g)
  <1>1. /\ InMailboxes(g) = Mailed(mailbox, g)
        /\ InMailboxes(g)' = Mailed(mailbox', g)
    BY DEF InMailboxes, Mailed, Boxes
  <1> QED
    BY <1>1 DEF Copies, Answered, Shown

\* An event that answers nothing adds nothing.
LEMMA NoticeCounts ==
  ASSUME NEW g
  PROVE  /\ \A sev : sev.ev.kind \notin Answers => Once(sev, g) = 0
         /\ \A sev \in Notices : Once(sev, g) = 0
         /\ \A next \in Activities : \A of, gen : Once(StampedAs(next, of, gen), g) = 0
  BY StampedFields DEF Once, Notices, Answers, Activities

\* What a sequence of one or two events holds.
LEMMA PairHeld ==
  ASSUME NEW x \in Router!Stamped, NEW y \in Router!Stamped, NEW g
  PROVE  ResultsAt(<<x>>, g) = Once(x, g) /\ ResultsAt(<<x, y>>, g) = Once(x, g) + Once(y, g)
  <1> DEFINE S == Router!Stamped
  <1>1. <<x>> \in Seq(S) /\ Append(<<x>>, y) = <<x, y>>
    <2>1. <<x>> \in Seq(S) /\ Len(<<x>>) = 1 /\ <<x>>[1] = x
      OBVIOUS
    <2>2. /\ <<x, y>> \in Seq(S) /\ Len(<<x, y>>) = 2 /\ <<x, y>>[1] = x /\ <<x, y>>[2] = y
      OBVIOUS
    <2>3. /\ Append(<<x>>, y) \in Seq(S) /\ Len(Append(<<x>>, y)) = 2
          /\ Append(<<x>>, y)[1] = x /\ Append(<<x>>, y)[2] = y
      BY <2>1, AppendProperties
    <2>4. \A i \in 1..2 : Append(<<x>>, y)[i] = <<x, y>>[i]
      BY <2>2, <2>3
    <2> QED
      BY <2>1, <2>2, <2>3, <2>4, SeqEqual
  <1>2. ResultsAt(<<x>>, g) = Once(x, g)
    BY OneHeld
  <1>3. ResultsAt(Append(<<x>>, y), g) = ResultsAt(<<x>>, g) + Once(y, g)
    BY <1>1, OneMore
  <1> QED
    BY <1>1, <1>2, <1>3

\* What readLoop read, with the transition before it.
LEMMA HoldsCounted ==
  ASSUME NEW sev \in Router!Stamped, Holds(sev), NEW g
  PROVE  ResultsAt(rlOut', g) = Once(sev, g)
  <1>1. CASE rlOut' = <<sev>>
    BY <1>1, PairHeld
  <1>2. ASSUME NEW next \in Activities, rlOut' = <<StampedAs(next, sev.ev.of, sev.gen), sev>>
        PROVE  ResultsAt(rlOut', g) = Once(sev, g)
    <2> DEFINE first == StampedAs(next, sev.ev.of, sev.gen)
    <2>1. first \in Router!Stamped
      BY StampedParts, StampedType DEF Activities, Kinds
    <2>3. Once(first, g) = 0 /\ Once(sev, g) \in Nat
      BY NoticeCounts, PlaceCounts
    <2> HIDE DEF first
    <2>2. ResultsAt(<<first, sev>>, g) = Once(first, g) + Once(sev, g)
      BY <2>1, PairHeld
    <2> QED
      BY <1>2, <2>2, <2>3 DEF first
  <1> QED
    BY <1>1, <1>2 DEF Holds

\* What a sequence of one event holds, and one that is drained of it.
LEMMA FirstCounted ==
  ASSUME NEW seq \in Seq(Router!Stamped), Len(seq) = 1, NEW g
  PROVE  ResultsAt(seq, g) = Once(seq[1], g)
  <1>1. seq # << >> /\ Head(seq) = seq[1] /\ Tail(seq) = << >>
    <2>1. Len(<< >>) = 0
      OBVIOUS
    <2>2. seq # << >>
      BY <2>1
    <2>3. Tail(seq) \in Seq(Router!Stamped) /\ Len(Tail(seq)) = 0
      BY <2>2, HeadTypes
    <2> QED
      BY <2>2, <2>3, HeadTypes, EmptySeq
  <1>2. ResultsAt(seq, g) = Once(seq[1], g) + ResultsAt(<< >>, g)
    BY <1>1, OneLess
  <1> QED
    BY <1>2, NoneHeld, PlaceCounts

\* In the router, what is routed to it is held once more.
InRouter(m, ev, orph, g) == Mailed(m, g) + ResultsAt(ev, g) + ResultsAt(orph, g)

LEMMA RouteCounts ==
  ASSUME SessionTypes, NEW sev \in Router!Stamped, RoutedTo(sev), NEW g
  PROVE  /\ InRouter(mailbox', evicting', orphans', g) <= InRouter(mailbox, evicting, orphans, g) + Once(sev, g)
         /\ ~shutdown /\ Len(orphans) < OrphanMailboxCap =>
              InRouter(mailbox', evicting', orphans', g) = InRouter(mailbox, evicting, orphans, g) + Once(sev, g)
  <1>0. /\ mailbox \in [Queries -> Seq(Router!Stamped)] /\ orphans \in Seq(Router!Stamped)
        /\ Mailed(mailbox, g) \in Nat /\ ResultsAt(orphans, g) \in Nat /\ Once(sev, g) \in Nat
        /\ evicting = << >> /\ ResultsAt(evicting, g) = 0
        /\ OrphanMailboxCap \in Nat \ {0} /\ Len(orphans) \in Nat
    <2>1. mailbox \in [Queries -> Seq(Router!Stamped)] /\ orphans \in Seq(Router!Stamped) /\ evicting = << >>
      BY RouterFacts DEF SessionTypes, RouterTypes, Router!RouterTypeOK, RoutedTo
    <2>2. Mailed(mailbox, g) \in Nat /\ ResultsAt(orphans, g) \in Nat /\ Once(sev, g) \in Nat
      BY <2>1, PlaceCounts
    <2>3. ResultsAt(evicting, g) = 0 /\ OrphanMailboxCap \in Nat \ {0} /\ Len(orphans) \in Nat
      BY <2>1, NoneHeld, SessionAssumption
    <2> QED
      BY <2>1, <2>2, <2>3
  <1>1. CASE active \in Queries /\ mailbox' = [mailbox EXCEPT ![active] = Append(mailbox[active], sev)]
             /\ UNCHANGED <<evicting, orphans>>
    <2>1. Append(mailbox[active], sev) \in Seq(Router!Stamped) /\ mailbox[active] \in Seq(Router!Stamped)
      BY <1>0, <1>1
    <2>2. ResultsAt(Append(mailbox[active], sev), g) = ResultsAt(mailbox[active], g) + Once(sev, g)
      BY <2>1, OneMore
    <2>3. Mailed(mailbox', g) + ResultsAt(mailbox[active], g) = Mailed(mailbox, g) + ResultsAt(Append(mailbox[active], sev), g)
          /\ Mailed(mailbox', g) \in Nat
      BY <1>0, <1>1, <2>1, MailboxMoves
    <2>4. ResultsAt(mailbox[active], g) \in Nat
      BY <2>1, PlaceCounts
    <2>5. Mailed(mailbox', g) = Mailed(mailbox, g) + Once(sev, g)
      <3>1. Mailed(mailbox', g) + ResultsAt(mailbox[active], g)
              = Mailed(mailbox, g) + (ResultsAt(mailbox[active], g) + Once(sev, g))
        BY <2>2, <2>3, Zenon
      <3>2. Mailed(mailbox', g) \in Nat /\ Mailed(mailbox, g) \in Nat /\ Once(sev, g) \in Nat
        BY <1>0, <2>3
      <3> QED
        BY <2>4, <3>1, <3>2, NatSums
    <2> QED
      BY <1>0, <1>1, <2>5 DEF InRouter
  <1>2. CASE evicting' = <<sev>> /\ UNCHANGED <<mailbox, orphans>>
    <2>1. ResultsAt(<<sev>>, g) = Once(sev, g)
      BY PairHeld
    <2> QED
      BY <1>0, <1>2, <2>1 DEF InRouter
  <1>3. CASE Len(orphans) # OrphanMailboxCap /\ orphans' = Append(orphans, sev) /\ UNCHANGED <<mailbox, evicting>>
    <2>1. ResultsAt(Append(orphans, sev), g) = ResultsAt(orphans, g) + Once(sev, g)
      BY <1>0, OneMore
    <2> QED
      BY <1>0, <1>3, <2>1 DEF InRouter
  <1>4. CASE Len(orphans) = OrphanMailboxCap /\ orphans' = Append(Tail(orphans), sev) /\ UNCHANGED <<mailbox, evicting>>
    <2>1. orphans # << >> /\ Tail(orphans) \in Seq(Router!Stamped)
      <3>1. Len(<< >>) = 0
        OBVIOUS
      <3>2. orphans # << >>
        BY <1>0, <1>4, <3>1
      <3> QED
        BY <1>0, <3>2, HeadTypes
    <2>2. ResultsAt(Append(Tail(orphans), sev), g) = ResultsAt(Tail(orphans), g) + Once(sev, g)
      BY <2>1, OneMore
    <2>3. ResultsAt(orphans, g) = Once(Head(orphans), g) + ResultsAt(Tail(orphans), g)
      BY <1>0, <2>1, OneLess
    <2>4. Once(Head(orphans), g) \in Nat
      BY PlaceCounts
    <2>5. ResultsAt(Tail(orphans), g) \in Nat
      BY <2>1, PlaceCounts
    <2>6. ResultsAt(orphans', g) <= ResultsAt(orphans, g) + Once(sev, g) /\ ~(Len(orphans) < OrphanMailboxCap)
      BY <1>0, <1>4, <2>2, <2>3, <2>4, <2>5
    <2>7. ResultsAt(orphans', g) \in Nat
      BY <1>0, <1>4, <2>2, <2>5
    <2> QED
      BY <1>0, <1>4, <2>6, <2>7 DEF InRouter
  <1>5. CASE shutdown /\ UNCHANGED <<mailbox, evicting, orphans>>
    BY <1>0, <1>5 DEF InRouter
  <1> QED
    BY <1>1, <1>2, <1>3, <1>4, <1>5 DEF RoutedTo

\* A step keeps a result in its place or hands it on to the next one; it may
\* drop it when the context is cancelled or the orphan ring is full.
Moves(g) ==
  /\ Copies(g)' <= Copies(g)
  /\ ~ctxDone /\ Len(orphans) < OrphanMailboxCap => Copies(g)' = Copies(g)

\* The places, as numbers.
Places(r, p, v, e, x, o, m, a, s, g) ==
  /\ ResultsAt(r, g) \in Nat /\ ResultsAt(p, g) \in Nat /\ ResultsAt(v, g) \in Nat /\ ResultsAt(e, g) \in Nat
  /\ ResultsAt(x, g) \in Nat /\ ResultsAt(o, g) \in Nat /\ Mailed(m, g) \in Nat /\ Answered(a, g) \in Nat
  /\ Shown(s, g) \in Nat

LEMMA PlaceTypes ==
  ASSUME SessionTypes, SessionTypes', NEW g
  PROVE  /\ Places(rlOut, pump, pumpEv, events, evicting, orphans, mailbox, answer, surfaced, g)
         /\ Places(rlOut', pump', pumpEv', events', evicting', orphans', mailbox', answer', surfaced', g)
  <1>1. /\ rlOut \in Seq(Router!Stamped) /\ pump \in Seq(Router!Stamped) /\ pumpEv \in Seq(Router!Stamped)
        /\ events \in Seq(Router!Stamped) /\ evicting \in Seq(Router!Stamped) /\ orphans \in Seq(Router!Stamped)
        /\ mailbox \in [Queries -> Seq(Router!Stamped)]
    BY RouterFacts DEF SessionTypes, LoopTypes, PumpTypes, RouterTypes, Router!RouterTypeOK
  <1>2. /\ rlOut' \in Seq(Router!Stamped) /\ pump' \in Seq(Router!Stamped) /\ pumpEv' \in Seq(Router!Stamped)
        /\ events' \in Seq(Router!Stamped) /\ evicting' \in Seq(Router!Stamped) /\ orphans' \in Seq(Router!Stamped)
        /\ mailbox' \in [Queries -> Seq(Router!Stamped)]
    BY RouterFacts DEF SessionTypes, LoopTypes, PumpTypes, RouterTypes, Router!RouterTypeOK
  <1>3. Places(rlOut, pump, pumpEv, events, evicting, orphans, mailbox, answer, surfaced, g)
    BY <1>1, PlaceCounts DEF Places
  <1>4. Places(rlOut', pump', pumpEv', events', evicting', orphans', mailbox', answer', surfaced', g)
    BY <1>2, PlaceCounts DEF Places
  <1> QED
    BY <1>3, <1>4

\* A result goes from one place to another, or stays.
LEMMA MovesWhole ==
  ASSUME SessionTypes, SessionTypes', NEW g,
         ResultsAt(rlOut, g) + ResultsAt(pump, g) + ResultsAt(pumpEv, g) + ResultsAt(events, g)
           + ResultsAt(evicting, g) + ResultsAt(orphans, g) + Mailed(mailbox, g) + Answered(answer, g) + Shown(surfaced, g)
         = ResultsAt(rlOut', g) + ResultsAt(pump', g) + ResultsAt(pumpEv', g) + ResultsAt(events', g)
           + ResultsAt(evicting', g) + ResultsAt(orphans', g) + Mailed(mailbox', g) + Answered(answer', g)
           + Shown(surfaced', g)
  PROVE  Moves(g)
  <1>1. Copies(g)' = Copies(g)
    BY CopiesSum, Zenon
  <1>2. Copies(g) \in Nat
    BY PlaceTypes, CopiesSum DEF Places
  <1> QED
    BY <1>1, <1>2 DEF Moves

\* A result is dropped, when it may be.
LEMMA MovesDropped ==
  ASSUME SessionTypes, SessionTypes', NEW g, ctxDone \/ ~(Len(orphans) < OrphanMailboxCap),
         ResultsAt(rlOut', g) + ResultsAt(pump', g) + ResultsAt(pumpEv', g) + ResultsAt(events', g)
           + ResultsAt(evicting', g) + ResultsAt(orphans', g) + Mailed(mailbox', g) + Answered(answer', g)
           + Shown(surfaced', g)
         <= ResultsAt(rlOut, g) + ResultsAt(pump, g) + ResultsAt(pumpEv, g) + ResultsAt(events, g)
           + ResultsAt(evicting, g) + ResultsAt(orphans, g) + Mailed(mailbox, g) + Answered(answer, g) + Shown(surfaced, g)
  PROVE  Moves(g)
  <1>1. Copies(g)' <= Copies(g)
    BY CopiesSum, Zenon
  <1> QED
    BY <1>1 DEF Moves

\* A result goes into the router.
LEMMA RouteMoves ==
  ASSUME SessionTypes, SessionTypes', NEW g, NEW sev \in Router!Stamped, RoutedTo(sev), ~shutdown,
         UNCHANGED <<answer, surfaced>>,
         ResultsAt(rlOut', g) + ResultsAt(pump', g) + ResultsAt(pumpEv', g) + ResultsAt(events', g) + Once(sev, g)
         = ResultsAt(rlOut, g) + ResultsAt(pump, g) + ResultsAt(pumpEv, g) + ResultsAt(events, g)
  PROVE  Moves(g)
  <1>1. /\ Places(rlOut, pump, pumpEv, events, evicting, orphans, mailbox, answer, surfaced, g)
        /\ Places(rlOut', pump', pumpEv', events', evicting', orphans', mailbox', answer', surfaced', g)
    BY PlaceTypes
  <1>2. Answered(answer', g) = Answered(answer, g) /\ Shown(surfaced', g) = Shown(surfaced, g)
    BY Zenon
  <1>3. Once(sev, g) \in Nat
    BY PlaceCounts
  <1>4. Mailed(mailbox', g) + ResultsAt(evicting', g) + ResultsAt(orphans', g)
        <= Mailed(mailbox, g) + ResultsAt(evicting, g) + ResultsAt(orphans, g) + Once(sev, g)
    BY RouteCounts, Zenon DEF InRouter
  <1>5. ASSUME Len(orphans) < OrphanMailboxCap
        PROVE  Mailed(mailbox', g) + ResultsAt(evicting', g) + ResultsAt(orphans', g)
               = Mailed(mailbox, g) + ResultsAt(evicting, g) + ResultsAt(orphans, g) + Once(sev, g)
    BY <1>5, RouteCounts, Zenon DEF InRouter
  <1>6. Copies(g)' <= Copies(g)
    BY <1>1, <1>2, <1>3, <1>4, CopiesSum DEF Places
  <1>7. ASSUME Len(orphans) < OrphanMailboxCap
        PROVE  Copies(g)' = Copies(g)
    <2>1. Mailed(mailbox', g) + ResultsAt(evicting', g) + ResultsAt(orphans', g)
          = Mailed(mailbox, g) + ResultsAt(evicting, g) + ResultsAt(orphans, g) + Once(sev, g)
      BY <1>5, <1>7
    <2> QED
      BY <1>1, <1>2, <1>3, <2>1, CopiesSum DEF Places
  <1> QED
    BY <1>6, <1>7 DEF Moves

\* readLoop reads a result, or keeps or hands on what it has read.
LEMMA LoopMoves ==
  ASSUME Settled, Settled', Stopped, BarePipe, Hands, NEW g \in Queries, ReadLoop
  PROVE  \/ Moves(g)
         \/ Copies(g)' = Copies(g) + 1 /\ Reads("result") /\ g \in Head(stdout).of
  <1> USE DEF Settled
  <1>0. /\ rlOut \in Seq(Router!Stamped) /\ pump \in Seq(Router!Stamped) /\ events \in Seq(Router!Stamped)
        /\ RouterTypes /\ ResultsAt(<< >>, g) = 0
    BY NoneHeld DEF SessionTypes, LoopTypes, PumpTypes
  <1>1. /\ Places(rlOut, pump, pumpEv, events, evicting, orphans, mailbox, answer, surfaced, g)
        /\ Places(rlOut', pump', pumpEv', events', evicting', orphans', mailbox', answer', surfaced', g)
    BY PlaceTypes
  <1>2. UNCHANGED <<pumpEv, answer, surfaced>>
    BY DEF ReadLoop, ReadEcho, ReadInit, ReadTool, ReadHeldResult, StampHeld, ReadResult, ReadApiError,
       ClearGen, TrackState, ObserveTerminal, Push, WaitProcess, ClosePump, StampExit, DeliverExit,
       CheckRouted, Shutdown, Finish, StampTerminal, pumpState, userState
  <1>3. ASSUME UNCHANGED <<pump, events, evicting, orphans, mailbox>>, ResultsAt(rlOut', g) = ResultsAt(rlOut, g)
        PROVE  Moves(g)
    BY <1>2, <1>3, MovesWhole
  <1>4. CASE ReadInit \/ ReadTool \/ ReadHeldResult \/ ReadResult \/ ReadApiError \/ StampExit
             \/ (WaitProcess /\ rlPc' # "scan")
    <2>1. UNCHANGED <<pump, events, evicting, orphans, mailbox>> /\ rlPc \in {"scan", "join"}
      BY <1>4 DEF ReadInit, ReadTool, ReadHeldResult, ReadResult, ReadApiError, StampExit, WaitProcess, StampTerminal,
         Reads, pumpState, routerState
    <2>2. rlOut = << >>
      BY <2>1 DEF Hands
    <2>3. PICK sev \in Router!Stamped :
            /\ Holds(sev)
            /\ sev.ev.kind \in Answers => Reads("result") /\ sev.ev.of = Head(stdout).of
      BY <1>4, LoopReads
    <2>4. ResultsAt(rlOut', g) = Once(sev, g)
      BY <2>3, HoldsCounted
    <2>5. CASE sev.ev.kind \in Answers /\ g \in sev.ev.of
      <3>1. ResultsAt(rlOut', g) = 1 /\ ResultsAt(rlOut, g) = 0
        BY <1>0, <2>2, <2>4, <2>5 DEF Once
      <3>2. Copies(g)' = Copies(g) + 1
        BY <1>1, <1>2, <2>1, <3>1, CopiesSum DEF Places
      <3> QED
        BY <2>3, <2>5, <3>2
    <2>6. CASE ~(sev.ev.kind \in Answers /\ g \in sev.ev.of)
      <3>1. ResultsAt(rlOut', g) = ResultsAt(rlOut, g)
        BY <1>0, <2>2, <2>4, <2>6 DEF Once
      <3> QED
        BY <1>3, <2>1, <3>1
    <2> QED
      BY <2>5, <2>6
  <1>5. CASE StampHeld
    <2>1. /\ UNCHANGED <<pump, events, evicting, orphans, mailbox>>
          /\ rlOut' = [rlOut EXCEPT ![1].gen = IF Len(rlOut) = 2 THEN activeGen ELSE @]
      BY <1>5 DEF StampHeld, pumpState, routerState
    <2>2. DOMAIN rlOut = DOMAIN rlOut' /\ \A i \in DOMAIN rlOut : rlOut[i].ev = rlOut'[i].ev
      <3>1. \A i \in DOMAIN rlOut : rlOut[i] \in Router!Stamped
        BY <1>0
      <3> QED
        BY <2>1, <3>1 DEF Router!Stamped
    <2>3. ResultsAt(rlOut', g) = ResultsAt(rlOut, g)
      BY <2>2, SameHeld
    <2> QED
      BY <1>3, <2>1, <2>3
  <1>6. CASE ObserveTerminal
    <2>1. /\ UNCHANGED <<pump, events, evicting, orphans, mailbox>>
          /\ Len(rlOut) = 1 /\ WithTransition("idle", rlOut[1], "push") /\ rlOut # << >>
      BY <1>6 DEF ObserveTerminal, Stopped, pumpState, routerState, SessionTypes, LoopTypes
    <2>2. rlOut[1] \in Router!Stamped
      BY <1>0, <2>1, HeadTypes
    <2>3. Holds(rlOut[1])
      BY <2>1, <2>2, WithTransitionTypes DEF Activities, Holds
    <2>4. ResultsAt(rlOut', g) = ResultsAt(rlOut, g)
      BY <1>0, <2>1, <2>2, <2>3, HoldsCounted, FirstCounted
    <2> QED
      BY <1>3, <2>1, <2>4
  <1>7. CASE Push
    <2>1. /\ UNCHANGED <<events, evicting, orphans, mailbox>>
          /\ rlOut # << >> /\ rlOut' = Tail(rlOut)
          /\ \/ pump' = Append(pump, Head(rlOut))
             \/ ctxDone /\ pump' = pump
      BY <1>7 DEF Push, routerState, SessionTypes, LoopTypes
    <2>2. Head(rlOut) \in Router!Stamped
      BY <1>0, <2>1, HeadTypes
    <2>3. ResultsAt(rlOut, g) = Once(Head(rlOut), g) + ResultsAt(rlOut', g) /\ Once(Head(rlOut), g) \in Nat
      BY <1>0, <2>1, OneLess, PlaceCounts
    <2>4. CASE pump' = Append(pump, Head(rlOut))
      <3>1. ResultsAt(pump', g) = ResultsAt(pump, g) + Once(Head(rlOut), g)
        BY <1>0, <2>2, <2>4, OneMore
      <3> HIDE <2>4
      <3> QED
        BY <1>1, <1>2, <2>1, <2>3, <3>1, MovesWhole DEF Places
    <2>5. CASE ctxDone /\ pump' = pump
      <3>1. /\ ResultsAt(pump', g) = ResultsAt(pump, g) /\ ResultsAt(pumpEv', g) = ResultsAt(pumpEv, g)
            /\ ResultsAt(events', g) = ResultsAt(events, g) /\ ResultsAt(evicting', g) = ResultsAt(evicting, g)
            /\ ResultsAt(orphans', g) = ResultsAt(orphans, g) /\ Mailed(mailbox', g) = Mailed(mailbox, g)
            /\ Answered(answer', g) = Answered(answer, g) /\ Shown(surfaced', g) = Shown(surfaced, g)
        BY <1>2, <2>1, <2>5, Zenon
      <3>2. ResultsAt(rlOut', g) <= ResultsAt(rlOut, g)
        BY <1>1, <2>3 DEF Places
      <3> HIDE <2>5
      <3>3. ResultsAt(rlOut', g) + ResultsAt(pump', g) + ResultsAt(pumpEv', g) + ResultsAt(events', g)
              + ResultsAt(evicting', g) + ResultsAt(orphans', g) + Mailed(mailbox', g) + Answered(answer', g)
              + Shown(surfaced', g)
            <= ResultsAt(rlOut, g) + ResultsAt(pump, g) + ResultsAt(pumpEv, g) + ResultsAt(events, g)
              + ResultsAt(evicting, g) + ResultsAt(orphans, g) + Mailed(mailbox, g) + Answered(answer, g) + Shown(surfaced, g)
        BY <1>1, <3>1, <3>2 DEF Places
      <3>4. ctxDone
        BY <2>5
      <3> QED
        BY <3>3, <3>4, MovesDropped
    <2> QED
      BY <2>1, <2>4, <2>5
  <1>8. CASE DeliverExit
    <2>1. /\ UNCHANGED pump /\ rlOut' = << >> /\ rlOut # << >> /\ Len(rlOut) = 1 /\ rlOut[1].ev.kind = "exit"
          /\ \/ UNCHANGED routerState /\ events' = Append(events, rlOut[1])
             \/ UNCHANGED routerState /\ events' = events
             \/ Router!RouteStamped(rlOut[1]) /\ events' = events
          /\ ~shutdown
      BY <1>8 DEF DeliverExit, Hands, Stopped, SessionTypes, LoopTypes
    <2>2. rlOut[1] \in Bare /\ rlOut[1] \in Router!Stamped
      BY <1>0, <2>1, HeadTypes DEF BarePipe
    <2>3. Once(rlOut[1], g) = 0
      BY <2>1 DEF Once, Answers
    <2>4. ResultsAt(rlOut, g) = 0 /\ ResultsAt(rlOut', g) = 0
      BY <1>0, <2>1, <2>3, FirstCounted
    <2>5. ResultsAt(events', g) = ResultsAt(events, g)
      <3>1. ResultsAt(Append(events, rlOut[1]), g) = ResultsAt(events, g) + Once(rlOut[1], g)
        BY <1>0, <2>2, OneMore
      <3>2. ResultsAt(Append(events, rlOut[1]), g) = ResultsAt(events, g)
        BY <1>1, <2>3, <3>1 DEF Places
      <3>3. events' = Append(events, rlOut[1]) \/ events' = events
        BY <2>1
      <3> QED
        BY <3>2, <3>3
    <2>6. CASE UNCHANGED routerState
      <3>1. UNCHANGED <<evicting, orphans, mailbox>>
        BY <2>6 DEF routerState
      <3> QED
        BY <1>2, <2>1, <2>4, <2>5, <3>1, MovesWhole
    <2>7. CASE Router!RouteStamped(rlOut[1])
      <3>1. RoutedTo(rlOut[1])
        BY <1>0, <2>2, <2>7, RouteForms
      <3>2. ResultsAt(pump', g) = ResultsAt(pump, g) /\ ResultsAt(pumpEv', g) = ResultsAt(pumpEv, g) /\ ~shutdown
            /\ UNCHANGED <<answer, surfaced>>
        BY <1>2, <2>1, Zenon
      <3>3. ResultsAt(rlOut', g) + ResultsAt(pump', g) + ResultsAt(pumpEv', g) + ResultsAt(events', g) + Once(rlOut[1], g)
            = ResultsAt(rlOut, g) + ResultsAt(pump, g) + ResultsAt(pumpEv, g) + ResultsAt(events, g)
        <4> HIDE <2>7
        <4> QED
          BY <1>1, <2>3, <2>4, <2>5, <3>2 DEF Places
      <3> QED
        BY <2>2, <3>1, <3>2, <3>3, RouteMoves
    <2> QED
      BY <2>1, <2>6, <2>7
  <1>9. CASE ReadEcho \/ ClearGen \/ TrackState \/ ClosePump \/ CheckRouted \/ Shutdown \/ Finish
             \/ (WaitProcess /\ rlPc' = "scan")
    <2>1. UNCHANGED <<rlOut, pump, events, evicting, orphans, mailbox>>
      BY <1>9 DEF ReadEcho, ClearGen, TrackState, WaitProcess, ClosePump, CheckRouted, Shutdown, Finish,
         StampTerminal, loopState, pumpState, routerState, Router!ShutdownRouter
    <2> QED
      BY <1>3, <2>1
  <1> QED
    BY <1>4, <1>5, <1>6, <1>7, <1>8, <1>9 DEF ReadLoop

\* The pump takes a result, hands it to Events() or to the router, and takes it
\* back from Events(); a full mailbox loses none that is its handle's own.
LEMMA PumpMoves ==
  ASSUME Settled, Settled', BarePipe, Delivered, Hands, \A h \in Queries : Sealed(h), NEW g \in Queries, Pump
  PROVE  Moves(g)
  <1> USE DEF Settled
  <1>0. /\ pump \in Seq(Router!Stamped) /\ pumpEv \in Seq(Router!Stamped) /\ events \in Seq(Router!Stamped)
        /\ mailbox \in [Queries -> Seq(Router!Stamped)] /\ RouterTypes /\ ResultsAt(<< >>, g) = 0
    BY NoneHeld, RouterFacts DEF SessionTypes, PumpTypes, RouterTypes, Router!RouterTypeOK
  <1>1. /\ Places(rlOut, pump, pumpEv, events, evicting, orphans, mailbox, answer, surfaced, g)
        /\ Places(rlOut', pump', pumpEv', events', evicting', orphans', mailbox', answer', surfaced', g)
    BY PlaceTypes
  <1>2. UNCHANGED <<rlOut, answer, surfaced>>
    BY DEF Pump, PumpTake, PumpRoute, PumpUnrouted, PumpSend, PumpBarrier, PumpFlush, PumpFlushed, PumpStop, Evict,
       loopState, userState
  <1>3. ASSUME UNCHANGED <<evicting, orphans, mailbox>>,
               ResultsAt(pump', g) + ResultsAt(pumpEv', g) + ResultsAt(events', g)
               = ResultsAt(pump, g) + ResultsAt(pumpEv, g) + ResultsAt(events, g)
        PROVE  Moves(g)
    <2>1. /\ ResultsAt(evicting', g) = ResultsAt(evicting, g) /\ ResultsAt(orphans', g) = ResultsAt(orphans, g)
          /\ Mailed(mailbox', g) = Mailed(mailbox, g) /\ Answered(answer', g) = Answered(answer, g)
          /\ Shown(surfaced', g) = Shown(surfaced, g) /\ ResultsAt(rlOut', g) = ResultsAt(rlOut, g)
      BY <1>2, <1>3, Zenon
    <2>2. ResultsAt(pump', g) + ResultsAt(pumpEv', g) + ResultsAt(events', g)
          = ResultsAt(pump, g) + ResultsAt(pumpEv, g) + ResultsAt(events, g)
      BY <1>3
    <2> HIDE <1>3
    <2>3. ResultsAt(rlOut, g) + ResultsAt(pump, g) + ResultsAt(pumpEv, g) + ResultsAt(events, g)
            + ResultsAt(evicting, g) + ResultsAt(orphans, g) + Mailed(mailbox, g) + Answered(answer, g) + Shown(surfaced, g)
          = ResultsAt(rlOut', g) + ResultsAt(pump', g) + ResultsAt(pumpEv', g) + ResultsAt(events', g)
            + ResultsAt(evicting', g) + ResultsAt(orphans', g) + Mailed(mailbox', g) + Answered(answer', g)
            + Shown(surfaced', g)
      BY <1>1, <2>1, <2>2 DEF Places
    <2> QED
      BY <2>3, MovesWhole
  <1>4. ASSUME NEW sev \in Router!Stamped, RoutedTo(sev), ~shutdown,
               ResultsAt(pump', g) + ResultsAt(pumpEv', g) + ResultsAt(events', g) + Once(sev, g)
               = ResultsAt(pump, g) + ResultsAt(pumpEv, g) + ResultsAt(events, g)
        PROVE  Moves(g)
    <2>1. ResultsAt(rlOut', g) = ResultsAt(rlOut, g) /\ UNCHANGED <<answer, surfaced>>
      BY <1>2, Zenon
    <2>2. ResultsAt(pump', g) + ResultsAt(pumpEv', g) + ResultsAt(events', g) + Once(sev, g)
          = ResultsAt(pump, g) + ResultsAt(pumpEv, g) + ResultsAt(events, g) /\ Once(sev, g) \in Nat
      BY <1>4, PlaceCounts
    <2> HIDE <1>4
    <2>3. ResultsAt(rlOut', g) + ResultsAt(pump', g) + ResultsAt(pumpEv', g) + ResultsAt(events', g) + Once(sev, g)
          = ResultsAt(rlOut, g) + ResultsAt(pump, g) + ResultsAt(pumpEv, g) + ResultsAt(events, g)
      BY <1>1, <2>1, <2>2 DEF Places
    <2> QED
      BY <1>4, <2>1, <2>3, RouteMoves
  <1>5. CASE PumpTake
    <2>1. /\ pump # << >> /\ pump' = Tail(pump) /\ pumpEv' = <<Head(pump)>> /\ pumpEv = << >> /\ events' = events
          /\ UNCHANGED <<evicting, orphans, mailbox>>
      BY <1>5 DEF PumpTake, Hands, routerState
    <2>2. Head(pump) \in Router!Stamped
      BY <1>0, <2>1, HeadTypes
    <2>3. ResultsAt(pump, g) = Once(Head(pump), g) + ResultsAt(pump', g)
      BY <1>0, <2>1, OneLess
    <2>4. ResultsAt(pumpEv', g) = Once(Head(pump), g) /\ ResultsAt(pumpEv, g) = 0
      BY <1>0, <2>1, <2>2, PairHeld
    <2>5. ResultsAt(events', g) = ResultsAt(events, g)
      BY <2>1, Zenon
    <2>6. ResultsAt(pump', g) + ResultsAt(pumpEv', g) + ResultsAt(events', g)
          = ResultsAt(pump, g) + ResultsAt(pumpEv, g) + ResultsAt(events, g)
      BY <1>1, <2>3, <2>4, <2>5 DEF Places
    <2> QED
      BY <1>3, <2>1, <2>6
  <1>6. ASSUME pumpPc \in {"have", "events"}
        PROVE  /\ pumpEv[1] \in Bare /\ pumpEv[1] \in Router!Stamped /\ ResultsAt(pumpEv, g) = Once(pumpEv[1], g)
               /\ ~shutdown
    <2>1. pumpEv # << >>
      BY <1>6 DEF SessionTypes, PumpTypes
    <2>2. pumpEv[1] \in Bare /\ pumpEv[1] \in Router!Stamped /\ Len(pumpEv) \in Nat /\ Len(pumpEv) >= 1
      BY <1>0, <2>1, HeadTypes DEF BarePipe
    <2>3. Len(pumpEv) = 1
      <3>1. Len(pumpEv) <= 1
        BY DEF Hands
      <3> QED
        BY <2>2, <3>1, NatSums
    <2>4. ~shutdown
      BY <1>6 DEF Hands
    <2> QED
      BY <1>0, <2>2, <2>3, <2>4, FirstCounted
  <1>7. CASE PumpRoute
    <2>1. pumpPc \in {"have", "events"} /\ Router!RouteStamped(pumpEv[1]) /\ pumpEv' = << >> /\ UNCHANGED <<pump, events>>
      BY <1>7 DEF PumpRoute
    <2>2. RoutedTo(pumpEv[1])
      BY <1>0, <1>6, <2>1, RouteForms
    <2>3. /\ ResultsAt(pump', g) = ResultsAt(pump, g) /\ ResultsAt(events', g) = ResultsAt(events, g)
          /\ ResultsAt(pumpEv', g) = 0
      BY <1>0, <2>1, Zenon
    <2>4. ResultsAt(pumpEv, g) = Once(pumpEv[1], g)
      BY <1>6, <2>1
    <2>5. ResultsAt(pump', g) + ResultsAt(pumpEv', g) + ResultsAt(events', g) + Once(pumpEv[1], g)
          = ResultsAt(pump, g) + ResultsAt(pumpEv, g) + ResultsAt(events, g)
      BY <1>1, <2>3, <2>4 DEF Places
    <2> QED
      BY <1>4, <1>6, <2>1, <2>2, <2>5
  <1>8. CASE PumpUnrouted \/ PumpFlushed \/ PumpStop
    <2>1. UNCHANGED <<pump, pumpEv, events, evicting, orphans, mailbox>>
      BY <1>8 DEF PumpUnrouted, PumpFlushed, PumpStop, routerState
    <2> QED
      BY <1>3, <2>1
  <1>9. CASE PumpSend
    <2>1. pumpPc = "events" /\ pumpEv' = << >> /\ UNCHANGED <<pump, evicting, orphans, mailbox>>
          /\ (events' = Append(events, pumpEv[1]) \/ (ctxDone /\ events' = events))
      BY <1>9 DEF PumpSend, routerState
    <2>2. pumpEv[1] \in Router!Stamped /\ ResultsAt(pumpEv, g) = Once(pumpEv[1], g) /\ ResultsAt(pumpEv', g) = 0
      BY <1>0, <1>6, <2>1
    <2>3. ResultsAt(pump', g) = ResultsAt(pump, g)
      BY <2>1, Zenon
    <2>4. CASE events' = Append(events, pumpEv[1])
      <3>1. ResultsAt(events', g) = ResultsAt(events, g) + Once(pumpEv[1], g)
        BY <1>0, <2>2, <2>4, OneMore
      <3> HIDE <2>4
      <3>2. ResultsAt(pump', g) + ResultsAt(pumpEv', g) + ResultsAt(events', g)
            = ResultsAt(pump, g) + ResultsAt(pumpEv, g) + ResultsAt(events, g)
        BY <1>1, <2>2, <2>3, <3>1 DEF Places
      <3>3. UNCHANGED <<evicting, orphans, mailbox>>
        BY <2>1
      <3> QED
        BY <1>3, <3>2, <3>3
    <2>5. CASE ctxDone /\ events' = events
      <3>1. /\ ResultsAt(events', g) = ResultsAt(events, g)
            /\ ResultsAt(evicting', g) = ResultsAt(evicting, g) /\ ResultsAt(orphans', g) = ResultsAt(orphans, g)
            /\ Mailed(mailbox', g) = Mailed(mailbox, g) /\ Answered(answer', g) = Answered(answer, g)
            /\ Shown(surfaced', g) = Shown(surfaced, g) /\ ResultsAt(rlOut', g) = ResultsAt(rlOut, g)
        BY <1>2, <2>1, <2>5, Zenon
      <3>2. ctxDone
        BY <2>5
      <3> HIDE <2>5
      <3>3. ResultsAt(rlOut', g) + ResultsAt(pump', g) + ResultsAt(pumpEv', g) + ResultsAt(events', g)
              + ResultsAt(evicting', g) + ResultsAt(orphans', g) + Mailed(mailbox', g) + Answered(answer', g)
              + Shown(surfaced', g)
            <= ResultsAt(rlOut, g) + ResultsAt(pump, g) + ResultsAt(pumpEv, g) + ResultsAt(events, g)
              + ResultsAt(evicting, g) + ResultsAt(orphans, g) + Mailed(mailbox, g) + Answered(answer, g) + Shown(surfaced, g)
        BY <1>1, <2>2, <2>3, <3>1 DEF Places
      <3> QED
        BY <3>2, <3>3, MovesDropped
    <2> QED
      BY <2>1, <2>4, <2>5
  <1>10. CASE PumpBarrier
    <2>1. /\ pumpPc = "have" /\ pumpEv[1].ev.kind = "barrier" /\ pumpEv' = << >> /\ UNCHANGED <<pump, events>>
          /\ UNCHANGED <<evicting, orphans, mailbox>>
      BY <1>10 DEF PumpBarrier, IsBarrier, routerState
    <2>2. ResultsAt(pumpEv, g) = 0 /\ ResultsAt(pumpEv', g) = 0
      BY <1>0, <1>6, <2>1 DEF Once, Answers
    <2>3. ResultsAt(pump', g) = ResultsAt(pump, g) /\ ResultsAt(events', g) = ResultsAt(events, g)
      BY <2>1, Zenon
    <2>4. ResultsAt(pump', g) + ResultsAt(pumpEv', g) + ResultsAt(events', g)
          = ResultsAt(pump, g) + ResultsAt(pumpEv, g) + ResultsAt(events, g)
      BY <1>1, <2>2, <2>3 DEF Places
    <2> QED
      BY <1>3, <2>1, <2>4
  <1>11. CASE PumpFlush
    <2> DEFINE sev == [ev |-> Head(events).ev, gen |-> Router!NoQuery]
    <2>1. /\ pumpPc = "flush" /\ events # << >> /\ events' = Tail(events) /\ UNCHANGED <<pump, pumpEv>>
          /\ evicting = << >> /\ UNCHANGED <<active, mailbox, evicting>> /\ Router!AddOrphan(sev)
      BY <1>11 DEF PumpFlush, Router!Flush, Router!Unlocked
    <2>2. Head(events) \in Router!Stamped
      BY <1>0, <2>1, HeadTypes
    <2>3. sev \in Router!Stamped /\ Once(sev, g) = Once(Head(events), g)
      BY <2>2, RouterFacts DEF Router!Stamped, Once
    <2> HIDE DEF sev
    <2>4. RoutedTo(sev)
      BY <2>1 DEF RoutedTo, Router!AddOrphan
    <2>5. ResultsAt(events, g) = Once(sev, g) + ResultsAt(events', g)
      BY <1>0, <2>1, <2>3, OneLess
    <2>6. ResultsAt(pump', g) = ResultsAt(pump, g) /\ ResultsAt(pumpEv', g) = ResultsAt(pumpEv, g) /\ ~shutdown
      <3>1. ~shutdown
        BY <2>1 DEF Hands
      <3> QED
        BY <2>1, <3>1, Zenon
    <2>7. Once(sev, g) \in Nat
      BY PlaceCounts
    <2>8. ResultsAt(pump', g) + ResultsAt(pumpEv', g) + ResultsAt(events', g) + Once(sev, g)
          = ResultsAt(pump, g) + ResultsAt(pumpEv, g) + ResultsAt(events, g)
      BY <1>1, <2>5, <2>6, <2>7 DEF Places
    <2> QED
      BY <1>4, <2>3, <2>4, <2>6, <2>8
  <1>12. CASE Evict
    <2>1. /\ Router!Evict /\ UNCHANGED <<pump, pumpEv, events>>
      BY <1>12 DEF Evict, pumpState
    <2>2. /\ active \in Queries /\ evicting # << >> /\ evicting[1] \in ForHandle(active)
          /\ evicting = <<evicting[1]>> /\ evicting' = << >>
          /\ mailbox[active] \in Seq(ForHandle(active)) /\ Kept \in Seq(ForHandle(active))
          /\ mailbox' = [mailbox EXCEPT ![active] = Append(Kept, evicting[1])]
          /\ UNCHANGED <<active, orphans>>
      BY <1>0, <2>1, EvictForm
    <2>3. ForHandle(active) \subseteq Router!Stamped
      BY DEF ForHandle
    <2>4. /\ evicting[1] \in Router!Stamped /\ mailbox[active] \in Seq(Router!Stamped)
          /\ Kept \in Seq(Router!Stamped) /\ Append(Kept, evicting[1]) \in Seq(Router!Stamped)
      <3>1. mailbox[active] \in Seq(Router!Stamped) /\ evicting[1] \in Router!Stamped
        BY <1>0, <2>2, <2>3
      <3>2. Kept \in Seq(Router!Stamped)
        BY <3>1, OwnKinds, HeadTypes DEF Kept
      <3> QED
        BY <3>1, <3>2, SequenceTypes
    <2>5. ResultsAt(Kept, g) = ResultsAt(mailbox[active], g)
      <3>1. CASE mailbox[active] = << >>
        BY <3>1 DEF Kept
      <3>2. CASE mailbox[active] # << >>
        <4>1. Kept = Tail(mailbox[active])
          BY <3>2 DEF Kept
        <4>2. ResultsAt(mailbox[active], g) = Once(Head(mailbox[active]), g) + ResultsAt(Kept, g)
          BY <2>4, <3>2, <4>1, OneLess
        <4>3. Head(mailbox[active]) \in ForHandle(active)
          BY <2>2, <3>2, HeadTypes
        <4>4. ~Has(mailbox[active], active)
          <5>1. Has(mailbox[active], active) => evicting \in Seq(NotOf(active))
            BY <2>2 DEF Sealed
          <5>2. evicting \in Seq(NotOf(active)) => evicting[1] \in NotOf(active)
            BY <2>2, HeadTypes
          <5>3. evicting[1] \notin NotOf(active)
            BY <2>2 DEF ForHandle, NotOf
          <5> QED
            BY <5>1, <5>2, <5>3
        <4>5. Head(mailbox[active]).ev.kind # "result"
          BY <2>4, <3>2, <4>3, <4>4, HasTail DEF ResultOf, ForHandle
        <4>6. Once(Head(mailbox[active]), g) = 0
          BY <4>3, <4>5 DEF Once, Answers, ForHandle
        <4>7. ResultsAt(Kept, g) \in Nat
          BY <2>4, PlaceCounts
        <4> QED
          BY <4>2, <4>6, <4>7
      <3> QED
        BY <3>1, <3>2
    <2>6. ResultsAt(Append(Kept, evicting[1]), g) = ResultsAt(Kept, g) + Once(evicting[1], g)
      BY <2>4, OneMore
    <2>7. /\ Mailed(mailbox', g) + ResultsAt(mailbox[active], g) = Mailed(mailbox, g) + ResultsAt(Append(Kept, evicting[1]), g)
          /\ Mailed(mailbox', g) \in Nat
      BY <1>0, <2>2, <2>4, MailboxMoves
    <2>8. ResultsAt(mailbox[active], g) \in Nat /\ Once(evicting[1], g) \in Nat
      BY <2>4, PlaceCounts
    <2>9. Mailed(mailbox', g) = Mailed(mailbox, g) + Once(evicting[1], g)
      <3>1. Mailed(mailbox', g) + ResultsAt(mailbox[active], g)
            = Mailed(mailbox, g) + (ResultsAt(mailbox[active], g) + Once(evicting[1], g))
        BY <2>5, <2>6, <2>7, Zenon
      <3>2. Mailed(mailbox, g) \in Nat
        BY <1>1 DEF Places
      <3> QED
        BY <2>7, <2>8, <3>1, <3>2, NatSums
    <2>10. ResultsAt(evicting, g) = Once(evicting[1], g) /\ ResultsAt(evicting', g) = 0
      BY <1>0, <2>2, <2>4, PairHeld
    <2>11. /\ ResultsAt(pump', g) = ResultsAt(pump, g) /\ ResultsAt(pumpEv', g) = ResultsAt(pumpEv, g)
           /\ ResultsAt(events', g) = ResultsAt(events, g) /\ ResultsAt(orphans', g) = ResultsAt(orphans, g)
           /\ Answered(answer', g) = Answered(answer, g)
           /\ Shown(surfaced', g) = Shown(surfaced, g) /\ ResultsAt(rlOut', g) = ResultsAt(rlOut, g)
      BY <1>2, <2>1, <2>2, Zenon
    <2>12. ResultsAt(rlOut, g) + ResultsAt(pump, g) + ResultsAt(pumpEv, g) + ResultsAt(events, g)
             + ResultsAt(evicting, g) + ResultsAt(orphans, g) + Mailed(mailbox, g) + Answered(answer, g) + Shown(surfaced, g)
           = ResultsAt(rlOut', g) + ResultsAt(pump', g) + ResultsAt(pumpEv', g) + ResultsAt(events', g)
             + ResultsAt(evicting', g) + ResultsAt(orphans', g) + Mailed(mailbox', g) + Answered(answer', g)
             + Shown(surfaced', g)
      BY <1>1, <2>9, <2>10, <2>11 DEF Places
    <2> QED
      BY <2>12, MovesWhole
  <1> QED
    BY <1>5, <1>7, <1>8, <1>9, <1>10, <1>11, <1>12 DEF Pump

\* Consumers see a result at most once, where they take it.
LEMMA ShowsTaken ==
  ASSUME SessionTypes, SessionTypes', NEW g, NEW seq \in Seq(Router!Stamped), surfaced' = surfaced \cup ResultsOf(seq),
         ResultsAt(seq, g) + Shown(surfaced, g) <= 1
  PROVE  Shown(surfaced', g) = ResultsAt(seq, g) + Shown(surfaced, g)
  <1>1. ResultsAt(seq, g) \in Nat /\ (ResultsAt(seq, g) = 0 <=> ResultsIn(seq, g) = {})
    BY Counted
  <1>2. g \in ResultsOf(seq) <=> ResultsIn(seq, g) # {}
    BY DEF ResultsOf, ResultsIn
  <1>3. CASE ResultsAt(seq, g) = 0
    BY <1>1, <1>2, <1>3 DEF Shown
  <1>4. CASE ResultsAt(seq, g) # 0
    <2>1. \A a, b \in Nat : a # 0 /\ a + b <= 1 => a = 1 /\ b = 0
      OBVIOUS
    <2>2. Shown(surfaced, g) \in Nat
      BY PlaceCounts
    <2>3. ResultsAt(seq, g) = 1 /\ Shown(surfaced, g) = 0
      BY <1>1, <1>4, <2>1, <2>2
    <2>4. g \in surfaced'
      BY <1>1, <1>2, <1>4
    <2> QED
      BY <2>3, <2>4 DEF Shown
  <1> QED
    BY <1>3, <1>4

\* A wait that returns with a result is one more answer that has it.
LEMMA AnswerCounts ==
  ASSUME DOMAIN answer = Queries, NEW h \in Queries, answer[h] = Waiting, NEW a, NEW g,
         answer' = [answer EXCEPT ![h] = a]
  PROVE  /\ a.by = "result" /\ g \in a.of => Answered(answer', g) = Answered(answer, g) + 1
         /\ ~(a.by = "result" /\ g \in a.of) => Answered(answer', g) = Answered(answer, g)
  <1> DEFINE before == {k \in Queries : answer[k].by = "result" /\ g \in answer[k].of}
             after == {k \in Queries : answer'[k].by = "result" /\ g \in answer'[k].of}
  <1>1. answer'[h] = a /\ \A k \in Queries \ {h} : answer'[k] = answer[k]
    OBVIOUS
  <1>2. h \notin before
    BY DEF Waiting
  <1>3. \A k \in Queries \ {h} : k \in after <=> k \in before
    BY <1>1
  <1>4. h \in after <=> a.by = "result" /\ g \in a.of
    BY <1>1
  <1>5. IsFiniteSet(before)
    <2>1. IsFiniteSet(Queries)
      BY RouterFacts, FS_Interval
    <2>2. before \in SUBSET Queries
      OBVIOUS
    <2> QED
      BY <2>1, <2>2, FS_Subset
  <1>6. before \subseteq Queries /\ after \subseteq Queries
    OBVIOUS
  <1>7. Answered(answer, g) = Cardinality(before) /\ Answered(answer', g) = Cardinality(after)
    BY DEF Answered
  <1> HIDE DEF before, after
  <1>8. ASSUME a.by = "result" /\ g \in a.of
        PROVE  Answered(answer', g) = Answered(answer, g) + 1
    <2>1. after = before \cup {h}
      BY <1>3, <1>4, <1>6, <1>8
    <2> QED
      BY <1>2, <1>5, <1>7, <2>1, FS_AddElement
  <1>9. ASSUME ~(a.by = "result" /\ g \in a.of)
        PROVE  Answered(answer', g) = Answered(answer, g)
    <2>1. after = before
      BY <1>2, <1>3, <1>4, <1>6, <1>9
    <2> QED
      BY <1>7, <2>1
  <1> QED
    BY <1>8, <1>9

\* Callers and consumers.
LEMMA OthersMove ==
  ASSUME Settled, Settled', Sent, MaxTicks = 0, Delivered, NEW g \in Queries, Copies(g) <= 1, [Next]_vars, ~ReadLoop, ~Pump
  PROVE  Moves(g)
  <1> USE DEF Settled
  <1>0. /\ pump \in Seq(Router!Stamped) /\ events \in Seq(Router!Stamped) /\ orphans \in Seq(Router!Stamped)
        /\ mailbox \in [Queries -> Seq(Router!Stamped)] /\ ResultsAt(<< >>, g) = 0
    BY NoneHeld, RouterFacts DEF SessionTypes, PumpTypes, RouterTypes, Router!RouterTypeOK
  <1>1. /\ Places(rlOut, pump, pumpEv, events, evicting, orphans, mailbox, answer, surfaced, g)
        /\ Places(rlOut', pump', pumpEv', events', evicting', orphans', mailbox', answer', surfaced', g)
    BY PlaceTypes
  <1>2. ASSUME UNCHANGED <<rlOut, pumpEv, evicting>>,
               ResultsAt(pump', g) + ResultsAt(events', g) + ResultsAt(orphans', g) + Mailed(mailbox', g)
                 + Answered(answer', g) + Shown(surfaced', g)
               = ResultsAt(pump, g) + ResultsAt(events, g) + ResultsAt(orphans, g) + Mailed(mailbox, g)
                 + Answered(answer, g) + Shown(surfaced, g)
        PROVE  Moves(g)
    <2>1. /\ ResultsAt(rlOut', g) = ResultsAt(rlOut, g) /\ ResultsAt(pumpEv', g) = ResultsAt(pumpEv, g)
          /\ ResultsAt(evicting', g) = ResultsAt(evicting, g)
      BY <1>2, Zenon
    <2>2. ResultsAt(pump', g) + ResultsAt(events', g) + ResultsAt(orphans', g) + Mailed(mailbox', g)
            + Answered(answer', g) + Shown(surfaced', g)
          = ResultsAt(pump, g) + ResultsAt(events, g) + ResultsAt(orphans, g) + Mailed(mailbox, g)
            + Answered(answer, g) + Shown(surfaced, g)
      BY <1>2
    <2> HIDE <1>2
    <2>3. ResultsAt(rlOut, g) + ResultsAt(pump, g) + ResultsAt(pumpEv, g) + ResultsAt(events, g)
            + ResultsAt(evicting, g) + ResultsAt(orphans, g) + Mailed(mailbox, g) + Answered(answer, g) + Shown(surfaced, g)
          = ResultsAt(rlOut', g) + ResultsAt(pump', g) + ResultsAt(pumpEv', g) + ResultsAt(events', g)
            + ResultsAt(evicting', g) + ResultsAt(orphans', g) + Mailed(mailbox', g) + Answered(answer', g)
            + Shown(surfaced', g)
      <3>1. ResultsAt(rlOut, g) + ResultsAt(pump, g) + ResultsAt(pumpEv, g) + ResultsAt(events, g)
              + ResultsAt(evicting, g) + ResultsAt(orphans, g) + Mailed(mailbox, g) + Answered(answer, g) + Shown(surfaced, g)
            = ResultsAt(rlOut, g) + ResultsAt(pumpEv, g) + ResultsAt(evicting, g)
              + (ResultsAt(pump, g) + ResultsAt(events, g) + ResultsAt(orphans, g) + Mailed(mailbox, g)
                 + Answered(answer, g) + Shown(surfaced, g))
        BY <1>1 DEF Places
      <3>2. ResultsAt(rlOut', g) + ResultsAt(pump', g) + ResultsAt(pumpEv', g) + ResultsAt(events', g)
              + ResultsAt(evicting', g) + ResultsAt(orphans', g) + Mailed(mailbox', g) + Answered(answer', g)
              + Shown(surfaced', g)
            = ResultsAt(rlOut', g) + ResultsAt(pumpEv', g) + ResultsAt(evicting', g)
              + (ResultsAt(pump', g) + ResultsAt(events', g) + ResultsAt(orphans', g) + Mailed(mailbox', g)
                 + Answered(answer', g) + Shown(surfaced', g))
        BY <1>1 DEF Places
      <3> QED
        BY <2>1, <2>2, <3>1, <3>2, Zenon
    <2> QED
      BY <2>3, MovesWhole
  <1>3. ASSUME UNCHANGED <<rlOut, pump, pumpEv, events, evicting, orphans, mailbox, answer, surfaced>>
        PROVE  Moves(g)
    BY <1>2, <1>3
  <1>4. ASSUME NEW c \in Callers, CallSend(c)
        PROVE  Moves(g)
    <2>1. UNCHANGED <<rlOut, pumpEv, events, evicting, orphans, mailbox, answer, surfaced>>
          /\ (pump' = Append(pump, call[c].out[1]) \/ pump' = pump)
      BY <1>4 DEF CallSend, SendSelect, loopState, routerState, userState
    <2>2. call[c].out[1] \in Notices /\ call[c].out[1] \in Router!Stamped
      BY <1>4, SendingParts, HeadTypes DEF CallSend, SessionTypes, OwnInv, OwnPipe
    <2>3. Once(call[c].out[1], g) = 0
      BY <2>2, NoticeCounts
    <2>4. ResultsAt(Append(pump, call[c].out[1]), g) = ResultsAt(pump, g)
      <3>1. ResultsAt(Append(pump, call[c].out[1]), g) = ResultsAt(pump, g) + Once(call[c].out[1], g)
        BY <1>0, <2>2, OneMore
      <3> QED
        BY <1>1, <2>3, <3>1 DEF Places
    <2>5. ResultsAt(pump', g) = ResultsAt(pump, g)
      BY <2>1, <2>4
    <2> QED
      BY <1>2, <2>1, <2>5
  <1>5. ASSUME NEW c \in Callers, StartCall(c) \/ (CallStep(c) /\ ~CallSend(c))
        PROVE  Moves(g)
    <2>1. UNCHANGED <<rlOut, pump, pumpEv, events, evicting, orphans, mailbox, answer, surfaced>>
      BY <1>5 DEF StartCall, CallStep, EnableRouting, CallStamp, PrepareQuery, ValidateSendable, CountGen,
         ArmHandle, StoreGen, MarkQuery, WriteOk, WriteFails, FailGen, FailState, FailDetach,
         loopState, pumpState, routerState, userState, Router!Arm, Router!Detach
    <2> QED
      BY <1>3, <2>1
  <1>6. ASSUME NEW h \in Queries, WaitReceive(h)
        PROVE  Moves(g)
    <2> DEFINE sev == Head(mailbox[h])
    <2>1. /\ UNCHANGED <<rlOut, pump, pumpEv, events, evicting, orphans, surfaced>> /\ answer[h] = Waiting
          /\ mailbox[h] # << >> /\ mailbox' = [mailbox EXCEPT ![h] = Tail(mailbox[h])]
          /\ answer' = IF sev.ev.kind \in Terminal
                       THEN [answer EXCEPT ![h] = [by |-> sev.ev.kind, of |-> sev.ev.of]]
                       ELSE answer
      BY <1>6 DEF WaitReceive, Router!Receive, loopState, pumpState
    <2>2. sev \in ForHandle(h) /\ mailbox[h] \in Seq(Router!Stamped) /\ Tail(mailbox[h]) \in Seq(Router!Stamped)
      <3>1. mailbox[h] \in Seq(ForHandle(h))
        BY DEF Delivered
      <3> QED
        BY <1>0, <2>1, <3>1, HeadTypes
    <2>3. ResultsAt(mailbox[h], g) = Once(sev, g) + ResultsAt(Tail(mailbox[h]), g)
      BY <2>1, <2>2, OneLess
    <2>4. /\ Mailed(mailbox', g) + ResultsAt(mailbox[h], g) = Mailed(mailbox, g) + ResultsAt(Tail(mailbox[h]), g)
          /\ Mailed(mailbox', g) \in Nat
      BY <1>0, <2>1, <2>2, MailboxMoves
    <2>5. Answered(answer', g) = Answered(answer, g) + Once(sev, g)
      <3> HIDE DEF sev
      <3>1. sev.ev.kind # "unsolicited"
        BY <2>2 DEF ForHandle
      <3>2. Once(sev, g) = IF sev.ev.kind = "result" /\ g \in sev.ev.of THEN 1 ELSE 0
        BY <3>1 DEF Once, Answers
      <3>3. Answered(answer, g) \in Nat
        BY PlaceCounts
      <3>4. CASE sev.ev.kind \in Terminal
        <4> DEFINE a == [by |-> sev.ev.kind, of |-> sev.ev.of]
        <4>0. a.by = sev.ev.kind /\ a.of = sev.ev.of
          OBVIOUS
        <4>1. answer' = [answer EXCEPT ![h] = a] /\ DOMAIN answer = Queries /\ answer[h] = Waiting
          BY <2>1, <3>4 DEF OwnInv, OwnAnswers
        <4> HIDE DEF a
        <4>2. CASE sev.ev.kind = "result" /\ g \in sev.ev.of
          <5>0. a.by = "result" /\ g \in a.of
            BY <4>0, <4>2
          <5>1. Answered(answer', g) = Answered(answer, g) + 1
            BY <4>1, <5>0, AnswerCounts
          <5> QED
            BY <3>2, <4>2, <5>1
        <4>3. CASE ~(sev.ev.kind = "result" /\ g \in sev.ev.of)
          <5>1. Answered(answer', g) = Answered(answer, g)
            BY <4>0, <4>1, <4>3, AnswerCounts
          <5>2. Once(sev, g) = 0
            BY <3>2, <4>3
          <5> QED
            BY <3>3, <5>1, <5>2
        <4> QED
          BY <4>2, <4>3
      <3>5. CASE sev.ev.kind \notin Terminal
        <4>1. answer' = answer
          BY <2>1, <3>5
        <4>2. Once(sev, g) = 0
          BY <3>2, <3>5 DEF Terminal
        <4> QED
          BY <3>3, <4>1, <4>2
      <3> QED
        BY <3>4, <3>5
    <2>6. Once(sev, g) \in Nat /\ ResultsAt(Tail(mailbox[h]), g) \in Nat
      BY <2>2, PlaceCounts
    <2> HIDE DEF sev
    <2>7. Mailed(mailbox', g) + Once(sev, g) = Mailed(mailbox, g)
      <3>1. Mailed(mailbox', g) + (Once(sev, g) + ResultsAt(Tail(mailbox[h]), g))
            = Mailed(mailbox, g) + ResultsAt(Tail(mailbox[h]), g)
        BY <2>3, <2>4, Zenon
      <3>2. Mailed(mailbox, g) \in Nat
        BY <1>1 DEF Places
      <3> QED
        BY <2>4, <2>6, <3>1, <3>2, NatSums
    <2>8. /\ ResultsAt(pump', g) = ResultsAt(pump, g) /\ ResultsAt(events', g) = ResultsAt(events, g)
          /\ ResultsAt(orphans', g) = ResultsAt(orphans, g) /\ Shown(surfaced', g) = Shown(surfaced, g)
      BY <2>1, Zenon
    <2>9. ResultsAt(pump', g) + ResultsAt(events', g) + ResultsAt(orphans', g) + Mailed(mailbox', g)
            + Answered(answer', g) + Shown(surfaced', g)
          = ResultsAt(pump, g) + ResultsAt(events, g) + ResultsAt(orphans, g) + Mailed(mailbox, g)
            + Answered(answer, g) + Shown(surfaced, g)
      BY <1>1, <2>5, <2>6, <2>7, <2>8 DEF Places
    <2> QED
      BY <1>2, <2>1, <2>9
  <1>7. ASSUME NEW h \in Queries, WaitClosed(h)
        PROVE  Moves(g)
    <2> DEFINE a == [by |-> "closed", of |-> {}]
    <2>1. /\ UNCHANGED <<rlOut, pump, pumpEv, events, evicting, orphans, mailbox, surfaced>> /\ answer[h] = Waiting
          /\ answer' = [answer EXCEPT ![h] = a]
          /\ DOMAIN answer = Queries
      BY <1>7 DEF WaitClosed, loopState, pumpState, routerState, OwnInv, OwnAnswers
    <2>0. a.by # "result"
      OBVIOUS
    <2> HIDE DEF a
    <2>2. Answered(answer', g) = Answered(answer, g)
      BY <2>0, <2>1, AnswerCounts
    <2> QED
      BY <1>2, <2>1, <2>2
  <1>8. CASE DrainOrphans
    <2>1. /\ UNCHANGED <<rlOut, pump, pumpEv, events, evicting, mailbox, answer>> /\ orphans' = << >>
          /\ surfaced' = surfaced \cup ResultsOf(orphans)
      BY <1>8 DEF DrainOrphans, Router!DrainOrphans, loopState, pumpState
    <2>2. ResultsAt(orphans, g) + Shown(surfaced, g) <= 1
      BY <1>1, CopiesSum DEF Places
    <2>3. Shown(surfaced', g) = ResultsAt(orphans, g) + Shown(surfaced, g)
      BY <1>0, <2>1, <2>2, ShowsTaken
    <2>4. /\ ResultsAt(pump', g) = ResultsAt(pump, g) /\ ResultsAt(events', g) = ResultsAt(events, g)
          /\ ResultsAt(orphans', g) = 0 /\ Mailed(mailbox', g) = Mailed(mailbox, g)
          /\ Answered(answer', g) = Answered(answer, g)
      BY <1>0, <2>1, Zenon
    <2>5. ResultsAt(pump', g) + ResultsAt(events', g) + ResultsAt(orphans', g) + Mailed(mailbox', g)
            + Answered(answer', g) + Shown(surfaced', g)
          = ResultsAt(pump, g) + ResultsAt(events, g) + ResultsAt(orphans, g) + Mailed(mailbox, g)
            + Answered(answer, g) + Shown(surfaced, g)
      BY <1>1, <2>3, <2>4 DEF Places
    <2> QED
      BY <1>2, <2>1, <2>5
  <1>9. CASE ReadEvents
    <2>1. /\ UNCHANGED <<rlOut, pump, pumpEv, orphans, evicting, mailbox, answer>> /\ events # << >>
          /\ events' = Tail(events) /\ surfaced' = surfaced \cup ResultsOf(<<Head(events)>>)
      BY <1>9 DEF ReadEvents, loopState, routerState
    <2>2. Head(events) \in Router!Stamped
      BY <1>0, <2>1, HeadTypes
    <2>3. <<Head(events)>> \in Seq(Router!Stamped) /\ ResultsAt(<<Head(events)>>, g) = Once(Head(events), g)
      <3>1. <<Head(events)>> \in Seq(Router!Stamped)
        BY <2>2
      <3>2. ResultsAt(<<Head(events)>>, g) = Once(Head(events), g)
        BY <2>2, PairHeld
      <3> QED
        BY <3>1, <3>2
    <2>4. ResultsAt(events, g) = Once(Head(events), g) + ResultsAt(events', g) /\ Once(Head(events), g) \in Nat
      BY <1>0, <2>1, OneLess, PlaceCounts
    <2>5. Once(Head(events), g) + Shown(surfaced, g) <= 1
      <3>1. ResultsAt(events, g) + Shown(surfaced, g) <= 1
        BY <1>1, CopiesSum DEF Places
      <3> QED
        BY <1>1, <2>4, <3>1 DEF Places
    <2>6. Shown(surfaced', g) = Once(Head(events), g) + Shown(surfaced, g)
      BY <2>1, <2>3, <2>5, ShowsTaken
    <2>7. /\ ResultsAt(pump', g) = ResultsAt(pump, g) /\ ResultsAt(orphans', g) = ResultsAt(orphans, g)
          /\ Mailed(mailbox', g) = Mailed(mailbox, g) /\ Answered(answer', g) = Answered(answer, g)
      BY <2>1, Zenon
    <2>8. ResultsAt(pump', g) + ResultsAt(events', g) + ResultsAt(orphans', g) + Mailed(mailbox', g)
            + Answered(answer', g) + Shown(surfaced', g)
          = ResultsAt(pump, g) + ResultsAt(events, g) + ResultsAt(orphans, g) + Mailed(mailbox, g)
            + Answered(answer, g) + Shown(surfaced, g)
      BY <1>1, <2>4, <2>6, <2>7 DEF Places
    <2> QED
      BY <1>2, <2>1, <2>8
  <1>10. CASE CLIStep \/ Cancel \/ UNCHANGED vars \/ \E h \in Queries : Abandon(h)
    <2>1. UNCHANGED <<rlOut, pump, pumpEv, events, evicting, orphans, mailbox, answer, surfaced>>
      BY <1>10 DEF CLIStep, Cancel, vars, Abandon, loopState, pumpState, routerState, userState, Router!Detach
    <2> QED
      BY <1>3, <2>1
  <1>11. ~Ticker
    BY DEF Sent, Ticker, TickRead, TickStamp, TickSend
  <1> QED
    BY <1>4, <1>5, <1>6, <1>7, <1>8, <1>9, <1>10, <1>11 DEF Next, Terminated, Consume

-----------------------------------------------------------------------------
(* Every result is held once                                               *)

\* Only a call that writes makes its query pending.
LEMMA PendsBefore ==
  ASSUME SessionTypes, TurnInv, NEW g \in Queries, [Next]_vars, Pending(g)'
  PROVE  Pending(g) \/ g \notin Past
  <1>1. CASE CLIStep
    BY <1>1, CLIPends
  <1>2. CASE ReadLoop
    <2>1. UNCHANGED <<stdin, turn>>
      BY <1>2 DEF ReadLoop, ReadEcho, ReadInit, ReadTool, ReadHeldResult, StampHeld, ReadResult,
         ReadApiError, ClearGen, TrackState, ObserveTerminal, Push, WaitProcess, ClosePump,
         StampExit, DeliverExit, CheckRouted, Shutdown, Finish, StampTerminal, Reads, cliVars
    <2>2. stdout' = stdout \/ (stdout # << >> /\ stdout' = Tail(stdout))
      BY <1>2 DEF ReadLoop, ReadEcho, ReadInit, ReadTool, ReadHeldResult, StampHeld, ReadResult,
         ReadApiError, ClearGen, TrackState, ObserveTerminal, Push, WaitProcess, ClosePump,
         StampExit, DeliverExit, CheckRouted, Shutdown, Finish, StampTerminal, Reads, cliVars
    <2>3. stdout # << >> => \A i \in DOMAIN Tail(stdout) :
            i + 1 \in DOMAIN stdout /\ Tail(stdout)[i] = stdout[i + 1]
      BY TailLines DEF SessionTypes, CLITypes
    <2> QED
      BY <2>1, <2>2, <2>3 DEF Pending
  <1>3. ASSUME NEW c \in Callers, CallStep(c)
        PROVE  Pending(g) \/ g \notin Past
    <2>1. /\ UNCHANGED <<stdout, turn>>
          /\ stdin' = stdin \/ WriteOk(c) \/ WriteFails(c)
      BY <1>3 DEF CallStep, EnableRouting, CallStamp, CallSend, PrepareQuery, ValidateSendable, CountGen,
         ArmHandle, StoreGen, MarkQuery, WriteOk, WriteFails, FailGen, FailState, FailDetach, cliVars
    <2>2. CASE stdin' = stdin
      BY <2>1, <2>2 DEF Pending
    <2>3. CASE WriteOk(c) \/ WriteFails(c)
      <3>1. Asking(call[c])
        BY <1>3, <2>3, AskedGens
      <3>2. \A i \in DOMAIN stdin' :
              (i \in DOMAIN stdin /\ stdin'[i] = stdin[i]) \/ stdin'[i].q = call[c].gen
        <4>1. stdin \in Seq(Message)
          BY DEF SessionTypes, CLITypes
        <4>2. ASSUME NEW m, m.q = call[c].gen, stdin' = Append(stdin, m)
              PROVE  \A i \in DOMAIN stdin' :
                       (i \in DOMAIN stdin /\ stdin'[i] = stdin[i]) \/ stdin'[i].q = call[c].gen
          BY <4>1, <4>2
        <4>3. stdin' = stdin \/ \E m : m.q = call[c].gen /\ stdin' = Append(stdin, m)
          BY <2>3 DEF WriteOk, WriteFails, Receives
        <4> QED
          BY <4>2, <4>3
      <3>3. g = call[c].gen => g \notin Past
        BY <3>1 DEF Past
      <3> QED
        BY <2>1, <3>2, <3>3 DEF Pending
    <2> QED
      BY <2>1, <2>2, <2>3
  <1>4. CASE Pump \/ Ticker \/ Consume \/ Cancel \/ UNCHANGED vars \/ \E c \in Callers : StartCall(c)
    <2>1. UNCHANGED <<stdin, stdout, turn>>
      BY <1>4 DEF Pump, PumpTake, PumpRoute, PumpUnrouted, PumpSend, PumpBarrier, PumpFlush,
         PumpFlushed, PumpStop, Evict, Ticker, TickRead, TickStamp, TickSend, Consume,
         DrainOrphans, ReadEvents, WaitReceive, WaitClosed, Abandon, Cancel, StartCall, vars, cliVars
    <2> QED
      BY <2>1 DEF Pending
  <1> QED
    BY <1>1, <1>2, <1>3, <1>4 DEF Next, Terminated

\* A result that is read answers a query that was pending, and is not any more.
LEMMA ReadsPending ==
  ASSUME SessionTypes, TurnInv, PendingOwn, NEW g \in Queries, Reads("result"), g \in Head(stdout).of
  PROVE  Pending(g) /\ g \in Past /\ ~Pending(g)'
  <1>1. /\ stdout \in Seq(Line) /\ stdout # << >> /\ stdout' = Tail(stdout) /\ UNCHANGED <<stdin, turn>>
        /\ Head(stdout).kind = "result"
    BY DEF Reads, SessionTypes, CLITypes
  <1>2. 1 \in DOMAIN stdout /\ Head(stdout) = stdout[1]
    BY <1>1
  <1>3. Pending(g) /\ AnswerIn(stdout, 1) /\ InStdout
    BY <1>1, <1>2 DEF Pending, AnswerIn, InStdout
  <1>4. stdin = << >> /\ turn.of = {}
    BY <1>3 DEF TurnInv, OneAtATime, InStdin, InTurn
  <1>5. ASSUME NEW i \in DOMAIN Tail(stdout), Tail(stdout)[i].kind = "result", g \in Tail(stdout)[i].of
        PROVE  FALSE
    <2>1. i + 1 \in DOMAIN stdout /\ Tail(stdout)[i] = stdout[i + 1] /\ i \in Nat \ {0}
      <3>1. DOMAIN Tail(stdout) = 1..(Len(stdout) - 1) /\ Len(stdout) \in Nat
        BY <1>1
      <3> QED
        BY <1>1, <3>1, TailLines
    <2>2. AnswerIn(stdout, i + 1)
      BY <1>5, <2>1 DEF AnswerIn
    <2>3. i + 1 = 1
      BY <1>2, <1>3, <2>1, <2>2 DEF TurnInv, OnlyOne
    <2> QED
      BY <2>1, <2>3
  <1>6. DOMAIN << >> = {}
    OBVIOUS
  <1>7. ~Pending(g)'
    BY <1>1, <1>4, <1>5, <1>6 DEF Pending
  <1> QED
    BY <1>3, <1>7 DEF PendingOwn

\* The result of a query that was not read yet is nowhere, and once it was read
\* it is in one place at most.
CopiesInv ==
  \A g \in Queries : Copies(g) <= 1 /\ (g \notin Past \/ Pending(g) => Copies(g) = 0)

LEMMA NextKeepsCopies ==
  ASSUME Settled, Settled', Stopped, Sent, PastGrows, MaxTicks = 0, BarePipe, Delivered, Hands,
         \A h \in Queries : Sealed(h), CopiesInv, NEW g \in Queries, [Next]_vars
  PROVE  /\ Copies(g)' <= 1 /\ (g \notin Past' \/ Pending(g)' => Copies(g)' = 0)
         /\ Copies(g) = 1 /\ ~ctxDone /\ Len(orphans) < OrphanMailboxCap => Copies(g)' = 1
  <1> USE DEF Settled
  <1>1. /\ Copies(g) \in Nat /\ Copies(g)' \in Nat
    <2>1. /\ Places(rlOut, pump, pumpEv, events, evicting, orphans, mailbox, answer, surfaced, g)
          /\ Places(rlOut', pump', pumpEv', events', evicting', orphans', mailbox', answer', surfaced', g)
      BY PlaceTypes
    <2>2. Copies(g) \in Nat
      BY <2>1, CopiesSum DEF Places
    <2>3. Copies(g)' \in Nat
      BY <2>1, CopiesSum DEF Places
    <2> QED
      BY <2>2, <2>3
  <1>2. Copies(g) <= 1 /\ (g \notin Past \/ Pending(g) => Copies(g) = 0)
    BY DEF CopiesInv
  <1>3. CASE Moves(g)
    <2>1. Copies(g)' <= 1
      BY <1>1, <1>2, <1>3 DEF Moves
    <2>2. g \notin Past' \/ Pending(g)' => g \notin Past \/ Pending(g)
      BY PendsBefore DEF PastGrows
    <2>3. Copies(g) = 0 => Copies(g)' = 0
      BY <1>1, <1>3 DEF Moves
    <2>4. Copies(g) = 1 /\ ~ctxDone /\ Len(orphans) < OrphanMailboxCap => Copies(g)' = 1
      BY <1>3 DEF Moves
    <2> QED
      BY <1>2, <2>1, <2>2, <2>3, <2>4
  <1>4. CASE Copies(g)' = Copies(g) + 1 /\ Reads("result") /\ g \in Head(stdout).of
    <2>1. Pending(g) /\ g \in Past /\ ~Pending(g)'
      BY <1>4, ReadsPending DEF LateInv
    <2>2. Copies(g) = 0 /\ Copies(g)' = 1
      BY <1>2, <1>4, <2>1
    <2>3. g \in Past'
      BY <2>1 DEF PastGrows
    <2> QED
      BY <2>1, <2>2, <2>3
  <1>5. CASE ReadLoop
    BY <1>3, <1>4, <1>5, LoopMoves
  <1>6. CASE Pump
    BY <1>3, <1>6, PumpMoves
  <1>7. CASE ~ReadLoop /\ ~Pump
    BY <1>2, <1>3, <1>7, OthersMove
  <1> QED
    BY <1>5, <1>6, <1>7

\* Nothing has been read.
LEMMA InitCopies ==
  ASSUME Init
  PROVE  BarePipe /\ Delivered /\ Hands /\ (\A g \in Queries : Sealed(g)) /\ CopiesInv
  <1> USE DEF Init
  <1>0. \A S : << >> \in Seq(S)
    BY OwnKinds
  <1>1. mailbox = [g \in Queries |-> << >>] /\ evicting = << >> /\ orphans = << >> /\ ~shutdown
    BY RouterFacts DEF Router!RouterInit
  <1>2. BarePipe
    BY <1>0 DEF BarePipe
  <1>3. Delivered
    BY <1>0, <1>1 DEF Delivered
  <1>4. Hands
    <2>1. Len(<< >>) = 0
      OBVIOUS
    <2> QED
      BY <1>1, <2>1 DEF Hands
  <1>5. \A g \in Queries : Sealed(g)
    BY <1>1, HasOne DEF Sealed
  <1>6. ASSUME NEW g \in Queries
        PROVE  Copies(g) = 0
    <2>1. ResultsAt(<< >>, g) = 0
      BY NoneHeld
    <2>2. Mailed(mailbox, g) = 0
      <3>1. \A h \in Queries : ResultsIn(mailbox[h], g) = {}
        <4>1. DOMAIN << >> = {}
          OBVIOUS
        <4>2. ResultsIn(<< >>, g) = {}
          BY <4>1 DEF ResultsIn
        <4> QED
          BY <1>1, <4>2
      <3>2. Boxes(mailbox, Queries, g) = {}
        BY <3>1 DEF Boxes
      <3> QED
        BY <3>2, FS_EmptySet DEF Mailed
    <2>3. Answered(answer, g) = 0
      <3>1. {h \in Queries : answer[h].by = "result" /\ g \in answer[h].of} = {}
        BY DEF Waiting
      <3> QED
        BY <3>1, FS_EmptySet DEF Answered
    <2>4. Shown(surfaced, g) = 0
      BY DEF Shown
    <2>5. /\ ResultsAt(rlOut, g) = 0 /\ ResultsAt(pump, g) = 0 /\ ResultsAt(pumpEv, g) = 0
          /\ ResultsAt(events, g) = 0 /\ ResultsAt(evicting, g) = 0 /\ ResultsAt(orphans, g) = 0
      BY <1>1, <2>1
    <2>6. Copies(g) = ResultsAt(rlOut, g) + ResultsAt(pump, g) + ResultsAt(pumpEv, g) + ResultsAt(events, g)
                      + ResultsAt(evicting, g) + ResultsAt(orphans, g) + Mailed(mailbox, g)
                      + Answered(answer, g) + Shown(surfaced, g)
      BY CopiesSum
    <2> HIDE DEF Init
    <2> QED
      BY <2>2, <2>3, <2>4, <2>5, <2>6
  <1>7. CopiesInv
    BY <1>6 DEF CopiesInv
  <1> QED
    BY <1>2, <1>3, <1>4, <1>5, <1>7

\* The result of a query is held once from when readLoop reads it: no step of
\* the pump, of the router or of a consumer delivers it twice, and none loses it
\* while the context lasts and the orphan mailbox has room.  In particular the
\* eviction from a full mailbox never takes the query's own result.
THEOREM ResultsAreKeptOnce ==
  ASSUME Ops = {"QueryCtx"}, ErrorTurns = {}, MaxTicks = 0
  PROVE  Spec => ResultKeptOnce
  <1> DEFINE IInv == Settled /\ WaitInv /\ BarePipe /\ Delivered /\ Hands /\ (\A g \in Queries : Sealed(g)) /\ CopiesInv
             KeepsOnce == \A g \in Queries :
                        /\ Copies(g)' <= 1
                        /\ Copies(g) = 1 /\ ~ctxDone /\ Len(orphans) < OrphanMailboxCap => Copies(g)' = 1
  <1>1. Init => IInv
    BY InitSettled, InitWait, InitCopies
  <1>2. IInv /\ [Next]_vars => IInv' /\ KeepsOnce
    <2> SUFFICES ASSUME IInv, [Next]_vars
                 PROVE  IInv' /\ KeepsOnce
      OBVIOUS
    <2>0. Stopped /\ Sent /\ Unrouted
      BY DEF WaitInv
    <2>1. Settled' /\ WaitInv'
      BY NextKeepsWait
    <2>2. PastGrows
      BY NextCounts DEF Settled, LateInv, PendingOwn
    <2>3. BarePipe'
      BY <2>0, <2>1, NextKeepsBare
    <2>4. Delivered'
      BY NextKeepsDelivered
    <2>5. Hands'
      BY <2>1, NextKeepsHands DEF WaitInv
    <2>6. \A g \in Queries : Sealed(g)'
      BY <2>0, <2>1, <2>2, NextKeepsSealed
    <2>7. ASSUME NEW g \in Queries
          PROVE  /\ Copies(g)' <= 1 /\ (g \notin Past' \/ Pending(g)' => Copies(g)' = 0)
                 /\ Copies(g) = 1 /\ ~ctxDone /\ Len(orphans) < OrphanMailboxCap => Copies(g)' = 1
      BY <2>0, <2>1, <2>2, NextKeepsCopies
    <2>8. CopiesInv'
      BY <2>7 DEF CopiesInv
    <2> QED
      BY <2>1, <2>3, <2>4, <2>5, <2>6, <2>7, <2>8
  <1>3. IInv /\ [Next]_vars => [KeepsOnce]_vars
    BY <1>2
  <1> QED
    BY <1>1, <1>2, <1>3, PTL DEF Spec, ResultKeptOnce
=============================================================================
