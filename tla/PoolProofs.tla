----------------------------- MODULE PoolProofs -----------------------------
(***************************************************************************)
(* Proofs about Pool, for any sessions and any bounds: its types, and that *)
(* no forwarder is left when the pool's channel is closed; and about       *)
(* OneShot, for channels of any capacity: what Wait returns is how the run *)
(* ended.                                                                  *)
(***************************************************************************)
EXTENDS Pool, OneShot, TLAPS

USE PoolAssumption DEF Registration

\* Close goes through its steps once, and the channel is closed by the last one.
ClosesInOrder ==
  /\ channelClosed => closer = "returned"
  /\ closer # "none" => poolClosed

PoolInv == PoolTypeOK /\ ClosesInOrder /\ ClosedAfterForwarders

-----------------------------------------------------------------------------
LEMMA AppendOne ==
  ASSUME NEW S, NEW seq \in Seq(S), NEW x \in S
  PROVE  Append(seq, x) \in Seq(S) /\ Len(Append(seq, x)) = Len(seq) + 1
  OBVIOUS

LEMMA TailOfSome ==
  ASSUME NEW S, NEW seq \in Seq(S), seq # <<>>
  PROVE  Tail(seq) \in Seq(S) /\ Len(Tail(seq)) = Len(seq) - 1
  OBVIOUS

\* What PoolTypeOK says of the forwarders.
ForwardersTyped(fs) ==
  /\ fs \in [Registration -> [session : PoolSession \cup {"none"},
                             pc : {"unused", "receives", "sends", "done"}, ended : BOOLEAN]]
  /\ \A i \in Registration : fs[i].pc # "unused" => fs[i].session \in PoolSession

LEMMA ForwarderChanges ==
  ASSUME ForwardersTyped(forwarder), NEW i \in Registration, NEW s \in PoolSession \cup {"none"},
         NEW p \in {"unused", "receives", "sends", "done"}, NEW e \in BOOLEAN,
         p # "unused" => s \in PoolSession
  PROVE  ForwardersTyped([forwarder EXCEPT ![i] = [session |-> s, pc |-> p, ended |-> e]])
  <1> DEFINE fs == [forwarder EXCEPT ![i] = [session |-> s, pc |-> p, ended |-> e]]
  <1>1. /\ fs[i] = [session |-> s, pc |-> p, ended |-> e]
        /\ \A j \in Registration : j # i => fs[j] = forwarder[j]
    BY DEF ForwardersTyped
  <1>2. fs \in [Registration -> [session : PoolSession \cup {"none"},
                                pc : {"unused", "receives", "sends", "done"}, ended : BOOLEAN]]
    BY DEF ForwardersTyped
  <1>3. \A j \in Registration : fs[j].pc # "unused" => fs[j].session \in PoolSession
    BY <1>1 DEF ForwardersTyped
  <1> QED
    BY <1>2, <1>3 DEF ForwardersTyped

LEMMA ForwarderHas ==
  ASSUME ForwardersTyped(forwarder), NEW i \in Registration
  PROVE  /\ forwarder[i].session \in PoolSession \cup {"none"}
         /\ forwarder[i].pc \in {"unused", "receives", "sends", "done"}
         /\ forwarder[i].ended \in BOOLEAN
         /\ forwarder[i].pc # "unused" => forwarder[i].session \in PoolSession
  BY DEF ForwardersTyped

\* A change of one field is a change of the record.
LEMMA ForwarderMoves ==
  ASSUME ForwardersTyped(forwarder), NEW i \in Registration, NEW p
  PROVE  [forwarder EXCEPT ![i].pc = p] =
           [forwarder EXCEPT ![i] = [session |-> forwarder[i].session, pc |-> p,
                                     ended |-> forwarder[i].ended]]
  <1>1. [forwarder[i] EXCEPT !.pc = p] =
          [session |-> forwarder[i].session, pc |-> p, ended |-> forwarder[i].ended]
    BY DEF ForwardersTyped
  <1> QED
    BY <1>1, Zenon

LEMMA ForwarderEnds ==
  ASSUME ForwardersTyped(forwarder), NEW i \in Registration, NEW e
  PROVE  [forwarder EXCEPT ![i].ended = e] =
           [forwarder EXCEPT ![i] = [session |-> forwarder[i].session, pc |-> forwarder[i].pc,
                                     ended |-> e]]
  <1>1. [forwarder[i] EXCEPT !.ended = e] =
          [session |-> forwarder[i].session, pc |-> forwarder[i].pc, ended |-> e]
    BY DEF ForwardersTyped
  <1> QED
    BY <1>1, Zenon

LEMMA PoolInitInv == PoolInit => PoolInv
  <1> SUFFICES ASSUME PoolInit PROVE PoolInv
    OBVIOUS
  <1>1. <<>> \in Seq(PoolSession) /\ Len(<<>>) = 0
    OBVIOUS
  <1>2. PoolTypeOK
    <2>1. poolEvents \in Seq(PoolSession) /\ Len(poolEvents) <= PoolCap
      BY <1>1 DEF PoolInit
    <2>2. /\ open \in [PoolSession -> BOOLEAN]
          /\ produced \in [PoolSession -> 0..MaxPoolEvents]
          /\ inSession \in [PoolSession -> 0..SessionCap]
      BY DEF PoolInit
    <2>3. /\ registered \subseteq [session : PoolSession, by : Registration]
          /\ forwarder \in [Registration -> [session : PoolSession \cup {"none"},
                                           pc : {"unused", "receives", "sends", "done"},
                                           ended : BOOLEAN]]
          /\ \A i \in Registration : forwarder[i].pc # "unused" => forwarder[i].session \in PoolSession
      BY DEF PoolInit, NoForwarder
    <2> QED
      BY <2>1, <2>2, <2>3 DEF PoolInit, PoolTypeOK
  <1>3. ClosesInOrder /\ ClosedAfterForwarders
    BY DEF PoolInit, ClosesInOrder, ClosedAfterForwarders
  <1> QED
    BY <1>2, <1>3 DEF PoolInv

-----------------------------------------------------------------------------
\* What the sessions do by themselves or under Session.Close.
LEMMA SessionStep ==
  ASSUME PoolInv, NEW s \in PoolSession,
         SessionEmits(s) \/ SessionEnds(s) \/ SessionCloseDrains(s) \/ SessionCloseReturns(s)
  PROVE  PoolInv'
  <1> USE DEF PoolInv, closeSide, sessionSide
  <1>1. PoolTypeOK'
    <2>1. CASE SessionEmits(s)
      BY <2>1 DEF SessionEmits, PoolTypeOK
    <2>2. CASE SessionEnds(s)
      BY <2>2 DEF SessionEnds, PoolTypeOK
    <2>3. CASE SessionCloseDrains(s)
      BY <2>3 DEF SessionCloseDrains, PoolTypeOK
    <2>4. CASE SessionCloseReturns(s)
      BY <2>4 DEF SessionCloseReturns, PoolTypeOK
    <2> QED
      BY <2>1, <2>2, <2>3, <2>4
  <1>2. UNCHANGED <<forwarder, poolClosed, poolCtxEnded, channelClosed, closer>>
    BY DEF SessionEmits, SessionEnds, SessionCloseDrains, SessionCloseReturns
  <1>3. ClosesInOrder' /\ ClosedAfterForwarders'
    BY <1>2 DEF ClosesInOrder, ClosedAfterForwarders, Alive
  <1> QED
    BY <1>1, <1>3

\* A pool that takes a session is not closed, so its channel is not either.
LEMMA RegistrationStep ==
  ASSUME PoolInv, NEW s \in PoolSession, Add(s) \/ PoolRemove(s)
  PROVE  PoolInv'
  <1> USE DEF PoolInv, closeSide, sessionSide
  <1>1. CASE Add(s)
    <2>1. ~poolClosed
      BY <1>1 DEF Add, MayAdd
    <2>2. ClosesInOrder' /\ ~channelClosed'
      BY <1>1, <2>1 DEF Add, ClosesInOrder
    <2>3. PoolTypeOK'
      BY <1>1 DEF Add, PoolTypeOK
    <2> QED
      BY <2>2, <2>3 DEF ClosedAfterForwarders
  <1>2. CASE PoolRemove(s)
    <2>1. PICK r \in registered :
            /\ registered' = registered \ {r}
            /\ forwarder' = [forwarder EXCEPT ![r.by].ended = TRUE]
            /\ UNCHANGED <<sessionSide, poolEvents, closeSide>>
      BY <1>2 DEF PoolRemove
    <2>2. r.by \in Registration
      BY DEF PoolTypeOK
    <2>3. PoolTypeOK'
      <3>1. ForwardersTyped(forwarder')
        <4>1. ForwardersTyped(forwarder)
          BY DEF PoolTypeOK, ForwardersTyped
        <4> DEFINE s0 == forwarder[r.by].session
                   p0 == forwarder[r.by].pc
        <4>2. forwarder' = [forwarder EXCEPT ![r.by] = [session |-> s0, pc |-> p0, ended |-> TRUE]]
          BY <2>1, <2>2, <4>1, ForwarderEnds, Zenon
        <4>3. s0 \in PoolSession \cup {"none"} /\ p0 \in {"unused", "receives", "sends", "done"}
              /\ (p0 # "unused" => s0 \in PoolSession)
          BY <2>2, <4>1, ForwarderHas, Zenon
        <4> HIDE DEF s0, p0
        <4>4. ForwardersTyped([forwarder EXCEPT ![r.by] = [session |-> s0, pc |-> p0, ended |-> TRUE]])
          BY <2>2, <4>1, <4>3, ForwarderChanges
        <4> QED
          BY <4>2, <4>4, Zenon
      <3> QED
        BY <2>1, <3>1 DEF PoolTypeOK, ForwardersTyped
    <2>4. \A i \in Registration : forwarder'[i].pc = forwarder[i].pc
      BY <2>1, <2>2 DEF PoolTypeOK
    <2>5. ClosesInOrder' /\ ClosedAfterForwarders'
      BY <2>1, <2>4 DEF ClosesInOrder, ClosedAfterForwarders, Alive
    <2> QED
      BY <2>3, <2>5
  <1> QED
    BY <1>1, <1>2

\* A forwarder only moves while it is alive, and it never comes back.
LEMMA ForwardStep ==
  ASSUME PoolInv, NEW i \in Registration,
         ForwardReceives(i) \/ ForwardSends(i) \/ ForwardReturns(i)
  PROVE  PoolInv'
  <1> USE DEF PoolInv, closeSide, sessionSide
  <1>1. Alive(i)
    BY DEF ForwardReceives, ForwardSends, ForwardReturns, LearnsCancel, SessionIsOver, Alive
  <1>2. ~channelClosed /\ UNCHANGED <<poolClosed, channelClosed, closer>>
    BY <1>1 DEF ClosedAfterForwarders, ForwardReceives, ForwardSends, ForwardReturns
  <1>3. ClosesInOrder' /\ ClosedAfterForwarders'
    BY <1>2 DEF ClosesInOrder, ClosedAfterForwarders
  <1>4. forwarder[i].session \in PoolSession
    BY <1>1 DEF Alive, PoolTypeOK
  <1>5. PoolTypeOK'
    <2>1. ForwardersTyped(forwarder)
      BY DEF PoolTypeOK, ForwardersTyped
    <2>2. ForwardersTyped(forwarder')
      <3>1. PICK p \in {"receives", "sends", "done"} : forwarder' = [forwarder EXCEPT ![i].pc = p]
        BY DEF ForwardReceives, ForwardSends, ForwardReturns
      <3> DEFINE s0 == forwarder[i].session
                 e0 == forwarder[i].ended
      <3>2. forwarder' = [forwarder EXCEPT ![i] = [session |-> s0, pc |-> p, ended |-> e0]]
        BY <3>1, <2>1, ForwarderMoves, Zenon
      <3>3. s0 \in PoolSession /\ e0 \in BOOLEAN
        BY <1>4, <2>1, ForwarderHas, Zenon
      <3> HIDE DEF s0, e0
      <3>4. ForwardersTyped([forwarder EXCEPT ![i] = [session |-> s0, pc |-> p, ended |-> e0]])
        BY <2>1, <3>3, ForwarderChanges
      <3> QED
        BY <3>2, <3>4, Zenon
    <2>3. CASE ForwardReceives(i)
      <3>1. inSession' \in [PoolSession -> 0..SessionCap]
        BY <2>3, <1>4 DEF ForwardReceives, PoolTypeOK
      <3> QED
        BY <2>2, <2>3, <3>1 DEF ForwardReceives, PoolTypeOK, ForwardersTyped
    <2>4. CASE ForwardSends(i)
      <3>1. poolEvents' \in Seq(PoolSession) /\ Len(poolEvents') <= PoolCap
        BY <2>4, <1>4, AppendOne DEF ForwardSends, PoolTypeOK
      <3> QED
        BY <2>2, <2>4, <3>1 DEF ForwardSends, PoolTypeOK, ForwardersTyped
    <2>5. CASE ForwardReturns(i)
      BY <2>2, <2>5 DEF ForwardReturns, PoolTypeOK, ForwardersTyped
    <2> QED
      BY <2>3, <2>4, <2>5
  <1> QED
    BY <1>3, <1>5

LEMMA ReceiveStep ==
  ASSUME PoolInv, PoolReceive
  PROVE  PoolInv'
  <1> USE DEF PoolInv, closeSide, sessionSide
  <1>1. poolEvents' \in Seq(PoolSession) /\ Len(poolEvents') <= PoolCap
    BY TailOfSome DEF PoolReceive, PoolTypeOK
  <1>2. PoolTypeOK'
    BY <1>1 DEF PoolReceive, PoolTypeOK
  <1>3. ClosesInOrder' /\ ClosedAfterForwarders'
    BY DEF PoolReceive, ClosesInOrder, ClosedAfterForwarders, Alive
  <1> QED
    BY <1>2, <1>3

\* Close: nobody closes the channel before the last forwarder is gone, and whoever
\* begins to close is the only one.
LEMMA CloseStep ==
  ASSUME PoolInv,
         CloseAllSnapshot \/ (\E byAll \in BOOLEAN : CloseBegins(byAll)) \/ CloseCancels \/ CloseEnds
  PROVE  PoolInv'
  <1> USE DEF PoolInv, closeSide, sessionSide
  <1>1. CASE CloseAllSnapshot
    <2>1. PoolTypeOK'
      BY <1>1 DEF CloseAllSnapshot, PoolTypeOK
    <2> QED
      BY <1>1, <2>1 DEF CloseAllSnapshot, ClosesInOrder, ClosedAfterForwarders, Alive
  <1>2. CASE \E byAll \in BOOLEAN : CloseBegins(byAll)
    <2>1. PICK byAll \in BOOLEAN : CloseBegins(byAll)
      BY <1>2
    <2>2. PoolTypeOK'
      BY <2>1 DEF CloseBegins, PoolTypeOK
    <2>3. ClosesInOrder'
      BY <2>1 DEF CloseBegins, ClosesInOrder
    <2>4. ClosedAfterForwarders'
      BY <2>1 DEF CloseBegins, ClosedAfterForwarders, Alive
    <2> QED
      BY <2>2, <2>3, <2>4
  <1>3. CASE CloseCancels
    <2>1. PoolTypeOK'
      BY <1>3 DEF CloseCancels, PoolTypeOK
    <2> QED
      BY <1>3, <2>1 DEF CloseCancels, ClosesInOrder, ClosedAfterForwarders, Alive
  <1>4. CASE CloseEnds
    <2>1. PoolTypeOK'
      BY <1>4 DEF CloseEnds, PoolTypeOK
    <2> QED
      BY <1>4, <2>1 DEF CloseEnds, ClosesInOrder, ClosedAfterForwarders, Alive
  <1> QED
    BY <1>1, <1>2, <1>3, <1>4

LEMMA PoolStep == PoolInv /\ [PoolNext]_poolVars => PoolInv'
  <1> SUFFICES ASSUME PoolInv, [PoolNext]_poolVars PROVE PoolInv'
    OBVIOUS
  <1>1. CASE UNCHANGED poolVars
    BY <1>1 DEF poolVars, sessionSide, closeSide, PoolInv, PoolTypeOK, ClosesInOrder,
                ClosedAfterForwarders, Alive
  <1>2. CASE PoolNext
    BY <1>2, SessionStep, RegistrationStep, ForwardStep, ReceiveStep, CloseStep DEF PoolNext
  <1> QED
    BY <1>1, <1>2

LEMMA PoolInvariant == PoolSpec => []PoolInv
  BY PoolInitInv, PoolStep, PTL DEF PoolSpec

-----------------------------------------------------------------------------
\* The state of the pool is well typed: its channel and those of its sessions stay
\* within their capacities, and every forwarder in use has a session (NewPool, Add).
THEOREM PoolTypes == PoolSpec => []PoolTypeOK
  BY PoolInvariant, PTL DEF PoolInv

\* No forwarder is left when the pool's channel is closed, so none sends on a closed
\* channel, for any sessions added and removed in any order (pool.go: Add, Close).
THEOREM PoolClosedAfterForwarders == PoolSpec => []ClosedAfterForwarders
  BY PoolInvariant, PTL DEF PoolInv

HIDE PoolAssumption DEF Registration

-----------------------------------------------------------------------------
(* OneShot: events in the channels of a run *)

In(seq, e) == \E i \in 1..Len(seq) : seq[i] = e

LEMMA InEmpty == ASSUME NEW e PROVE ~In(<< >>, e)
BY DEF In

LEMMA InAppend ==
  ASSUME NEW seq \in Seq(RunEvent), NEW x \in RunEvent
  PROVE  \A e : In(Append(seq, x), e) <=> In(seq, e) \/ e = x
<1> DEFINE t == Append(seq, x)  n == Len(seq)
<1>1. n \in Nat /\ Len(t) = n + 1 /\ t[n + 1] = x /\ \A i \in 1..n : t[i] = seq[i]
  OBVIOUS
<1> HIDE DEF t
<1>2. \A i \in 1..(n + 1) : i = n + 1 \/ i \in 1..n
  BY <1>1
<1>3. n + 1 \in 1..(n + 1) /\ \A i \in 1..n : i \in 1..(n + 1)
  BY <1>1
<1> HIDE DEF n
<1> QED
  BY <1>1, <1>2, <1>3 DEF In, n, t

LEMMA InTail ==
  ASSUME NEW seq \in Seq(RunEvent), seq # << >>
  PROVE  \A e : In(seq, e) <=> e = Head(seq) \/ In(Tail(seq), e)
<1> DEFINE t == Tail(seq)  n == Len(seq)
<1>1. /\ n \in Nat /\ n > 0 /\ Len(t) = n - 1 /\ Head(seq) = seq[1]
      /\ \A i \in 1..(n - 1) : t[i] = seq[i + 1]
  OBVIOUS
<1> HIDE DEF t
<1>2. /\ 1 \in 1..n
      /\ \A i \in 1..n : i = 1 \/ (i - 1 \in 1..(n - 1) /\ (i - 1) + 1 = i)
      /\ \A i \in 1..(n - 1) : i + 1 \in 1..n
  BY <1>1
<1> HIDE DEF n
<1>3. ASSUME NEW i \in 1..n  PROVE seq[i] = Head(seq) \/ \E j \in 1..(n - 1) : t[j] = seq[i]
  BY <1>1, <1>2
<1>4. ASSUME NEW j \in 1..(n - 1)  PROVE \E i \in 1..n : seq[i] = t[j]
  BY <1>1, <1>2
<1>5. \A e : In(seq, e) => e = Head(seq) \/ In(t, e)
  BY <1>1, <1>3 DEF In, n
<1>6. \A e : e = Head(seq) \/ In(t, e) => In(seq, e)
  BY <1>1, <1>2, <1>4 DEF In, n
<1> QED
  BY <1>5, <1>6 DEF t

\* The first final line of those that were not read.
NoFinal(ls) == \A i \in 1..Len(ls) : ls[i] \notin FinalLine
FirstIs(ls, line) ==
  \E i \in 1..Len(ls) : ls[i] = line /\ \A j \in 1..Len(ls) : j < i => ls[j] \notin FinalLine

LEMMA FinalAppend ==
  ASSUME NEW ls \in Seq(RunLine), NEW x \in RunLine
  PROVE  /\ NoFinal(ls) /\ x \in FinalLine => FirstIs(Append(ls, x), x)
         /\ NoFinal(ls) /\ x \notin FinalLine => NoFinal(Append(ls, x))
         /\ \A line : FirstIs(ls, line) => FirstIs(Append(ls, x), line)
<1> DEFINE t == Append(ls, x)  n == Len(ls)
<1>1. n \in Nat /\ Len(t) = n + 1 /\ t[n + 1] = x /\ \A i \in 1..n : t[i] = ls[i]
  OBVIOUS
<1> HIDE DEF t
<1>2. NoFinal(ls) /\ x \in FinalLine => FirstIs(t, x)
  <2>1. \A j \in 1..(n + 1) : j < n + 1 => j \in 1..n
    BY <1>1
  <2>2. n + 1 \in 1..(n + 1)
    BY <1>1
  <2> QED
    BY <1>1, <2>1, <2>2 DEF NoFinal, FirstIs
<1>3. NoFinal(ls) /\ x \notin FinalLine => NoFinal(t)
  <2>1. \A j \in 1..(n + 1) : j = n + 1 \/ j \in 1..n
    BY <1>1
  <2> QED
    BY <1>1, <2>1 DEF NoFinal
<1>4. ASSUME NEW line, FirstIs(ls, line)  PROVE FirstIs(t, line)
  <2>1. PICK i \in 1..n : ls[i] = line /\ \A j \in 1..n : j < i => ls[j] \notin FinalLine
    BY <1>4 DEF FirstIs
  <2>2. i \in 1..(n + 1) /\ \A j \in 1..(n + 1) : j < i => j \in 1..n
    BY <1>1
  <2> QED
    BY <1>1, <2>1, <2>2 DEF FirstIs
<1> QED
  BY <1>2, <1>3, <1>4 DEF t

LEMMA FinalTail ==
  ASSUME NEW ls \in Seq(RunLine), ls # << >>
  PROVE  /\ NoFinal(ls) => Head(ls) \notin FinalLine /\ NoFinal(Tail(ls))
         /\ \A line \in FinalLine : FirstIs(ls, line) =>
              IF Head(ls) \in FinalLine THEN Head(ls) = line ELSE FirstIs(Tail(ls), line)
<1> DEFINE t == Tail(ls)  n == Len(ls)
<1>1. /\ n \in Nat /\ n > 0 /\ Len(t) = n - 1 /\ Head(ls) = ls[1]
      /\ \A i \in 1..(n - 1) : t[i] = ls[i + 1]
  OBVIOUS
<1> HIDE DEF t
<1>2. 1 \in 1..n /\ \A i \in 1..(n - 1) : i + 1 \in 1..n
  BY <1>1
<1>3. NoFinal(ls) => Head(ls) \notin FinalLine /\ NoFinal(t)
  BY <1>1, <1>2 DEF NoFinal
<1>4. ASSUME NEW line \in FinalLine, FirstIs(ls, line)
      PROVE  IF Head(ls) \in FinalLine THEN Head(ls) = line ELSE FirstIs(t, line)
  <2>1. PICK i \in 1..n : ls[i] = line /\ \A j \in 1..n : j < i => ls[j] \notin FinalLine
    BY <1>4 DEF FirstIs
  <2>2. CASE i = 1
    BY <1>1, <2>1, <2>2
  <2>3. CASE i > 1
    <3>1. Head(ls) \notin FinalLine
      BY <1>1, <1>2, <2>1, <2>3
    <3>2. i - 1 \in 1..(n - 1) /\ (i - 1) + 1 = i
      BY <1>1, <2>3
    <3>3. t[i - 1] = line
      BY <1>1, <2>1, <3>2
    <3>4. ASSUME NEW j \in 1..(n - 1), j < i - 1  PROVE t[j] \notin FinalLine
      <4>1. j + 1 \in 1..n /\ j + 1 < i
        BY <1>1, <3>4
      <4> QED
        BY <1>1, <2>1, <4>1
    <3> QED
      BY <1>1, <3>1, <3>2, <3>3, <3>4 DEF FirstIs
  <2> QED
    BY <1>1, <2>2, <2>3
<1> QED
  BY <1>3, <1>4 DEF t
-----------------------------------------------------------------------------
(* OneShot: the way of the final line, from stdout to what Wait returns    *)

Answer == {"answer", "maxturns"}
ParsedEvent == {"init", "text", "alien", "error", "note", "answer", "maxturns", "api"}
Message == {"stderr", "ctx", "stdoutError", "result", "unknownEvent", "empty"}

RunTypes ==
  /\ stdout \in Seq(RunLine)
  /\ process \in {"none", "runs", "failed", "zero", "nonzero", "ctx"}
  /\ ending \in FinalLine \cup {"none"}
  /\ parser \in {"scan", "done"}
  /\ emitting \in Seq(ParsedEvent) /\ parsed \in Seq(ParsedEvent)
  /\ emitting \in Seq(RunEvent) /\ parsed \in Seq(RunEvent) /\ events \in Seq(RunEvent)
  /\ stream \in [state : {"starting", "running", "done", "failed"},
                 result : RunResult \cup {"none"},
                 err : FatalEvent \cup Message \cup {"none", "maxturns"}]

\* A CLI that was not started has not done anything.
BeforeStart ==
  /\ process = "none" <=> runner = "idle"
  /\ process \in {"none", "failed"} =>
       /\ ending = "none" /\ parser = "scan" /\ warning = "none" /\ seen = {}
       /\ stdout = << >> /\ emitting = << >> /\ parsed = << >>
  /\ runner = "failing" => process = "failed"
  /\ process = "failed" => runner \in {"failing", "closed"}

\* After the last event there is nothing that could add another.
AfterFinish ==
  runner = "closed" /\ process # "failed" =>
    parser = "done" /\ emitting = << >> /\ parsed = << >> /\ stderrPc = "done" /\ Exited

\* The parser has not got past the first final line; or it stopped there, or at EOF.
ReadInOrder ==
  /\ parser = "scan" => IF ending = "none" THEN NoFinal(stdout) ELSE FirstIs(stdout, ending)
  /\ parser = "done" /\ ending = "none" /\ ~runCtxEnded => Exited

\* No answer but the final one is on its way to the stream or has reached it ...
Parsed(e) == In(emitting, e) \/ In(parsed, e)
AnswerIsEnding ==
  \A e \in Answer : Parsed(e) \/ In(events, e) \/ stream.result = e => e = ending /\ parser = "done"

\* ... and the final one is not lost.
Told(e) == (e \in Answer => stream.result = e) /\ (e \in {"maxturns", "api"} => stream.err # "none")
EndingIsKept ==
  ~runCtxEnded /\ parser = "done" /\ ending \in {"answer", "maxturns", "api"} =>
    \/ Parsed(ending)
    \/ /\ ending \in Answer => "result" \in seen
       /\ In(events, ending) \/ Told(ending)

\* A result is made up last, and only where there is none.
MadeUpAlone ==
  In(events, "synthesized") \/ stream.result = "synthesized" =>
    runner = "closed" /\ "result" \notin seen

ExitIsTold ==
  ~runCtxEnded /\ runner = "closed" /\ process # "zero" =>
    In(events, "exit") \/ In(events, "nostart") \/ stream.err # "none"

ResultIsTold ==
  ~runCtxEnded /\ ("result" \in seen \/ (runner = "closed" /\ process = "zero")) =>
    (\E e \in RunResult : In(events, e)) \/ stream.result # "none"

\* Without the end of the context every event is tracked.
AllTracked ==
  ~runCtxEnded =>
    interposer # "drains" /\ (interposer = "closed" => events = << >> /\ runner = "closed")

OutcomeHolds ==
  ~outcome.cut =>
    /\ runner = "closed"
    /\ ending \in Answer => outcome.result = ending
    /\ ending \in {"maxturns", "api"} => outcome.err # "none"
    /\ process # "zero" => outcome.err # "none"
    /\ outcome.result # "none" \/ outcome.err # "none"

RunInv ==
  /\ RunTypes /\ BeforeStart /\ AfterFinish /\ ReadInOrder /\ AnswerIsEnding /\ EndingIsKept
  /\ MadeUpAlone /\ ExitIsTold /\ ResultIsTold /\ AllTracked /\ OutcomeHolds

LEMMA RunInitially == RunInit => RunInv
<1> SUFFICES ASSUME RunInit  PROVE RunInv
  OBVIOUS
<1> USE DEF RunInit
<1>1. \A e : ~In(<< >>, e)
  BY InEmpty
<1>2. RunTypes
  BY DEF RunTypes
<1>3. NoFinal(<< >>)
  BY DEF NoFinal
<1>4. BeforeStart /\ AfterFinish
  BY DEF BeforeStart, AfterFinish
<1>5. ReadInOrder
  BY <1>3 DEF ReadInOrder
<1>6. AnswerIsEnding /\ EndingIsKept /\ MadeUpAlone /\ ExitIsTold /\ ResultIsTold
  BY <1>1 DEF AnswerIsEnding, EndingIsKept, MadeUpAlone, ExitIsTold, ResultIsTold, Parsed, Answer
<1>7. AllTracked /\ OutcomeHolds
  BY DEF AllTracked, OutcomeHolds, NoOutcome
<1> QED
  BY <1>2, <1>4, <1>5, <1>6, <1>7 DEF RunInv

\* Steps that leave alone what the invariant is about.
LEMMA QuietSafe ==
  ASSUME RunInv,
         UNCHANGED <<stdout, process, ending, parser, emitting, parsed, seen, events, runner>>,
         UNCHANGED <<interposer, stream, runCtxEnded, outcome>>,
         stderrPc' = stderrPc \/ stderrPc' = "done",
         process \in {"none", "failed"} => warning' = "none"
  PROVE  RunInv'
BY DEF RunInv, RunTypes, BeforeStart, AfterFinish, Exited, ReadInOrder, AnswerIsEnding, EndingIsKept,
   MadeUpAlone, ExitIsTold, ResultIsTold, AllTracked, OutcomeHolds, Parsed, Told

LEMMA StartRunSafe ==
  ASSUME RunInv, StartRun  PROVE RunInv'
<1> USE DEF RunInv
<1>1. PICK p \in {"runs", "failed"} :
         process' = p /\ runner' = (IF p = "runs" THEN "parse" ELSE "failing")
  BY DEF StartRun
<1>2. /\ runner = "idle" /\ process = "none" /\ events' = <<"start">>
      /\ UNCHANGED <<stdout, ending, warning, parser, emitting, parsed, seen, stderrPc>>
      /\ UNCHANGED <<interposer, stream, runCtxEnded, outcome>>
  BY DEF StartRun, BeforeStart, parseSide, streamSide, callSide
<1>3. \A e : In(events', e) => e = "start"
  BY <1>2 DEF In
<1>4. events' \in Seq(RunEvent)
  BY <1>2 DEF RunEvent
<1>5. ending = "none" /\ parser = "scan" /\ seen = {}
  BY <1>2 DEF BeforeStart
<1>6. RunTypes' /\ BeforeStart' /\ AfterFinish' /\ ReadInOrder'
  BY <1>1, <1>2, <1>4, <1>5 DEF RunTypes, BeforeStart, AfterFinish, ReadInOrder
<1>7. AnswerIsEnding' /\ EndingIsKept' /\ MadeUpAlone'
  BY <1>1, <1>2, <1>3, <1>5 DEF AnswerIsEnding, EndingIsKept, MadeUpAlone, Parsed, Answer
<1>8. ExitIsTold' /\ ResultIsTold' /\ AllTracked' /\ OutcomeHolds'
  BY <1>1, <1>2, <1>5 DEF ExitIsTold, ResultIsTold, AllTracked, OutcomeHolds
<1> QED
  BY <1>6, <1>7, <1>8

LEMMA CLIWritesSafe ==
  ASSUME RunInv, CLIWrites  PROVE RunInv'
<1> USE DEF RunInv
<1>1. PICK line \in RunLine :
         /\ stdout' = Append(stdout, line)
         /\ ending' = IF ending = "none" /\ line \in FinalLine THEN line ELSE ending
  BY OneShotAssumption DEF CLIWrites, OneShotAssumption
<1>2. /\ process = "runs"
      /\ UNCHANGED <<process, warning, parser, emitting, parsed, seen, stderrPc, events, runner>>
      /\ UNCHANGED <<interposer, stream, runCtxEnded, outcome>>
  BY DEF CLIWrites, parseSide, readSide, streamSide, callSide
<1>3. RunTypes' /\ BeforeStart' /\ AfterFinish'
  BY <1>1, <1>2 DEF RunTypes, BeforeStart, AfterFinish, Exited, FinalLine
<1>4. ReadInOrder'
  BY <1>1, <1>2, FinalAppend DEF RunTypes, ReadInOrder, Exited, FinalLine
<1>5. AnswerIsEnding'
  BY <1>1, <1>2 DEF AnswerIsEnding, Parsed, Answer
<1>6. EndingIsKept'
  BY <1>1, <1>2 DEF EndingIsKept, ReadInOrder, Exited, Parsed, Told
<1>7. MadeUpAlone' /\ ExitIsTold' /\ ResultIsTold' /\ AllTracked'
  BY <1>2 DEF MadeUpAlone, ExitIsTold, ResultIsTold, AllTracked
<1>8. OutcomeHolds'
  BY <1>2 DEF OutcomeHolds, AfterFinish, Exited
<1> QED
  BY <1>3, <1>4, <1>5, <1>6, <1>7, <1>8

LEMMA CLIExitsSafe ==
  ASSUME RunInv, CLIExits  PROVE RunInv'
<1> USE DEF RunInv
<1>1. /\ process = "runs" /\ process' \in {"zero", "nonzero", "ctx"}
      /\ UNCHANGED <<stdout, ending, warning, parser, emitting, parsed, seen, stderrPc, events, runner>>
      /\ UNCHANGED <<interposer, stream, runCtxEnded, outcome>>
  BY DEF CLIExits, parseSide, readSide, streamSide, callSide
<1>2. runner # "closed"
  BY <1>1 DEF AfterFinish, Exited
<1>3. RunTypes' /\ BeforeStart' /\ AfterFinish' /\ ReadInOrder'
  BY <1>1, <1>2 DEF RunTypes, BeforeStart, AfterFinish, Exited, ReadInOrder
<1>4. AnswerIsEnding' /\ EndingIsKept' /\ MadeUpAlone' /\ AllTracked'
  BY <1>1 DEF AnswerIsEnding, EndingIsKept, MadeUpAlone, AllTracked, Parsed, Told
<1>5. ExitIsTold' /\ ResultIsTold' /\ OutcomeHolds'
  BY <1>1, <1>2 DEF ExitIsTold, ResultIsTold, OutcomeHolds
<1> QED
  BY <1>3, <1>4, <1>5

-----------------------------------------------------------------------------
(* OneShot: the parser and the collector                                   *)

LEMMA InOne == ASSUME NEW x  PROVE \A e : In(<<x>>, e) <=> e = x
<1>1. Len(<<x>>) = 1 /\ <<x>>[1] = x /\ \A i : i \in 1..1 <=> i = 1
  OBVIOUS
<1> QED
  BY <1>1 DEF In

LEMMA InTwo == ASSUME NEW x, NEW y  PROVE \A e : In(<<x, y>>, e) <=> e = x \/ e = y
<1>1. /\ Len(<<x, y>>) = 2 /\ <<x, y>>[1] = x /\ <<x, y>>[2] = y
      /\ \A i : i \in 1..2 <=> i = 1 \/ i = 2
  OBVIOUS
<1> QED
  BY <1>1 DEF In

LEMMA EmittedEvents ==
  ASSUME NEW line \in RunLine
  PROVE  /\ Emitted(line) \in Seq(ParsedEvent) /\ Emitted(line) \in Seq(RunEvent)
         /\ Emitted(line) # << >>
         /\ \A e \in Answer : In(Emitted(line), e) => e = line
         /\ line \in {"answer", "maxturns", "api"} => In(Emitted(line), line)
<1>1. CASE line \in {"sub", "long"}
  <2>1. Emitted(line) = <<"error">>
    BY <1>1 DEF Emitted
  <2> QED
    BY <1>1, <2>1, InOne DEF Answer, ParsedEvent, RunEvent
<1>2. CASE line = "maxturns"
  <2>1. Emitted(line) = <<"error", "maxturns">>
    BY <1>2 DEF Emitted
  <2>2. {"error", "maxturns"} \subseteq ParsedEvent /\ {"error", "maxturns"} \subseteq RunEvent
    BY DEF ParsedEvent, RunEvent, RunResult
  <2>3. Emitted(line) \in Seq(ParsedEvent) /\ Emitted(line) \in Seq(RunEvent) /\ Emitted(line) # << >>
    BY <2>1, <2>2
  <2>4. \A e : In(Emitted(line), e) <=> e = "error" \/ e = "maxturns"
    BY <2>1, InTwo
  <2>5. "error" \notin Answer
    BY DEF Answer
  <2> QED
    BY <1>2, <2>3, <2>4, <2>5
<1>3. CASE line \notin {"sub", "long", "maxturns"}
  <2>1. Emitted(line) = <<line>>
    BY <1>3 DEF Emitted
  <2>2. line \in ParsedEvent /\ line \in RunEvent
    BY <1>3 DEF RunLine, ParsedEvent, RunEvent, RunResult, FatalEvent
  <2> QED
    BY <2>1, <2>2, InOne
<1> QED
  BY <1>1, <1>2, <1>3

LEMMA ScanLineSafe ==
  ASSUME RunInv, ScanLine  PROVE RunInv'
<1> USE DEF RunInv
<1>1. /\ parser = "scan" /\ emitting = << >> /\ stdout # << >> /\ stdout' = Tail(stdout)
      /\ UNCHANGED <<process, ending, warning, parsed, seen, stderrPc, events, runner>>
      /\ UNCHANGED <<interposer, stream, runCtxEnded, outcome>>
  BY DEF ScanLine, readSide, streamSide, callSide
<1> DEFINE line == Head(stdout)
<1>2. stdout \in Seq(RunLine)
  BY DEF RunTypes
<1>3. line \in RunLine /\ stdout' \in Seq(RunLine)
  BY <1>1, <1>2
<1>4. /\ line \in FinalLine => line = ending
      /\ line \notin FinalLine =>
           IF ending = "none" THEN NoFinal(stdout') ELSE FirstIs(stdout', ending)
  BY <1>1, <1>2, FinalTail DEF ReadInOrder, RunTypes
<1>5. CASE runCtxEnded
  <2>1. parser' = "done" /\ emitting' = emitting
    BY <1>5 DEF ScanLine
  <2>2. RunTypes' /\ BeforeStart' /\ AfterFinish'
    BY <1>1, <1>3, <2>1 DEF RunTypes, BeforeStart, AfterFinish, Exited
  <2>3. ReadInOrder' /\ AnswerIsEnding' /\ EndingIsKept' /\ MadeUpAlone'
    BY <1>1, <1>5, <2>1
    DEF ReadInOrder, AnswerIsEnding, EndingIsKept, MadeUpAlone, Parsed
  <2>4. ExitIsTold' /\ ResultIsTold' /\ AllTracked' /\ OutcomeHolds'
    BY <1>1 DEF ExitIsTold, ResultIsTold, AllTracked, OutcomeHolds
  <2> QED
    BY <2>2, <2>3, <2>4
<1>6. CASE ~runCtxEnded
  <2>1. emitting' = Emitted(line) /\ parser' = IF line \in FinalLine THEN "done" ELSE "scan"
    BY <1>6 DEF ScanLine, EndsStream
  <2> HIDE DEF line
  <2>2. /\ emitting' \in Seq(ParsedEvent) /\ emitting' \in Seq(RunEvent)
        /\ \A e \in Answer : In(emitting', e) => e = line
        /\ line \in {"answer", "maxturns", "api"} => In(emitting', line)
    BY <1>3, <2>1, EmittedEvents
  <2>3. \A e \in Answer : e \in FinalLine
    BY DEF Answer, FinalLine
  <2>4. process \notin {"none", "failed"}
    BY <1>1 DEF BeforeStart
  <2>5. RunTypes' /\ BeforeStart' /\ AfterFinish'
    BY <1>1, <1>3, <2>1, <2>2, <2>4 DEF RunTypes, BeforeStart, AfterFinish, Exited
  <2>6. ReadInOrder'
    BY <1>1, <1>4, <2>1 DEF ReadInOrder, FinalLine
  <2>7. AnswerIsEnding'
    BY <1>1, <1>4, <2>1, <2>2, <2>3 DEF AnswerIsEnding, Parsed
  <2>8. EndingIsKept'
    BY <1>1, <1>4, <2>1, <2>2 DEF EndingIsKept, Parsed
  <2>9. MadeUpAlone' /\ ExitIsTold' /\ ResultIsTold' /\ AllTracked' /\ OutcomeHolds'
    BY <1>1 DEF MadeUpAlone, ExitIsTold, ResultIsTold, AllTracked, OutcomeHolds
  <2> QED
    BY <2>5, <2>6, <2>7, <2>8, <2>9
<1> QED
  BY <1>5, <1>6

LEMMA ScanEOFSafe ==
  ASSUME RunInv, ScanEOF  PROVE RunInv'
<1> USE DEF RunInv
<1>1. /\ parser = "scan" /\ emitting = << >> /\ stdout = << >> /\ Exited /\ parser' = "done"
      /\ UNCHANGED <<stdout, process, ending, warning, emitting, parsed, seen, stderrPc, events>>
      /\ UNCHANGED <<runner, interposer, stream, runCtxEnded, outcome>>
  BY DEF ScanEOF, cliSide, readSide, streamSide, callSide
<1>2. ending = "none"
  <2>1. ~FirstIs(<< >>, ending)
    BY DEF FirstIs
  <2> QED
    BY <1>1, <2>1 DEF ReadInOrder
<1>3. RunTypes' /\ BeforeStart' /\ AfterFinish' /\ ReadInOrder'
  BY <1>1 DEF RunTypes, BeforeStart, AfterFinish, Exited, ReadInOrder
<1>4. AnswerIsEnding' /\ EndingIsKept' /\ MadeUpAlone'
  BY <1>1, <1>2 DEF AnswerIsEnding, EndingIsKept, MadeUpAlone, Parsed
<1>5. ExitIsTold' /\ ResultIsTold' /\ AllTracked' /\ OutcomeHolds'
  BY <1>1 DEF ExitIsTold, ResultIsTold, AllTracked, OutcomeHolds
<1> QED
  BY <1>3, <1>4, <1>5

\* Handing on keeps what is on its way.
LEMMA HeadOfSome ==
  ASSUME NEW S, NEW seq \in Seq(S), seq # << >>
  PROVE  Head(seq) \in S /\ Tail(seq) \in Seq(S)
  OBVIOUS

LEMMA AppendedTo ==
  ASSUME NEW S, NEW seq \in Seq(S), NEW x \in S  PROVE Append(seq, x) \in Seq(S)
  OBVIOUS

LEMMA EmitSafe ==
  ASSUME RunInv, Emit  PROVE RunInv'
<1> USE DEF RunInv
<1> DEFINE x == Head(emitting)
<1>1. /\ emitting # << >> /\ parsed' = Append(parsed, x) /\ emitting' = Tail(emitting)
      /\ UNCHANGED <<stdout, process, ending, warning, parser, seen, stderrPc, events, runner>>
      /\ UNCHANGED <<interposer, stream, runCtxEnded, outcome>>
  BY DEF Emit, cliSide, readSide, streamSide, callSide
<1>2. /\ emitting \in Seq(ParsedEvent) /\ parsed \in Seq(ParsedEvent)
      /\ emitting \in Seq(RunEvent) /\ parsed \in Seq(RunEvent)
  BY DEF RunTypes
<1>3. /\ x \in ParsedEvent /\ emitting' \in Seq(ParsedEvent)
      /\ x \in RunEvent /\ emitting' \in Seq(RunEvent)
  BY <1>1, <1>2, HeadOfSome
<1>4. parsed' \in Seq(ParsedEvent) /\ parsed' \in Seq(RunEvent)
  BY <1>1, <1>2, <1>3, AppendedTo
<1>5. \A e : In(emitting, e) <=> e = x \/ In(emitting', e)
  BY <1>1, <1>2, InTail
<1>6. \A e : In(parsed', e) <=> In(parsed, e) \/ e = x
  BY <1>1, <1>2, <1>3, InAppend
<1> HIDE DEF x
<1>7. \A e : In(emitting, e) \/ In(parsed, e) <=> In(emitting', e) \/ In(parsed', e)
  BY <1>5, <1>6
<1>8. RunTypes'
  BY <1>1, <1>3, <1>4 DEF RunTypes
<1>9. BeforeStart' /\ AfterFinish' /\ ReadInOrder'
  BY <1>1 DEF BeforeStart, AfterFinish, Exited, ReadInOrder
<1>10. AnswerIsEnding' /\ EndingIsKept'
  BY <1>1, <1>7 DEF AnswerIsEnding, EndingIsKept, Parsed, Told
<1>11. MadeUpAlone' /\ ExitIsTold' /\ ResultIsTold' /\ AllTracked' /\ OutcomeHolds'
  BY <1>1 DEF MadeUpAlone, ExitIsTold, ResultIsTold, AllTracked, OutcomeHolds
<1> QED
  BY <1>8, <1>9, <1>10, <1>11

LEMMA CollectSafe ==
  ASSUME RunInv, Collect  PROVE RunInv'
<1> USE DEF RunInv
<1> DEFINE x == Head(parsed)
<1>1. /\ parsed # << >> /\ parsed' = Tail(parsed) /\ events' = Append(events, x)
      /\ seen' = seen \cup Noted(x)
      /\ UNCHANGED <<stdout, process, ending, warning, parser, emitting, stderrPc, runner>>
      /\ UNCHANGED <<interposer, stream, runCtxEnded, outcome>>
  BY DEF Collect, cliSide, streamSide, callSide
<1>2. /\ parsed \in Seq(ParsedEvent) /\ parsed \in Seq(RunEvent) /\ events \in Seq(RunEvent)
  BY DEF RunTypes
<1>3. /\ x \in ParsedEvent /\ parsed' \in Seq(ParsedEvent)
      /\ x \in RunEvent /\ parsed' \in Seq(RunEvent)
  BY <1>1, <1>2, HeadOfSome
<1>4. events' \in Seq(RunEvent)
  BY <1>1, <1>2, <1>3, AppendedTo
<1>5. \A e : In(parsed, e) <=> e = x \/ In(parsed', e)
  BY <1>1, <1>2, InTail
<1>6. \A e : In(events', e) <=> In(events, e) \/ e = x
  BY <1>1, <1>2, <1>3, InAppend
<1> HIDE DEF x
<1>7. /\ "result" \in seen => "result" \in seen'
      /\ x \in RunResult => "result" \in seen'
      /\ x \notin RunResult => ("result" \in seen' <=> "result" \in seen)
  BY <1>1 DEF Noted
<1>8. x \notin {"synthesized"} /\ \A e \in Answer : e \in RunResult
  BY <1>3 DEF ParsedEvent, Answer, RunResult
<1>9. process \notin {"none", "failed"} /\ runner # "closed"
  BY <1>1 DEF BeforeStart, AfterFinish
<1>10. RunTypes'
  BY <1>1, <1>3, <1>4 DEF RunTypes
<1>11. BeforeStart' /\ AfterFinish' /\ ReadInOrder'
  BY <1>1, <1>9 DEF BeforeStart, AfterFinish, Exited, ReadInOrder
<1>12. AnswerIsEnding'
  BY <1>1, <1>5, <1>6 DEF AnswerIsEnding, Parsed
<1>13. EndingIsKept'
  BY <1>1, <1>5, <1>6, <1>7, <1>8 DEF EndingIsKept, Parsed, Told
<1>14. MadeUpAlone'
  BY <1>1, <1>6, <1>8, <1>9 DEF MadeUpAlone
<1>15. ResultIsTold'
  <2>1. x \in RunResult => \E e \in RunResult : In(events', e)
    BY <1>6
  <2> QED
    BY <1>1, <1>6, <1>7, <1>9, <2>1 DEF ResultIsTold
<1>16. ExitIsTold' /\ AllTracked' /\ OutcomeHolds'
  BY <1>1, <1>6, <1>9 DEF ExitIsTold, AllTracked, OutcomeHolds
<1> QED
  BY <1>10, <1>11, <1>12, <1>13, <1>14, <1>15, <1>16

-----------------------------------------------------------------------------
(* OneShot: stderr and the end of the run                                  *)

LEMMA ScanStderrSafe ==
  ASSUME RunInv, ScanStderr  PROVE RunInv'
<1> USE DEF RunInv
<1>1. /\ stderrPc = "scan" /\ warning = "written" /\ warning' = "read" /\ stderrPc' \in {"scan", "done"}
      /\ UNCHANGED <<stdout, process, ending, parser, emitting, parsed, seen, runner>>
      /\ UNCHANGED <<interposer, stream, runCtxEnded, outcome>>
  BY DEF ScanStderr, parseSide, streamSide, callSide
<1>2. process \notin {"none", "failed"} /\ runner # "closed"
  BY <1>1 DEF BeforeStart, AfterFinish
<1>3. \/ events' = events
      \/ \E event \in {"stderr", "panic"} : events' = Append(events, event)
  BY DEF ScanStderr
<1>4. events \in Seq(RunEvent) /\ {"stderr", "panic"} \subseteq RunEvent
  BY DEF RunTypes, RunEvent, FatalEvent
<1>5. /\ events' \in Seq(RunEvent)
      /\ \A e : In(events, e) => In(events', e)
      /\ \A e : In(events', e) => In(events, e) \/ e \in {"stderr", "panic"}
  <2>1. CASE events' = events
    BY <1>4, <2>1
  <2>2. ASSUME NEW event \in {"stderr", "panic"}, events' = Append(events, event)
        PROVE  /\ events' \in Seq(RunEvent)
               /\ \A e : In(events', e) <=> In(events, e) \/ e = event
    BY <1>4, <2>2, AppendedTo, InAppend
  <2> QED
    BY <1>3, <2>1, <2>2
<1>6. RunTypes' /\ BeforeStart' /\ AfterFinish' /\ ReadInOrder'
  BY <1>1, <1>2, <1>5 DEF RunTypes, BeforeStart, AfterFinish, Exited, ReadInOrder
<1>7. \A e \in Answer \cup {"synthesized"} : e \notin {"stderr", "panic"}
  BY DEF Answer
<1>8. AnswerIsEnding' /\ EndingIsKept' /\ MadeUpAlone'
  BY <1>1, <1>5, <1>7 DEF AnswerIsEnding, EndingIsKept, MadeUpAlone, Parsed, Told
<1>9. ExitIsTold' /\ ResultIsTold' /\ AllTracked' /\ OutcomeHolds'
  BY <1>1, <1>2, <1>5 DEF ExitIsTold, ResultIsTold, AllTracked, OutcomeHolds
<1> QED
  BY <1>6, <1>8, <1>9

\* What the last event is, the process being failed, exited with an error, or exited.
LEMMA LastEventIs ==
  /\ process = "failed" => LastEvent = <<"nostart">>
  /\ process \in {"nonzero", "ctx"} => LastEvent = <<"exit">>
  /\ process = "zero" /\ "result" \notin seen => LastEvent = <<"synthesized">>
  /\ process = "zero" /\ "result" \in seen => LastEvent = << >>
BY DEF LastEvent

LEMMA ConcatOne ==
  ASSUME NEW S, NEW seq \in Seq(S), NEW x \in S
  PROVE  seq \o <<x>> = Append(seq, x) /\ seq \o << >> = seq
  OBVIOUS

LEMMA FinishSafe ==
  ASSUME RunInv, Finish  PROVE RunInv'
<1> USE DEF RunInv
<1>1. /\ RunnerReady /\ events' = events \o LastEvent /\ runner' = "closed"
      /\ UNCHANGED <<stdout, process, ending, warning, parser, emitting, parsed, seen, stderrPc>>
      /\ UNCHANGED <<interposer, stream, runCtxEnded, outcome>>
  BY DEF Finish, cliSide, parseSide, streamSide, callSide
<1>2. runner \notin {"idle", "closed"} /\ process \in {"failed", "nonzero", "ctx", "zero"}
  BY <1>1 DEF RunnerReady, BeforeStart, Exited
<1>3. /\ events \in Seq(RunEvent) /\ {"nostart", "exit", "synthesized"} \subseteq RunEvent
      /\ "synthesized" \in RunResult
  BY DEF RunTypes, RunEvent, FatalEvent, RunResult
<1>4. /\ process = "failed" => events' = Append(events, "nostart")
      /\ process \in {"nonzero", "ctx"} => events' = Append(events, "exit")
      /\ process = "zero" /\ "result" \notin seen => events' = Append(events, "synthesized")
      /\ process = "zero" /\ "result" \in seen => events' = events
  BY <1>1, <1>3, LastEventIs, ConcatOne
<1>5. /\ events' \in Seq(RunEvent)
      /\ \A e : In(events, e) => In(events', e)
      /\ process = "failed" => In(events', "nostart")
      /\ process \in {"nonzero", "ctx"} => In(events', "exit")
      /\ process = "zero" /\ "result" \notin seen => In(events', "synthesized")
      /\ \A e : In(events', e) =>
           \/ In(events, e) \/ e \in {"nostart", "exit"}
           \/ (e = "synthesized" /\ process = "zero" /\ "result" \notin seen)
  <2>1. ASSUME NEW x \in {"nostart", "exit", "synthesized"}, events' = Append(events, x)
        PROVE  /\ events' \in Seq(RunEvent)
               /\ \A e : In(events', e) <=> In(events, e) \/ e = x
    BY <1>3, <2>1, AppendedTo, InAppend
  <2>2. CASE process = "failed"
    BY <1>4, <2>1, <2>2
  <2>3. CASE process \in {"nonzero", "ctx"}
    BY <1>4, <2>1, <2>3
  <2>4. CASE process = "zero" /\ "result" \notin seen
    BY <1>4, <2>1, <2>4
  <2>5. CASE process = "zero" /\ "result" \in seen
    BY <1>3, <1>4, <2>5
  <2> QED
    BY <1>2, <2>2, <2>3, <2>4, <2>5
<1>6. RunTypes'
  BY <1>1, <1>5 DEF RunTypes
<1>7. BeforeStart' /\ AfterFinish' /\ ReadInOrder'
  BY <1>1, <1>2 DEF BeforeStart, AfterFinish, Exited, ReadInOrder, RunnerReady
<1>8. \A e \in Answer : e \notin {"nostart", "exit", "synthesized"}
  BY DEF Answer
<1>9. AnswerIsEnding'
  BY <1>1, <1>5, <1>8 DEF AnswerIsEnding, Parsed
<1>10. EndingIsKept'
  BY <1>1, <1>5 DEF EndingIsKept, Parsed, Told
<1>11. MadeUpAlone'
  BY <1>1, <1>2, <1>5 DEF MadeUpAlone
<1>12. ExitIsTold' /\ AllTracked' /\ OutcomeHolds'
  BY <1>1, <1>2, <1>5 DEF ExitIsTold, AllTracked, OutcomeHolds
<1>13. ResultIsTold'
  <2>1. (\E e \in RunResult : In(events, e)) => \E e \in RunResult : In(events', e)
    BY <1>5
  <2>2. process = "zero" /\ "result" \notin seen => \E e \in RunResult : In(events', e)
    BY <1>3, <1>5
  <2> QED
    BY <1>1, <2>1, <2>2 DEF ResultIsTold
<1> QED
  BY <1>6, <1>7, <1>9, <1>10, <1>11, <1>12, <1>13

-----------------------------------------------------------------------------
(* OneShot: the stream                                                     *)

StreamState ==
  [state : {"starting", "running", "done", "failed"},
   result : RunResult \cup {"none"},
   err : FatalEvent \cup Message \cup {"none", "maxturns"}]

LEMMA ExitMessageIs == ExitMessage \in Message
BY DEF ExitMessage, Message

LEMMA ErrorIs ==
  ASSUME NEW event \in FatalEvent
  PROVE  ErrorOf(event) \in FatalEvent \cup Message /\ ErrorOf(event) # "none"
<1>1. \A m \in Message : m # "none"
  BY DEF Message
<1> QED
  BY <1>1, ExitMessageIs DEF ErrorOf, FatalEvent

\* A result and an error, once told, stay, but that an answer replaces a notification's.
LEMMA TrackRunIs ==
  ASSUME stream \in StreamState, NEW event \in RunEvent
  PROVE  /\ TrackRun(event) \in StreamState
         /\ stream.err # "none" \/ event \in FatalEvent \cup {"maxturns"} =>
              TrackRun(event).err # "none"
         /\ event \in RunResult \ {"note"} => TrackRun(event).result = event
         /\ event = "note" =>
              TrackRun(event).result = IF stream.result = "none" THEN "note" ELSE stream.result
         /\ event \notin RunResult => TrackRun(event).result = stream.result
<1> DEFINE s == TrackRun(event)
<1>1. CASE event = "init"
  <2>1. s = [stream EXCEPT !.state = "running"]
    BY <1>1 DEF TrackRun, RunResult, FatalEvent
  <2> HIDE DEF s
  <2> QED
    BY <1>1, <2>1 DEF s, StreamState, RunResult, FatalEvent
<1>2. CASE event = "note"
  <2>1. s = [stream EXCEPT !.result = IF @ = "none" THEN "note" ELSE @]
    BY <1>2 DEF TrackRun, RunResult, FatalEvent
  <2> HIDE DEF s
  <2> QED
    BY <1>2, <2>1 DEF s, StreamState, RunResult, FatalEvent
<1>3. CASE event \in RunResult \ {"note"}
  <2>1. s = [stream EXCEPT !.state = "done", !.result = event,
                           !.err = IF @ = "none" /\ event = "maxturns" THEN event ELSE @]
    BY <1>3 DEF TrackRun, RunResult, FatalEvent
  <2> HIDE DEF s
  <2>2. event \notin FatalEvent
    BY <1>3 DEF RunResult, FatalEvent
  <2> QED
    BY <1>3, <2>1, <2>2 DEF s, StreamState, RunResult
<1>4. CASE event \in FatalEvent
  <2>1. s = [stream EXCEPT !.state = "failed", !.err = IF @ = "none" THEN ErrorOf(event) ELSE @]
    BY <1>4 DEF TrackRun, RunResult, FatalEvent
  <2> HIDE DEF s
  <2>2. event \notin RunResult
    BY <1>4 DEF RunResult, FatalEvent
  <2> QED
    BY <1>4, <2>1, <2>2, ErrorIs DEF s, StreamState, RunResult
<1>5. CASE event \notin RunResult \cup FatalEvent \cup {"init"}
  <2>1. s = stream
    BY <1>5 DEF TrackRun, RunResult
  <2> HIDE DEF s
  <2> QED
    BY <1>5, <2>1 DEF s, RunResult
<1> QED
  BY <1>1, <1>2, <1>3, <1>4, <1>5

LEMMA TrackSafe ==
  ASSUME RunInv, Track  PROVE RunInv'
<1> USE DEF RunInv
<1> DEFINE x == Head(events)
<1>1. /\ interposer = "tracks" /\ events # << >> /\ events' = Tail(events) /\ stream' = TrackRun(x)
      /\ UNCHANGED <<stdout, process, ending, warning, parser, emitting, parsed, seen, stderrPc>>
      /\ UNCHANGED <<runner, interposer, runCtxEnded, outcome>>
  BY DEF Track, cliSide, parseSide, callSide
<1>2. events \in Seq(RunEvent) /\ stream \in StreamState
  BY DEF RunTypes, StreamState
<1>3. x \in RunEvent /\ events' \in Seq(RunEvent)
  BY <1>1, <1>2, HeadOfSome
<1>4. \A e : In(events, e) <=> e = x \/ In(events', e)
  BY <1>1, <1>2, InTail
<1> HIDE DEF x
<1>5. /\ stream' \in StreamState
      /\ stream.err # "none" \/ x \in FatalEvent \cup {"maxturns"} => stream'.err # "none"
      /\ x \in RunResult \ {"note"} => stream'.result = x
      /\ x = "note" => stream'.result = IF stream.result = "none" THEN "note" ELSE stream.result
      /\ x \notin RunResult => stream'.result = stream.result
  BY <1>1, <1>2, <1>3, TrackRunIs
<1>6. /\ \A e \in Answer : e \in RunResult \ {"note"}
      /\ {"api", "exit", "nostart"} \subseteq FatalEvent
      /\ "none" \notin RunResult /\ "synthesized" \in RunResult \ {"note"}
      /\ RunResult = Answer \cup {"note", "synthesized"} /\ "synthesized" \notin Answer
  BY DEF Answer, RunResult, FatalEvent
<1>7. RunTypes'
  BY <1>1, <1>3, <1>5 DEF RunTypes, StreamState
<1>8. BeforeStart' /\ AfterFinish' /\ ReadInOrder'
  BY <1>1 DEF BeforeStart, AfterFinish, Exited, ReadInOrder
<1>9. AnswerIsEnding'
  BY <1>1, <1>4, <1>5, <1>6 DEF AnswerIsEnding, Parsed
<1>10. ASSUME ending \in Answer, "result" \in seen, stream.result = ending
       PROVE  stream'.result = ending
  <2>1. x # "synthesized"
    BY <1>4, <1>10 DEF MadeUpAlone
  <2>2. x \in Answer => x = ending
    BY <1>4 DEF AnswerIsEnding
  <2> QED
    BY <1>5, <1>6, <1>10, <2>1, <2>2
<1>11. EndingIsKept'
  <2> SUFFICES ASSUME ~runCtxEnded, parser = "done", ending \in {"answer", "maxturns", "api"},
                      ~Parsed(ending)
               PROVE  /\ ending \in Answer => "result" \in seen
                      /\ In(events', ending) \/ Told(ending)'
    BY <1>1 DEF EndingIsKept, Parsed
  <2>1. /\ ending \in Answer => "result" \in seen
        /\ In(events, ending) \/ Told(ending)
    BY DEF EndingIsKept
  <2>2. CASE Told(ending)
    BY <1>5, <1>10, <2>1, <2>2, <1>1 DEF Told
  <2>3. CASE x = ending
    <3>1. ending \in Answer => stream'.result = ending
      BY <1>5, <1>6, <2>3
    <3>2. ending \in {"maxturns", "api"} => stream'.err # "none"
      BY <1>5, <1>6, <2>3
    <3>3. Told(ending)'
      BY <1>1, <3>1, <3>2 DEF Told
    <3> QED
      BY <2>1, <3>3
  <2> QED
    BY <1>4, <2>1, <2>2, <2>3
<1>12. MadeUpAlone'
  BY <1>1, <1>4, <1>5, <1>6 DEF MadeUpAlone
<1>13. ExitIsTold'
  BY <1>1, <1>4, <1>5, <1>6 DEF ExitIsTold
<1>14. ResultIsTold'
  <2>1. stream.result # "none" \/ x \in RunResult => stream'.result # "none"
    BY <1>5, <1>6
  <2> QED
    BY <1>1, <1>4, <2>1 DEF ResultIsTold
<1>15. AllTracked' /\ OutcomeHolds'
  BY <1>1 DEF AllTracked, OutcomeHolds
<1> QED
  BY <1>7, <1>8, <1>9, <1>11, <1>12, <1>13, <1>14, <1>15

LEMMA GiveUpSafe ==
  ASSUME RunInv, GiveUp  PROVE RunInv'
<1> USE DEF RunInv
<1>1. /\ runCtxEnded /\ interposer' = "drains"
      /\ UNCHANGED <<stdout, process, ending, warning, parser, emitting, parsed, seen, stderrPc>>
      /\ UNCHANGED <<events, runner, stream, runCtxEnded, outcome>>
  BY DEF GiveUp, cliSide, parseSide, readSide, callSide
<1>2. RunTypes' /\ BeforeStart' /\ AfterFinish' /\ ReadInOrder'
  BY <1>1 DEF RunTypes, BeforeStart, AfterFinish, Exited, ReadInOrder
<1>3. AnswerIsEnding' /\ EndingIsKept' /\ MadeUpAlone'
  BY <1>1 DEF AnswerIsEnding, EndingIsKept, MadeUpAlone, Parsed
<1>4. ExitIsTold' /\ ResultIsTold' /\ AllTracked' /\ OutcomeHolds'
  BY <1>1 DEF ExitIsTold, ResultIsTold, AllTracked, OutcomeHolds
<1> QED
  BY <1>2, <1>3, <1>4

LEMMA DrainRawSafe ==
  ASSUME RunInv, DrainRaw  PROVE RunInv'
<1> USE DEF RunInv
<1>1. /\ interposer = "drains" /\ events # << >> /\ events' = Tail(events)
      /\ UNCHANGED <<stdout, process, ending, warning, parser, emitting, parsed, seen, stderrPc>>
      /\ UNCHANGED <<runner, interposer, stream, runCtxEnded, outcome>>
  BY DEF DrainRaw, cliSide, parseSide, streamSide, callSide
<1>2. runCtxEnded
  BY <1>1 DEF AllTracked
<1>3. events \in Seq(RunEvent)
  BY DEF RunTypes
<1>4. events' \in Seq(RunEvent) /\ \A e : In(events', e) => In(events, e)
  BY <1>1, <1>3, HeadOfSome, InTail
<1>5. RunTypes' /\ BeforeStart' /\ AfterFinish' /\ ReadInOrder'
  BY <1>1, <1>4 DEF RunTypes, BeforeStart, AfterFinish, Exited, ReadInOrder
<1>6. AnswerIsEnding' /\ EndingIsKept' /\ MadeUpAlone'
  BY <1>1, <1>2, <1>4 DEF AnswerIsEnding, EndingIsKept, MadeUpAlone, Parsed
<1>7. ExitIsTold' /\ ResultIsTold' /\ AllTracked' /\ OutcomeHolds'
  BY <1>1, <1>2 DEF ExitIsTold, ResultIsTold, AllTracked, OutcomeHolds
<1> QED
  BY <1>5, <1>6, <1>7

LEMMA CloseTrackedSafe ==
  ASSUME RunInv, CloseTracked  PROVE RunInv'
<1> USE DEF RunInv
<1>1. /\ events = << >> /\ runner = "closed" /\ interposer' = "closed"
      /\ UNCHANGED <<stdout, process, ending, warning, parser, emitting, parsed, seen, stderrPc>>
      /\ UNCHANGED <<events, runner, stream, runCtxEnded, outcome>>
  BY DEF CloseTracked, cliSide, parseSide, readSide, callSide
<1>2. RunTypes' /\ BeforeStart' /\ AfterFinish' /\ ReadInOrder'
  BY <1>1 DEF RunTypes, BeforeStart, AfterFinish, Exited, ReadInOrder
<1>3. AnswerIsEnding' /\ EndingIsKept' /\ MadeUpAlone'
  BY <1>1 DEF AnswerIsEnding, EndingIsKept, MadeUpAlone, Parsed, Told
<1>4. ExitIsTold' /\ ResultIsTold' /\ AllTracked' /\ OutcomeHolds'
  BY <1>1 DEF ExitIsTold, ResultIsTold, AllTracked, OutcomeHolds
<1> QED
  BY <1>2, <1>3, <1>4

-----------------------------------------------------------------------------
(* OneShot: the caller                                                     *)

LEMMA WaitReturnsSafe ==
  ASSUME RunInv, WaitReturns  PROVE RunInv'
<1> USE DEF RunInv
<1>1. /\ interposer = "closed" /\ runner = "closed"
      /\ outcome' = [result |-> stream.result, err |-> stream.err, cut |-> runCtxEnded]
      /\ UNCHANGED <<stdout, process, ending, warning, parser, emitting, parsed, seen, stderrPc>>
      /\ UNCHANGED <<events, runner, interposer, stream, runCtxEnded>>
  BY DEF WaitReturns, cliSide, parseSide, readSide, streamSide
<1>2. RunTypes' /\ BeforeStart' /\ AfterFinish' /\ ReadInOrder'
  BY <1>1 DEF RunTypes, BeforeStart, AfterFinish, Exited, ReadInOrder
<1>3. AnswerIsEnding' /\ EndingIsKept' /\ MadeUpAlone'
  BY <1>1 DEF AnswerIsEnding, EndingIsKept, MadeUpAlone, Parsed, Told
<1>4. ExitIsTold' /\ ResultIsTold' /\ AllTracked'
  BY <1>1 DEF ExitIsTold, ResultIsTold, AllTracked
<1>5. OutcomeHolds'
  <2> SUFFICES ASSUME ~runCtxEnded
               PROVE  /\ ending \in Answer => stream.result = ending
                      /\ ending \in {"maxturns", "api"} => stream.err # "none"
                      /\ process # "zero" => stream.err # "none"
                      /\ stream.result # "none" \/ stream.err # "none"
    BY <1>1 DEF OutcomeHolds
  <2>1. \A e : ~In(events, e)
    BY <1>1, InEmpty DEF AllTracked
  <2>2. ending # "none" => parser = "done" /\ emitting = << >> /\ parsed = << >>
    BY <1>1 DEF AfterFinish, BeforeStart
  <2>3. ending # "none" => ~Parsed(ending)
    BY <2>2, InEmpty DEF Parsed
  <2>4. ending \in Answer \cup {"maxturns", "api"} => Told(ending)
    BY <2>1, <2>2, <2>3 DEF EndingIsKept, Answer
  <2>5. process # "zero" => stream.err # "none"
    BY <1>1, <2>1 DEF ExitIsTold
  <2>6. process = "zero" => stream.result # "none"
    BY <1>1, <2>1 DEF ResultIsTold
  <2> QED
    BY <2>4, <2>5, <2>6 DEF Told
<1> QED
  BY <1>2, <1>3, <1>4, <1>5

LEMMA EndContextSafe ==
  ASSUME RunInv, EndContext  PROVE RunInv'
<1> USE DEF RunInv
<1>1. /\ runCtxEnded'
      /\ UNCHANGED <<stdout, process, ending, warning, parser, emitting, parsed, seen, stderrPc>>
      /\ UNCHANGED <<events, runner, interposer, stream, outcome>>
  BY DEF EndContext, cliSide, parseSide, readSide, streamSide
<1>2. RunTypes' /\ BeforeStart' /\ AfterFinish' /\ ReadInOrder'
  BY <1>1 DEF RunTypes, BeforeStart, AfterFinish, Exited, ReadInOrder
<1>3. AnswerIsEnding' /\ EndingIsKept' /\ MadeUpAlone'
  BY <1>1 DEF AnswerIsEnding, EndingIsKept, MadeUpAlone, Parsed
<1>4. ExitIsTold' /\ ResultIsTold' /\ AllTracked' /\ OutcomeHolds'
  BY <1>1 DEF ExitIsTold, ResultIsTold, AllTracked, OutcomeHolds
<1> QED
  BY <1>2, <1>3, <1>4

LEMMA OthersAreQuiet ==
  ASSUME RunInv, CLIWarns \/ StderrEOF \/ Forward \/ ReadNext \/ CallWait \/ UNCHANGED runVars
  PROVE  RunInv'
<1> USE DEF cliSide, parseSide, readSide, streamSide, callSide
<1>1. BeforeStart
  BY DEF RunInv
<1>2. /\ UNCHANGED <<stdout, process, ending, parser, emitting, parsed, seen, events, runner>>
      /\ UNCHANGED <<interposer, stream, runCtxEnded, outcome>>
      /\ stderrPc' = stderrPc \/ stderrPc' = "done"
      /\ warning' = warning \/ process = "runs"
  <2>1. CASE CLIWarns
    BY <2>1 DEF CLIWarns
  <2>2. CASE StderrEOF
    BY <2>2 DEF StderrEOF
  <2>3. CASE Forward
    BY <2>3 DEF Forward
  <2>4. CASE ReadNext
    BY <2>4 DEF ReadNext
  <2>5. CASE CallWait
    BY <2>5 DEF CallWait
  <2>6. CASE UNCHANGED runVars
    BY <2>6 DEF runVars
  <2> QED
    BY <2>1, <2>2, <2>3, <2>4, <2>5, <2>6
<1>3. process \in {"none", "failed"} => warning' = "none"
  BY <1>1, <1>2 DEF BeforeStart
<1> QED
  BY <1>2, <1>3, QuietSafe

\* Wait of a run whose context did not end tells how the run ended, for channels of
\* any capacity and any number of lines: the result is the CLI's final answer, an API
\* error, max_turns and every exit but a clean one are errors, and a run with none of
\* them has a result (src/stream.go: trackState, Wait; src/client.go: readProcess).
THEOREM OutcomeIsTrue == RunSpec => []OutcomeTellsTheEnding
<1>1. RunInv /\ [RunNext]_runVars => RunInv'
  <2> SUFFICES ASSUME RunInv, [RunNext]_runVars  PROVE RunInv'
    OBVIOUS
  <2>1. CASE StartRun \/ CLIWrites \/ CLIExits
    BY <2>1, StartRunSafe, CLIWritesSafe, CLIExitsSafe
  <2>2. CASE ScanLine \/ ScanEOF \/ Emit
    BY <2>2, ScanLineSafe, ScanEOFSafe, EmitSafe
  <2>3. CASE Collect \/ ScanStderr \/ Finish
    BY <2>3, CollectSafe, ScanStderrSafe, FinishSafe
  <2>4. CASE Track \/ GiveUp \/ DrainRaw \/ CloseTracked
    BY <2>4, TrackSafe, GiveUpSafe, DrainRawSafe, CloseTrackedSafe
  <2>5. CASE WaitReturns \/ EndContext
    BY <2>5, WaitReturnsSafe, EndContextSafe
  <2>6. CASE CLIWarns \/ StderrEOF \/ Forward \/ ReadNext \/ CallWait \/ UNCHANGED runVars
    BY <2>6, OthersAreQuiet
  <2> QED
    BY <2>1, <2>2, <2>3, <2>4, <2>5, <2>6 DEF RunNext
<1>2. RunInv => OutcomeTellsTheEnding
  BY DEF RunInv, OutcomeHolds, OutcomeTellsTheEnding, Answer
<1> QED
  BY <1>1, <1>2, RunInitially, PTL DEF RunSpec
=============================================================================
