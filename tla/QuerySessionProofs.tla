------------------------- MODULE QuerySessionProofs -------------------------
(***************************************************************************)
(* Proofs about QuerySession, for any number of callers and calls, any     *)
(* capacities and any turns of the CLI: its types, that it uses the router *)
(* as EventRouter allows, that the end of the session closes every handle, *)
(* that an answer reaches the query it answers, that the late answer of an *)
(* abandoned query keeps its generation, and that whoever waits is waiting *)
(* for something that is on its way.  QueryResultProofs goes on from here. *)
(***************************************************************************)
EXTENDS QuerySession, FiniteSetTheorems, SequenceTheorems, TLAPS

-----------------------------------------------------------------------------
(* The types of the session's parts, one conjunct per goroutine or caller  *)

CLITypes ==
  /\ stdin \in Seq(Message) /\ stdout \in Seq(Line)
  /\ turn \in [kind : {"none", "caller", "note"}, of : SUBSET Queries,
               failed : BOOLEAN, tool : BOOLEAN]
  /\ cli \in {"up", "exited", "crashed"} /\ noteTurns \in 0..MaxNoteTurns

RouterTypes == Router!RouterTypeOK /\ Router!OnlyActiveOpen

PumpTypes ==
  /\ pump \in Seq(Router!Stamped) /\ Len(pump) <= PumpCap
  /\ pumpEv \in Seq(Router!Stamped)
  /\ events \in Seq(Router!Stamped) /\ Len(events) <= EventsCap
  /\ pumpClosed \in BOOLEAN
  /\ pumpPc \in {"have", "events"} => pumpEv # << >>

LoopTypes ==
  /\ rlOut \in Seq(Router!Stamped)
  /\ waited \in BOOLEAN
  /\ rlPc \in {"held", "clear", "track", "observe", "push", "exit"} => rlOut # << >>

TickTypes ==
  /\ ticker \in BOOLEAN
  /\ tickOut \in Seq(Router!Stamped)
  /\ tickPc = "send" => tickOut # << >>

QueryTypes ==
  /\ state \in {"idle", "running", "failed", "done"}
  /\ activity \in {"idle", "thinking", "awaiting"}
  /\ activeGen \in 0..MaxGen
  /\ promptEchoed \in BOOLEAN

ModeTypes ==
  /\ ctxDone \in BOOLEAN /\ stdinOpen \in BOOLEAN /\ routed \in BOOLEAN
  /\ enabling \in {"never", "now", "done"}

UserTypes == given \subseteq Queries /\ surfaced \subseteq Queries

\* A call sends the activity transition of its query, not the barrier.
Marked(k) == k.pc \in {"stamp", "send"} /\ k.out[1].ev.kind # "barrier"

\* The steps of a call from prepareQuery to its write.
Asking(k) == k.pc \in {"count", "arm", "store", "mark", "write"} \/ Marked(k)

\* The steps at which a QueryCtx owns the handle it armed.
Holding(k) == k.pc \in {"store", "mark", "write", "fail", "failState", "detach"} \/ Marked(k)

CallRecord ==
  [pc : {"idle", "enable", "stamp", "send", "prepare", "validate", "count", "arm",
         "store", "mark", "write", "fail", "failState", "detach"},
   op : {"none", "QueryCtx", "Query", "SendMessage"},
   gen : 0..MaxGen, out : Seq(Router!Stamped)]

CallOK(k) ==
  /\ k \in CallRecord
  /\ k.pc \in {"stamp", "send"} => k.out # << >>
  /\ k.op = "none" <=> k.pc = "idle"
  /\ k.op # "QueryCtx" =>
       /\ k.gen = 0
       /\ k.pc \in {"idle", "prepare", "validate", "mark", "write"} \/ Marked(k)
  /\ k.op = "QueryCtx" =>
       /\ k.pc # "validate"
       /\ k.gen = 0 <=> ~(k.pc = "arm" \/ Holding(k))

CallTypes == DOMAIN call = Callers /\ \A c \in Callers : CallOK(call[c])

\* The calls of QueryCtx that have not counted their generation.
Uncounted == {c \in Callers : call[c].op = "QueryCtx" /\ call[c].gen = 0}

\* A generation is counted for a call at most once, so the generations stay
\* within the bound on the calls.
Counting ==
  /\ calls \in Nat /\ genCounter \in Nat
  /\ IsFiniteSet(Uncounted)
  /\ genCounter + Cardinality(Uncounted) <= calls /\ calls <= MaxCalls

SessionTypes ==
  /\ CLITypes /\ RouterTypes /\ PumpTypes /\ LoopTypes /\ TickTypes
  /\ CallTypes /\ Counting /\ QueryTypes /\ ModeTypes /\ UserTypes

-----------------------------------------------------------------------------
(* Sequences and events                                                    *)

LEMMA SequenceTypes ==
  ASSUME NEW S, NEW seq \in Seq(S), NEW x \in S
  PROVE  /\ Append(seq, x) \in Seq(S) /\ Append(seq, x) # << >>
         /\ Len(Append(seq, x)) = Len(seq) + 1
         /\ << >> \in Seq(S)
         /\ <<x>> \in Seq(S) /\ <<x>> # << >> /\ Len(<<x>>) = 1 /\ <<x>>[1] = x
  <1>1. Append(seq, x) \in Seq(S) /\ Len(Append(seq, x)) = Len(seq) + 1 /\ Len(seq) \in Nat
    OBVIOUS
  <1>2. Append(seq, x) # << >>
    <2>1. Len(<< >>) = 0
      OBVIOUS
    <2> QED
      BY <1>1, <2>1
  <1>3. << >> \in Seq(S) /\ <<x>> \in Seq(S) /\ Len(<<x>>) = 1 /\ <<x>>[1] = x
    OBVIOUS
  <1>4. <<x>> # << >>
    <2>1. Len(<<x>>) = 1 /\ Len(<< >>) = 0
      OBVIOUS
    <2> QED
      BY <2>1
  <1> QED
    BY <1>1, <1>2, <1>3, <1>4

LEMMA CapTypes == PumpCap \in Nat /\ EventsCap \in Nat
  BY SessionAssumption

\* A bounded channel takes an event only if it has room.
LEMMA RoomTypes ==
  ASSUME NEW S, NEW seq \in Seq(S), NEW x \in S, NEW cap \in Nat, Len(seq) <= cap, NEW new,
         new = seq \/ (Len(seq) < cap /\ new = Append(seq, x))
  PROVE  new \in Seq(S) /\ Len(new) <= cap
  BY SequenceTypes

LEMMA ConcatTypes ==
  ASSUME NEW S, NEW s \in Seq(S), NEW t \in Seq(S)
  PROVE  /\ s \o t \in Seq(S) /\ Len(s \o t) = Len(s) + Len(t)
         /\ \A i \in 1..Len(s) + Len(t) :
              (s \o t)[i] = IF i <= Len(s) THEN s[i] ELSE t[i - Len(s)]
  OBVIOUS

LEMMA PairConcat ==
  ASSUME NEW x, NEW y
  PROVE  << >> \o <<y>> = <<y>> /\ <<x>> \o <<y>> = <<x, y>>
  <1>1. <<x>> \in Seq({x, y}) /\ <<y>> \in Seq({x, y}) /\ Len(<<x>>) = 1 /\ Len(<<y>>) = 1
    OBVIOUS
  <1>2. <<x, y>> \in Seq({x, y}) /\ Len(<<x, y>>) = 2 /\ <<x, y>>[1] = x /\ <<x, y>>[2] = y
    OBVIOUS
  <1>3. <<x>> \o <<y>> \in Seq({x, y}) /\ Len(<<x>> \o <<y>>) = 2
    BY <1>1
  <1>4. \A i \in 1..2 : (<<x>> \o <<y>>)[i] = <<x, y>>[i]
    <2>1. \A i \in 1..2 : (<<x>> \o <<y>>)[i] = IF i <= 1 THEN <<x>>[i] ELSE <<y>>[i - 1]
      BY <1>1, ConcatProperties
    <2> QED
      BY <1>2, <2>1
  <1>5. << >> \o <<y>> = <<y>>
    BY <1>1, ConcatEmptySeq
  <1> QED
    BY <1>2, <1>3, <1>4, <1>5, SeqEqual

LEMMA PairTypes ==
  ASSUME NEW S, NEW x \in S, NEW y \in S
  PROVE  <<x, y>> \in Seq(S) /\ <<x, y>> # << >> /\ Len(<<x, y>>) = 2
  <1>1. <<x, y>> \in Seq(S) /\ Len(<<x, y>>) = 2 /\ Len(<< >>) = 0
    OBVIOUS
  <1> QED
    BY <1>1

LEMMA HeadTypes ==
  ASSUME NEW S, NEW seq \in Seq(S), seq # << >>
  PROVE  /\ Head(seq) \in S /\ seq[1] \in S /\ Head(seq) = seq[1]
         /\ Tail(seq) \in Seq(S) /\ Len(Tail(seq)) = Len(seq) - 1
         /\ Len(seq) \in Nat /\ Len(seq) >= 1
  OBVIOUS

Kinds == {"init", "tool", "result", "unsolicited", "fatal", "exit", "tick",
          "idle", "thinking", "awaiting", "barrier"}

LEMMA StampedType ==
  ASSUME NEW kind \in Kinds, NEW of \in SUBSET Queries, NEW gen \in 0..MaxGen
  PROVE  StampedAs(kind, of, gen) \in Router!Stamped
  BY DEF StampedAs, Ev, Router!Stamped, SessionEvent, Kinds

\* An event with another content, or with another generation.
LEMMA StampedExcept ==
  ASSUME NEW sev \in Router!Stamped, NEW ev \in SessionEvent, NEW gen \in 0..MaxGen
  PROVE  /\ [sev EXCEPT !.ev = ev] = [ev |-> ev, gen |-> sev.gen]
         /\ [sev EXCEPT !.ev = ev] \in Router!Stamped
         /\ [sev EXCEPT !.gen = gen] = [ev |-> sev.ev, gen |-> gen]
         /\ [sev EXCEPT !.gen = gen] \in Router!Stamped
  BY DEF Router!Stamped

LEMMA StampedParts ==
  ASSUME NEW sev \in Router!Stamped
  PROVE  /\ sev.ev \in SessionEvent /\ sev.gen \in 0..MaxGen
         /\ sev.ev.kind \in Kinds /\ sev.ev.of \in SUBSET Queries
         /\ \A kind \in Kinds : Ev(kind, sev.ev.of) \in SessionEvent
  BY DEF Ev, Router!Stamped, SessionEvent, Kinds

LEMMA LineParts ==
  ASSUME NEW line \in Line
  PROVE  line.of \in SUBSET Queries /\ line.note \in BOOLEAN
  BY DEF Line, Queries

-----------------------------------------------------------------------------
(* What a step leaves alone keeps its type                                 *)

LEMMA Frames ==
  ASSUME SessionTypes
  PROVE  /\ UNCHANGED cliVars => CLITypes'
         /\ UNCHANGED routerState => RouterTypes'
         /\ UNCHANGED pumpState => PumpTypes'
         /\ UNCHANGED loopState => LoopTypes'
         /\ UNCHANGED tickState => TickTypes'
         /\ UNCHANGED callState => CallTypes'
         /\ UNCHANGED callState /\ UNCHANGED genCounter => Counting'
         /\ UNCHANGED queryState => QueryTypes' /\ UNCHANGED genCounter
         /\ UNCHANGED endState /\ UNCHANGED modeState => ModeTypes'
         /\ UNCHANGED userState => UserTypes'
  <1> USE DEF SessionTypes
  <1>1. UNCHANGED cliVars => CLITypes'
    BY DEF cliVars, CLITypes
  <1>2. UNCHANGED routerState => RouterTypes'
    BY DEF routerState, RouterTypes, Router!RouterTypeOK, Router!OnlyActiveOpen
  <1>3. UNCHANGED pumpState => PumpTypes'
    BY DEF pumpState, PumpTypes
  <1>4. UNCHANGED loopState => LoopTypes'
    BY DEF loopState, LoopTypes
  <1>5. UNCHANGED tickState => TickTypes'
    BY DEF tickState, TickTypes
  <1>6. UNCHANGED callState => CallTypes'
    BY DEF callState, CallTypes
  <1>7. UNCHANGED callState /\ UNCHANGED genCounter => Counting'
    BY DEF callState, Counting, Uncounted
  <1>8. UNCHANGED queryState => QueryTypes' /\ UNCHANGED genCounter
    BY DEF queryState, QueryTypes
  <1>9. UNCHANGED endState /\ UNCHANGED modeState => ModeTypes'
    BY DEF endState, modeState, ModeTypes
  <1>10. UNCHANGED userState => UserTypes'
    BY DEF userState, UserTypes
  <1> QED
    BY <1>1, <1>2, <1>3, <1>4, <1>5, <1>6, <1>7, <1>8, <1>9, <1>10

LEMMA InitTypes == Init => SessionTypes
  <1> SUFFICES ASSUME Init PROVE SessionTypes
    OBVIOUS
  <1> USE DEF Init
  <1>1. CLITypes
    BY CLIAssumption DEF CLIInit, CLITypes, NoTurn
  <1>2. RouterTypes
    <2>1. shutdown = FALSE /\ shutdown \in BOOLEAN
      BY DEF Router!RouterInit
    <2>2. Router!OnlyActiveOpen
      BY <2>1, CLIAssumption DEF Router!RouterInit, Router!OnlyActiveOpen, Router!NoQuery, Router!Gens
    <2>3. Router!RouterTypeOK
      BY <2>1, CLIAssumption DEF Router!RouterInit, Router!RouterTypeOK,
          Router!NoQuery, Router!Gens, Router!CloseReasons
    <2> QED
      BY <2>2, <2>3 DEF RouterTypes
  <1>3. PumpTypes /\ LoopTypes /\ TickTypes
    <2>1. pumpClosed \in BOOLEAN /\ waited \in BOOLEAN /\ ticker \in BOOLEAN
      OBVIOUS
    <2> QED
      BY <2>1, SessionAssumption DEF PumpTypes, LoopTypes, TickTypes
  <1>4. CallTypes
    <2>1. CallOK(NoCall)
      BY CLIAssumption DEF CallOK, NoCall, CallRecord, Holding, Marked
    <2> QED
      BY <2>1 DEF CallTypes
  <1>5. Counting
    <2>1. Uncounted = {}
      BY DEF Uncounted, NoCall
    <2> QED
      BY <2>1, FS_EmptySet, SessionAssumption DEF Counting
  <1>6. QueryTypes /\ ModeTypes /\ UserTypes
    <2>1. /\ promptEchoed \in BOOLEAN /\ ctxDone \in BOOLEAN /\ stdinOpen \in BOOLEAN
          /\ routed \in BOOLEAN
      OBVIOUS
    <2> QED
      BY <2>1, CLIAssumption DEF QueryTypes, ModeTypes, UserTypes
  <1> QED
    BY <1>1, <1>2, <1>3, <1>4, <1>5, <1>6 DEF SessionTypes
-----------------------------------------------------------------------------
(* The router's operations, on this session's events                       *)

LEMMA RouterFacts ==
  /\ Router!Gens = Queries /\ Router!NoQuery = 0 /\ Queries = 1..MaxGen /\ MaxGen \in Nat
  /\ \A g \in Queries : g # 0 /\ g \in 0..MaxGen
  BY CLIAssumption DEF Router!Gens, Router!NoQuery, Queries

LEMMA AddOrphanTypes ==
  ASSUME NEW S, orphans \in Seq(S), NEW sev \in S, Router!AddOrphan(sev)
  PROVE  orphans' \in Seq(S)
  <1>1. CASE Len(orphans) = OrphanMailboxCap
    <2>1. orphans # << >>
      BY <1>1, SessionAssumption
    <2>2. Tail(orphans) \in Seq(S)
      BY <2>1, HeadTypes
    <2> QED
      BY <1>1, <2>2, SequenceTypes DEF Router!AddOrphan
  <1>2. CASE Len(orphans) # OrphanMailboxCap
    BY <1>2, SequenceTypes DEF Router!AddOrphan
  <1> QED
    BY <1>1, <1>2

LEMMA MailboxTypes ==
  ASSUME Router!RouterTypeOK, NEW g, NEW seq,
         g \in Queries => seq \in Seq(Router!Stamped),
         mailbox' = [mailbox EXCEPT ![g] = seq]
  PROVE  mailbox' \in [Router!Gens -> Seq(Router!Stamped)]
  BY RouterFacts DEF Router!RouterTypeOK

LEMMA RouteTypes ==
  ASSUME RouterTypes, NEW sev \in Router!Stamped, Router!RouteStamped(sev)
  PROVE  RouterTypes'
  <1> USE DEF RouterTypes
  <1>1. CASE Router!DropAfterShutdown(sev)
    BY <1>1 DEF Router!DropAfterShutdown, Router!routerVars, Router!RouterTypeOK, Router!OnlyActiveOpen
  <1>2. CASE Router!Deliver(sev)
    <2>1. active \in Queries => Append(mailbox[active], sev) \in Seq(Router!Stamped)
      BY RouterFacts, SequenceTypes DEF Router!RouterTypeOK
    <2>2. mailbox' \in [Router!Gens -> Seq(Router!Stamped)]
      BY <1>2, <2>1, MailboxTypes DEF Router!Deliver
    <2> QED
      BY <1>2, <2>2 DEF Router!Deliver, Router!RouterTypeOK, Router!OnlyActiveOpen
  <1>3. CASE Router!FindFull(sev)
    <2>1. evicting' = <<sev>> /\ <<sev>> \in Seq(Router!Stamped) /\ Len(<<sev>>) = 1
      BY <1>3, SequenceTypes, RouterFacts DEF Router!FindFull, Router!RouterTypeOK
    <2> QED
      BY <1>3, <2>1 DEF Router!FindFull, Router!RouterTypeOK, Router!OnlyActiveOpen
  <1>4. CASE Router!Orphan(sev)
    <2>1. orphans' \in Seq(Router!Stamped)
      BY <1>4, AddOrphanTypes DEF Router!Orphan, Router!RouterTypeOK
    <2> QED
      BY <1>4, <2>1 DEF Router!Orphan, Router!RouterTypeOK, Router!OnlyActiveOpen
  <1> QED
    BY <1>1, <1>2, <1>3, <1>4 DEF Router!RouteStamped

LEMMA EvictTypes ==
  ASSUME RouterTypes, Router!Evict
  PROVE  RouterTypes'
  <1> DEFINE kept == IF mailbox[active] = << >> THEN mailbox[active] ELSE Tail(mailbox[active])
  <1>1. evicting[1] \in Router!Stamped
    BY HeadTypes DEF Router!Evict, RouterTypes, Router!RouterTypeOK
  <1>2. active \in Queries => Append(kept, evicting[1]) \in Seq(Router!Stamped)
    <2> SUFFICES ASSUME active \in Queries PROVE Append(kept, evicting[1]) \in Seq(Router!Stamped)
      OBVIOUS
    <2>1. mailbox[active] \in Seq(Router!Stamped)
      BY RouterFacts DEF RouterTypes, Router!RouterTypeOK
    <2>2. kept \in Seq(Router!Stamped)
      BY <2>1, HeadTypes
    <2> QED
      BY <1>1, <2>2, SequenceTypes
  <1>3. active \in Queries => mailbox' = [mailbox EXCEPT ![active] = Append(kept, evicting[1])]
    BY RouterFacts DEF Router!Evict, RouterTypes, Router!RouterTypeOK
  <1>4. mailbox' \in [Router!Gens -> Seq(Router!Stamped)]
    <2>1. CASE active \in Queries
      BY <1>2, <1>3, <2>1, MailboxTypes DEF RouterTypes
    <2>2. CASE active \notin Queries
      BY <2>2, RouterFacts DEF Router!Evict, RouterTypes, Router!RouterTypeOK
    <2> QED
      BY <2>1, <2>2
  <1>5. << >> \in Seq(Router!Stamped) /\ Len(<< >>) = 0
    OBVIOUS
  <1> QED
    BY <1>4, <1>5 DEF Router!Evict, RouterTypes, Router!RouterTypeOK, Router!OnlyActiveOpen

LEMMA FlushTypes ==
  ASSUME RouterTypes, NEW ev \in SessionEvent, Router!Flush(ev)
  PROVE  RouterTypes'
  <1>1. [ev |-> ev, gen |-> Router!NoQuery] \in Router!Stamped
    BY RouterFacts DEF Router!Stamped
  <1>2. orphans' \in Seq(Router!Stamped)
    BY <1>1, AddOrphanTypes DEF Router!Flush, RouterTypes, Router!RouterTypeOK
  <1> QED
    BY <1>2 DEF Router!Flush, RouterTypes, Router!RouterTypeOK, Router!OnlyActiveOpen

LEMMA ArmTypes ==
  ASSUME RouterTypes, NEW g \in Queries, Router!Arm(g)
  PROVE  RouterTypes'
  <1> USE RouterFacts DEF RouterTypes, Router!Arm, Router!RouterTypeOK, Router!CloseReasons
  <1>1. handle' \in [Router!Gens -> {"none", "open"} \cup Router!CloseReasons]
    OBVIOUS
  <1>2. active' \in 0..MaxGen
    OBVIOUS
  <1>3. Router!OnlyActiveOpen'
    <2>1. CASE shutdown
      <3>1. shutdown' /\ active' = active /\ handle' = [handle EXCEPT ![g] = "ended"]
        BY <2>1
      <3> QED
        BY <2>1, <3>1 DEF Router!OnlyActiveOpen
    <2>2. CASE ~shutdown
      <3>1. ~shutdown' /\ active' = g
        BY <2>2
      <3>2. \A h \in Queries : handle'[h] = "open" <=> h = g
        BY <2>2 DEF Router!OnlyActiveOpen
      <3> QED
        BY <3>1, <3>2 DEF Router!OnlyActiveOpen
    <2> QED
      BY <2>1, <2>2
  <1> QED
    BY <1>1, <1>2, <1>3

LEMMA DetachTypes ==
  ASSUME RouterTypes, NEW g \in Queries, NEW reason \in {"detached", "failed"},
         Router!Detach(g, reason)
  PROVE  RouterTypes' /\ handle'[g] # "open"
  <1> USE RouterFacts DEF RouterTypes, Router!Detach, Router!RouterTypeOK, Router!CloseReasons
  <1>1. handle' \in [Router!Gens -> {"none", "open"} \cup Router!CloseReasons] /\ handle'[g] # "open"
    OBVIOUS
  <1>2. active' \in 0..MaxGen
    OBVIOUS
  <1>3. Router!OnlyActiveOpen'
    BY DEF Router!OnlyActiveOpen
  <1> QED
    BY <1>1, <1>2, <1>3

LEMMA ShutdownTypes ==
  ASSUME RouterTypes, Router!ShutdownRouter("ended")
  PROVE  RouterTypes' /\ shutdown' = TRUE
  <1> USE RouterFacts DEF RouterTypes, Router!ShutdownRouter, Router!RouterTypeOK, Router!CloseReasons
  <1>1. handle' \in [Router!Gens -> {"none", "open"} \cup Router!CloseReasons]
    OBVIOUS
  <1>2. Router!OnlyActiveOpen'
    BY DEF Router!OnlyActiveOpen
  <1>3. shutdown' = TRUE /\ shutdown' \in BOOLEAN
    OBVIOUS
  <1> QED
    BY <1>1, <1>2, <1>3

LEMMA ReceiveTypes ==
  ASSUME RouterTypes, NEW g \in Queries, Router!Receive(g)
  PROVE  RouterTypes'
  <1>1. mailbox[g] \in Seq(Router!Stamped) /\ mailbox[g] # << >>
    BY RouterFacts DEF RouterTypes, Router!RouterTypeOK, Router!Receive
  <1>2. mailbox' = [mailbox EXCEPT ![g] = Tail(mailbox[g])]
    BY DEF Router!Receive
  <1>3. mailbox' \in [Router!Gens -> Seq(Router!Stamped)]
    BY <1>1, <1>2, HeadTypes, MailboxTypes DEF RouterTypes
  <1> QED
    BY <1>3 DEF Router!Receive, RouterTypes, Router!RouterTypeOK, Router!OnlyActiveOpen

LEMMA DrainTypes ==
  ASSUME RouterTypes, Router!DrainOrphans
  PROVE  RouterTypes'
  <1>1. << >> \in Seq(Router!Stamped)
    OBVIOUS
  <1> QED
    BY <1>1 DEF Router!DrainOrphans, RouterTypes, Router!RouterTypeOK, Router!OnlyActiveOpen
-----------------------------------------------------------------------------
(* One call moves, the others stay                                         *)

LEMMA FirstReplaced ==
  ASSUME NEW S, NEW seq \in Seq(S), seq # << >>, NEW x \in S
  PROVE  /\ [seq EXCEPT ![1] = x] \in Seq(S) /\ [seq EXCEPT ![1] = x] # << >>
         /\ [seq EXCEPT ![1] = x][1] = x /\ Len([seq EXCEPT ![1] = x]) = Len(seq)
         /\ \A i \in DOMAIN seq : i # 1 => [seq EXCEPT ![1] = x][i] = seq[i]
  <1>1. Len(seq) \in Nat /\ Len(seq) >= 1 /\ DOMAIN seq = 1..Len(seq)
    OBVIOUS
  <1>2. [seq EXCEPT ![1] = x] \in [1..Len(seq) -> S]
    BY <1>1
  <1>3. [seq EXCEPT ![1] = x] \in Seq(S) /\ Len([seq EXCEPT ![1] = x]) = Len(seq)
    BY <1>1, <1>2
  <1>4. [seq EXCEPT ![1] = x] # << >>
    BY <1>1, <1>3, Len(<< >>) = 0
  <1> QED
    BY <1>1, <1>3, <1>4

LEMMA CallParts ==
  ASSUME CallTypes, NEW c \in Callers
  PROVE  /\ CallOK(call[c])
         /\ call[c] \in CallRecord
         /\ call[c].gen \in 0..MaxGen /\ call[c].out \in Seq(Router!Stamped)
         /\ call[c] = [pc |-> call[c].pc, op |-> call[c].op,
                       gen |-> call[c].gen, out |-> call[c].out]
  BY DEF CallTypes, CallOK, CallRecord

LEMMA ReplaceCall ==
  ASSUME CallTypes, NEW c \in Callers, NEW k, CallOK(k), call' = [call EXCEPT ![c] = k]
  PROVE  /\ CallTypes' /\ call'[c] = k
         /\ \A d \in Callers : d # c => call'[d] = call[d]
  BY DEF CallTypes

\* A record that differs from call[c] in its pc and in what it sends.
Moved(c, pc, out) == [pc |-> pc, op |-> call[c].op, gen |-> call[c].gen, out |-> out]

\* A call moves to a step at which it has something to send, or nothing more.
Sends(c, pc, out) == call' = [call EXCEPT ![c].pc = pc, ![c].out = out]

LEMMA MovedForms ==
  ASSUME CallTypes, NEW c \in Callers, NEW pc, NEW out
  PROVE  /\ Goto(c, pc) => call' = [call EXCEPT ![c] = Moved(c, pc, call[c].out)]
         /\ Sends(c, pc, out) => call' = [call EXCEPT ![c] = Moved(c, pc, out)]
  <1>1. DOMAIN call = Callers /\ call[c] \in CallRecord
    BY CallParts DEF CallTypes
  <1>2. [call[c] EXCEPT !.pc = pc] = Moved(c, pc, call[c].out)
    BY <1>1 DEF CallRecord, Moved
  <1>3. [[call[c] EXCEPT !.pc = pc] EXCEPT !.out = out] = Moved(c, pc, out)
    <2>1. [Moved(c, pc, call[c].out) EXCEPT !.out = out] = Moved(c, pc, out)
      BY DEF Moved
    <2> QED
      BY <1>2, <2>1
  <1>4. [call EXCEPT ![c].pc = pc] = [call EXCEPT ![c] = [call[c] EXCEPT !.pc = pc]]
    BY <1>1
  <1>5. [call EXCEPT ![c].pc = pc, ![c].out = out]
          = [call EXCEPT ![c] = [[call[c] EXCEPT !.pc = pc] EXCEPT !.out = out]]
    BY <1>1
  <1> QED
    BY <1>2, <1>3, <1>4, <1>5 DEF Goto, Sends

\* A call that stays counted, or uncounted, changes no count.
LEMMA SameCount ==
  ASSUME CallTypes, Counting, NEW c \in Callers, NEW k,
         call' = [call EXCEPT ![c] = k],
         k.op = "QueryCtx" /\ k.gen = 0 <=> call[c].op = "QueryCtx" /\ call[c].gen = 0,
         UNCHANGED calls, UNCHANGED genCounter
  PROVE  Counting'
  <1>1. Uncounted' = Uncounted
    BY DEF Uncounted, CallTypes
  <1> QED
    BY <1>1 DEF Counting

\* A call that returns uncounted, or gets its generation, makes room for one.
LEMMA OneCounted ==
  ASSUME CallTypes, Counting, NEW c \in Callers, c \in Uncounted, NEW k,
         call' = [call EXCEPT ![c] = k], ~(k.op = "QueryCtx" /\ k.gen = 0),
         UNCHANGED calls, genCounter' \in {genCounter, genCounter + 1}
  PROVE  Counting' /\ genCounter + 1 \in 1..MaxGen
  <1>1. Uncounted' = Uncounted \ {c}
    BY DEF Uncounted, CallTypes
  <1>2. IsFiniteSet(Uncounted \ {c})
        /\ Cardinality(Uncounted \ {c}) = Cardinality(Uncounted) - 1
        /\ Cardinality(Uncounted) \in Nat /\ Cardinality(Uncounted \ {c}) \in Nat
    BY FS_RemoveElement, FS_CardinalityType DEF Counting
  <1>3. genCounter + Cardinality(Uncounted) <= MaxGen /\ genCounter \in Nat /\ MaxGen \in Nat
    BY <1>2, SessionAssumption, CLIAssumption DEF Counting
  <1>4. genCounter + 1 \in 1..MaxGen
    BY <1>2, <1>3
  <1>5. genCounter' \in Nat /\ genCounter' + Cardinality(Uncounted \ {c}) <= calls
    BY <1>2 DEF Counting
  <1> QED
    BY <1>1, <1>2, <1>4, <1>5 DEF Counting

\* The counted generations are within the bound.
LEMMA CountedRange ==
  ASSUME Counting
  PROVE  genCounter \in 0..MaxGen
  <1>1. Cardinality(Uncounted) \in Nat
    BY FS_CardinalityType DEF Counting
  <1> QED
    BY <1>1, SessionAssumption, CLIAssumption DEF Counting

\* A call moves on to pc with out to send, nothing else about the calls changes.
LEMMA MoveTypes ==
  ASSUME SessionTypes, NEW c \in Callers, NEW pc, NEW out,
         call' = [call EXCEPT ![c] = Moved(c, pc, out)], CallOK(Moved(c, pc, out)),
         UNCHANGED calls, UNCHANGED genCounter
  PROVE  CallTypes' /\ Counting'
  <1>1. Moved(c, pc, out).op = call[c].op /\ Moved(c, pc, out).gen = call[c].gen
    BY DEF Moved
  <1> QED
    BY <1>1, ReplaceCall, SameCount DEF SessionTypes

LEMMA GotoTypes ==
  ASSUME SessionTypes, NEW c \in Callers, NEW pc, Goto(c, pc), CallOK(Moved(c, pc, call[c].out)),
         UNCHANGED calls, UNCHANGED genCounter
  PROVE  CallTypes' /\ Counting'
  BY MovedForms, MoveTypes DEF SessionTypes

LEMMA ReturnTypes ==
  ASSUME SessionTypes, NEW c \in Callers, Return(c), UNCHANGED calls, UNCHANGED genCounter
  PROVE  CallTypes' /\ Counting'
  <1>1. CallOK(NoCall)
    BY CLIAssumption DEF CallOK, NoCall, CallRecord, Holding, Marked
  <1>2. ~(NoCall.op = "QueryCtx" /\ NoCall.gen = 0)
    BY DEF NoCall
  <1>3. CASE c \in Uncounted
    BY <1>1, <1>2, <1>3, ReplaceCall, OneCounted DEF SessionTypes, Return, Counting
  <1>4. CASE c \notin Uncounted
    BY <1>1, <1>2, <1>4, ReplaceCall, SameCount DEF SessionTypes, Return, Uncounted
  <1> QED
    BY <1>3, <1>4
-----------------------------------------------------------------------------
(* The steps of the CLI and of readLoop                                    *)

LEMMA EmitTypes ==
  ASSUME CLITypes, NEW lines \in Seq(Line), Emit(lines)
  PROVE  stdout' \in Seq(Line) /\ stdout' = stdout \o lines
  BY ConcatTypes DEF CLITypes, Emit

\* What the CLI writes are lines.
LEMMA WrittenLines ==
  ASSUME NEW of \in SUBSET Queries
  PROVE  /\ \A kind \in {"init", "tool"} : Written(kind, of) \in Seq(Line)
         /\ \A note \in BOOLEAN : \A kind \in {"echo", "apierror", "result"} :
              <<[kind |-> kind, of |-> of, note |-> note]>> \in Seq(Line)
  <1>1. << >> \in Seq(Line)
    OBVIOUS
  <1>2. ASSUME NEW kind \in {"init", "tool", "echo", "apierror", "result"}, NEW note \in BOOLEAN
        PROVE  <<[kind |-> kind, of |-> of, note |-> note]>> \in Seq(Line)
    <2>1. [kind |-> kind, of |-> of, note |-> note] \in Line
      BY DEF Line, Queries
    <2> QED
      BY <2>1
  <1>3. \A kind \in {"init", "tool"} : Written(kind, of) \in Seq(Line)
    BY <1>1, <1>2 DEF Written
  <1> QED
    BY <1>2, <1>3

LEMMA EchoLines ==
  ASSUME NEW m \in Message
  PROVE  Asks(m) \in SUBSET Queries /\ EchoOf(m) \in Seq(Line)
  <1>1. Asks(m) \in SUBSET Queries
    BY RouterFacts DEF Asks, Message
  <1>2. << >> \in Seq(Line)
    OBVIOUS
  <1> QED
    BY <1>1, <1>2, WrittenLines DEF EchoOf

Turns == [kind : {"none", "caller", "note"}, of : SUBSET Queries,
          failed : BOOLEAN, tool : BOOLEAN]

\* The turns that the CLI's steps make of one.
LEMMA TurnUpdates ==
  ASSUME NEW t \in Turns, NEW of \in SUBSET Queries, NEW kind \in {"none", "caller", "note"}
  PROVE  /\ LET u == [t EXCEPT !.kind = kind, !.of = of] IN u \in Turns /\ u.of = of /\ u.kind = kind
         /\ LET u == [t EXCEPT !.kind = kind] IN u \in Turns /\ u.of = t.of /\ u.kind = kind
         /\ LET u == [t EXCEPT !.of = @ \cup of] IN
              u \in Turns /\ u.of = t.of \cup of /\ u.kind = t.kind
  <1> USE DEF Turns
  <1>1. LET u == [t EXCEPT !.kind = kind, !.of = of] IN u \in Turns /\ u.of = of /\ u.kind = kind
    OBVIOUS
  <1>2. LET u == [t EXCEPT !.kind = kind] IN u \in Turns /\ u.of = t.of /\ u.kind = kind
    OBVIOUS
  <1>3. LET u == [t EXCEPT !.of = @ \cup of] IN u \in Turns /\ u.of = t.of \cup of /\ u.kind = t.kind
    OBVIOUS
  <1> QED
    BY <1>1, <1>2, <1>3

LEMMA TurnFlags ==
  ASSUME NEW t \in Turns
  PROVE  /\ LET u == [t EXCEPT !.tool = TRUE] IN u \in Turns /\ u.of = t.of /\ u.kind = t.kind
         /\ LET u == [t EXCEPT !.failed = TRUE] IN u \in Turns /\ u.of = t.of /\ u.kind = t.kind
  <1>1. LET u == [t EXCEPT !.tool = TRUE] IN u \in Turns /\ u.of = t.of /\ u.kind = t.kind
    BY DEF Turns
  <1>2. LET u == [t EXCEPT !.failed = TRUE] IN u \in Turns /\ u.of = t.of /\ u.kind = t.kind
    BY DEF Turns
  <1> QED
    BY <1>1, <1>2

LEMMA NoTurnType == NoTurn \in Turns /\ NoTurn.of = {} /\ NoTurn.kind = "none"
  BY DEF NoTurn, Turns

LEMMA CLIKeepsTypes ==
  ASSUME CLITypes, CLINext
  PROVE  CLITypes'
  <1>0. /\ turn \in Turns /\ {} \in SUBSET Queries /\ turn.of \in SUBSET Queries
        /\ stdin \in Seq(Message) /\ stdout \in Seq(Line) /\ << >> \in Seq(Message)
        /\ cli \in {"up", "exited", "crashed"} /\ noteTurns \in 0..MaxNoteTurns
    BY SMT DEF CLITypes, Turns
  <1>1. /\ stdin' \in Seq(Message) /\ stdout' \in Seq(Line) /\ turn' \in Turns
        /\ cli' \in {"up", "exited", "crashed"} /\ noteTurns' \in 0..MaxNoteTurns
        => CLITypes'
    BY DEF CLITypes, Turns
  <1>2. CASE StartTurn
    <2>1. Head(stdin) \in Message /\ Tail(stdin) \in Seq(Message)
      BY <1>0, <1>2, HeadTypes DEF StartTurn
    <2>2. Written("init", {}) \o EchoOf(Head(stdin)) \in Seq(Line) /\ Asks(Head(stdin)) \in SUBSET Queries
      BY <1>0, <2>1, WrittenLines, EchoLines, ConcatTypes
    <2>3. stdout' \in Seq(Line)
      BY <1>2, <2>2, EmitTypes DEF StartTurn
    <2>4. turn' \in Turns
      <3>1. turn' = [NoTurn EXCEPT !.kind = "caller", !.of = Asks(Head(stdin))]
        BY <1>2 DEF StartTurn
      <3> QED
        BY <1>0, <2>2, <3>1, TurnUpdates, NoTurnType
    <2>5. stdin' = Tail(stdin) /\ UNCHANGED <<cli, noteTurns>>
      BY <1>2 DEF StartTurn
    <2> QED
      BY <1>0, <1>1, <2>1, <2>3, <2>4, <2>5
  <1>3. CASE StartNoteTurn
    <2>1. stdout' \in Seq(Line)
      BY <1>0, <1>3, WrittenLines, EmitTypes DEF StartNoteTurn
    <2>2. turn' \in Turns
      BY <1>0, <1>3, TurnUpdates, NoTurnType DEF StartNoteTurn
    <2>3. noteTurns' \in 0..MaxNoteTurns
      BY <1>0, <1>3, CLIAssumption DEF StartNoteTurn
    <2>4. UNCHANGED <<stdin, cli>>
      BY <1>3 DEF StartNoteTurn
    <2> QED
      BY <1>0, <1>1, <2>1, <2>2, <2>3, <2>4
  <1>4. CASE Fold
    <2>1. Head(stdin) \in Message /\ Tail(stdin) \in Seq(Message)
      BY <1>0, <1>4, HeadTypes DEF Fold
    <2>2. EchoOf(Head(stdin)) \in Seq(Line) /\ Asks(Head(stdin)) \in SUBSET Queries
      BY <2>1, EchoLines
    <2>3. stdout' \in Seq(Line)
      BY <1>4, <2>2, EmitTypes DEF Fold
    <2>4. turn' \in Turns
      <3>1. turn' = [turn EXCEPT !.of = @ \cup Asks(Head(stdin))]
        BY <1>4 DEF Fold
      <3> QED
        BY <1>0, <2>2, <3>1, TurnUpdates
    <2>5. stdin' = Tail(stdin) /\ UNCHANGED <<cli, noteTurns>>
      BY <1>4 DEF Fold
    <2> QED
      BY <1>0, <1>1, <2>1, <2>3, <2>4, <2>5
  <1>5. CASE CallTool \/ FailTurn
    <2>1. stdout' \in Seq(Line)
      BY <1>0, <1>5, WrittenLines, EmitTypes DEF CallTool, FailTurn
    <2>2. turn' \in Turns
      <3>1. turn' = [turn EXCEPT !.tool = TRUE] \/ turn' = [turn EXCEPT !.failed = TRUE]
        BY <1>5 DEF CallTool, FailTurn
      <3> QED
        BY <1>0, <3>1, TurnFlags
    <2>3. UNCHANGED <<stdin, cli, noteTurns>>
      BY <1>5 DEF CallTool, FailTurn
    <2> QED
      BY <1>0, <1>1, <2>1, <2>2, <2>3
  <1>6. CASE EndTurn
    <2>1. (turn.kind = "note") \in BOOLEAN
      OBVIOUS
    <2>2. stdout' \in Seq(Line)
      BY <1>0, <1>6, <2>1, WrittenLines, EmitTypes DEF EndTurn
    <2>3. turn' \in Turns /\ UNCHANGED <<stdin, cli, noteTurns>>
      BY <1>0, <1>6, TurnUpdates, NoTurnType DEF EndTurn
    <2> QED
      BY <1>0, <1>1, <2>2, <2>3
  <1>7. CASE Exit
    <2>1. turn' \in Turns /\ stdin' = << >> /\ cli' \in Exits /\ UNCHANGED <<stdout, noteTurns>>
      BY <1>0, <1>7, TurnUpdates, NoTurnType DEF Exit
    <2> QED
      BY <1>0, <1>1, <2>1, CLIAssumption
  <1> QED
    BY <1>2, <1>3, <1>4, <1>5, <1>6, <1>7 DEF CLINext

LEMMA ReadsTypes ==
  ASSUME CLITypes, NEW kind, Reads(kind)
  PROVE  /\ CLITypes' /\ Head(stdout) \in Line
         /\ Head(stdout).of \in SUBSET Queries /\ Head(stdout).note \in BOOLEAN
  <1>1. stdout # << >> /\ stdout' = Tail(stdout) /\ UNCHANGED <<stdin, turn, cli, noteTurns>>
    BY DEF Reads
  <1>2. Head(stdout) \in Line /\ Tail(stdout) \in Seq(Line)
    BY <1>1, HeadTypes DEF CLITypes
  <1> QED
    BY <1>1, <1>2, LineParts DEF CLITypes

Activities == {"idle", "thinking", "awaiting"}

\* An event, after the transition it causes if it causes one.
LEMMA WithTransitionTypes ==
  ASSUME NEW next \in Activities, NEW sev \in Router!Stamped, NEW pc,
         WithTransition(next, sev, pc)
  PROVE  /\ rlOut' \in Seq(Router!Stamped) /\ rlOut' # << >>
         /\ activity' = next /\ rlPc' = pc
         /\ \/ rlOut' = <<sev>>
            \/ /\ rlOut' = <<StampedAs(next, sev.ev.of, sev.gen), sev>>
               /\ StampedAs(next, sev.ev.of, sev.gen) \in Router!Stamped
  <1> DEFINE first == [sev EXCEPT !.ev = Ev(next, sev.ev.of)]
  <1>1. /\ first = StampedAs(next, sev.ev.of, sev.gen) /\ first \in Router!Stamped
    <2>1. Ev(next, sev.ev.of) \in SessionEvent
      BY StampedParts DEF Activities, Kinds
    <2> QED
      BY <2>1, StampedParts, StampedExcept, CLIAssumption DEF StampedAs
  <1>2. CASE activity = next
    <2>1. rlOut' = << >> \o <<sev>> /\ activity' = next /\ rlPc' = pc
      BY <1>2 DEF WithTransition
    <2>2. rlOut' = <<sev>>
      BY <2>1, PairConcat
    <2>3. <<sev>> \in Seq(Router!Stamped) /\ <<sev>> # << >>
      BY SequenceTypes
    <2> QED
      BY <2>1, <2>2, <2>3
  <1>3. CASE activity # next
    <2>1. rlOut' = <<first>> \o <<sev>> /\ activity' = next /\ rlPc' = pc
      BY <1>3 DEF WithTransition
    <2>2. rlOut' = <<StampedAs(next, sev.ev.of, sev.gen), sev>>
      BY <1>1, <2>1, PairConcat
    <2>3. rlOut' \in Seq(Router!Stamped) /\ rlOut' # << >>
      BY <1>1, <2>2, PairTypes
    <2> QED
      BY <1>1, <2>1, <2>2, <2>3
  <1> QED
    BY <1>2, <1>3

\* A stamped terminal event is all that is left to send.
LEMMA TerminalTypes ==
  ASSUME SessionTypes, NEW kind \in Kinds, NEW of \in SUBSET Queries, StampTerminal(kind, of)
  PROVE  /\ rlOut' = <<StampedAs(kind, of, activeGen)>>
         /\ rlOut' \in Seq(Router!Stamped) /\ rlOut' # << >> /\ rlPc' = "clear"
         /\ RouterTypes' /\ PumpTypes' /\ TickTypes' /\ CallTypes' /\ Counting'
         /\ QueryTypes' /\ UNCHANGED modeState /\ UserTypes'
  <1>1. StampedAs(kind, of, activeGen) \in Router!Stamped
    BY StampedType DEF SessionTypes, QueryTypes
  <1> QED
    BY <1>1, SequenceTypes, Frames DEF StampTerminal
LEMMA ReadLoopKeepsTypes ==
  ASSUME SessionTypes, ReadLoop
  PROVE  SessionTypes'
  <1>0. /\ CLITypes /\ LoopTypes /\ QueryTypes /\ ModeTypes /\ RouterTypes /\ PumpTypes
        /\ activeGen \in 0..MaxGen /\ 0 \in 0..MaxGen /\ rlOut \in Seq(Router!Stamped)
        /\ waited \in BOOLEAN
    BY CLIAssumption DEF SessionTypes, LoopTypes, QueryTypes
  <1>1. CASE ReadEcho
    <2>1. CLITypes'
      BY <1>0, <1>1, ReadsTypes DEF ReadEcho
    <2>2. QueryTypes' /\ UNCHANGED genCounter
      <3>1. /\ promptEchoed' = (promptEchoed \/ state = "running")
            /\ UNCHANGED <<state, activity, activeGen, genCounter>>
        BY <1>1 DEF ReadEcho
      <3>2. promptEchoed' \in BOOLEAN
        BY <3>1
      <3> QED
        BY <1>0, <3>1, <3>2 DEF QueryTypes
    <2> QED
      BY <1>1, <2>1, <2>2, Frames DEF ReadEcho, SessionTypes
  <1>2. CASE ReadInit
    <2>1. CLITypes'
      BY <1>0, <1>2, ReadsTypes DEF ReadInit
    <2>2. StampedAs("init", {}, activeGen) \in Router!Stamped
      BY <1>0, StampedType DEF Kinds
    <2>3. LoopTypes'
      BY <1>0, <1>2, <2>2, SequenceTypes DEF ReadInit, LoopTypes
    <2> QED
      BY <1>2, <2>1, <2>3, Frames DEF ReadInit, SessionTypes
  <1>3. CASE ReadTool
    <2>1. CLITypes' /\ Head(stdout).of \in SUBSET Queries
      BY <1>0, <1>3, ReadsTypes DEF ReadTool
    <2>2. StampedAs("tool", Head(stdout).of, activeGen) \in Router!Stamped
      BY <1>0, <2>1, StampedType DEF Kinds
    <2>3. /\ rlOut' \in Seq(Router!Stamped) /\ rlOut' # << >> /\ activity' = "awaiting"
      BY <1>3, <2>2, WithTransitionTypes DEF ReadTool, Activities
    <2>4. LoopTypes'
      BY <1>0, <1>3, <2>3 DEF ReadTool, LoopTypes
    <2>5. QueryTypes' /\ UNCHANGED genCounter
      BY <1>0, <1>3, <2>3 DEF ReadTool, QueryTypes
    <2> QED
      BY <1>3, <2>1, <2>4, <2>5, Frames DEF ReadTool, SessionTypes
  <1>4. CASE ReadHeldResult
    <2> DEFINE next == IF state = "running" THEN "thinking" ELSE "idle"
    <2>1. CLITypes' /\ Head(stdout).of \in SUBSET Queries
      BY <1>0, <1>4, ReadsTypes DEF ReadHeldResult
    <2>2. StampedAs("unsolicited", Head(stdout).of, 0) \in Router!Stamped
      BY <1>0, <2>1, StampedType DEF Kinds
    <2>3. rlOut' \in Seq(Router!Stamped) /\ rlOut' # << >> /\ activity' \in Activities
      <3>1. next \in Activities
        BY DEF Activities
      <3>2. WithTransition(next, StampedAs("unsolicited", Head(stdout).of, 0), "held")
        BY <1>4 DEF ReadHeldResult
      <3> HIDE DEF next
      <3> QED
        BY <2>2, <3>1, <3>2, WithTransitionTypes
    <2>4. LoopTypes'
      BY <1>0, <1>4, <2>3 DEF ReadHeldResult, LoopTypes
    <2>5. QueryTypes' /\ UNCHANGED genCounter
      BY <1>0, <1>4, <2>3 DEF ReadHeldResult, QueryTypes, Activities
    <2> QED
      BY <1>4, <2>1, <2>4, <2>5, Frames DEF ReadHeldResult, SessionTypes
  <1>5. CASE StampHeld
    <2> DEFINE gen == IF Len(rlOut) = 2 THEN activeGen ELSE rlOut[1].gen
    <2>1. rlOut # << >> /\ rlOut[1] \in Router!Stamped
      BY <1>0, <1>5, HeadTypes DEF StampHeld, LoopTypes
    <2>2. gen \in 0..MaxGen
      BY <1>0, <2>1, StampedParts
    <2>3. rlOut' = [rlOut EXCEPT ![1] = [rlOut[1] EXCEPT !.gen = gen]]
      BY <1>5 DEF StampHeld
    <2>4. [rlOut[1] EXCEPT !.gen = gen] \in Router!Stamped
      <3> HIDE DEF gen
      <3>1. rlOut[1].ev \in SessionEvent
        BY <2>1, StampedParts
      <3> QED
        BY <2>1, <2>2, <3>1, StampedExcept
    <2>5. rlOut' \in Seq(Router!Stamped) /\ rlOut' # << >>
      <3> HIDE DEF gen
      <3> QED
        BY <1>0, <2>1, <2>3, <2>4, FirstReplaced
    <2>6. LoopTypes'
      BY <1>0, <1>5, <2>5 DEF StampHeld, LoopTypes
    <2> QED
      BY <1>5, <2>6, Frames DEF StampHeld, SessionTypes
  <1>6. CASE ReadResult \/ ReadApiError
    <2>1. CLITypes' /\ Head(stdout).of \in SUBSET Queries
      BY <1>0, <1>6, ReadsTypes DEF ReadResult, ReadApiError
    <2>2. PICK kind \in {"result", "fatal"} : StampTerminal(kind, Head(stdout).of)
      BY <1>6 DEF ReadResult, ReadApiError
    <2>3. kind \in Kinds
      BY DEF Kinds
    <2>4. UNCHANGED <<waited, endState>>
      BY <1>6 DEF ReadResult, ReadApiError
    <2>5. LoopTypes'
      BY <1>0, <2>1, <2>2, <2>3, <2>4, TerminalTypes DEF LoopTypes
    <2> QED
      BY <2>1, <2>2, <2>3, <2>4, <2>5, TerminalTypes, Frames DEF SessionTypes
  <1>7. CASE ClearGen
    <2>1. LoopTypes'
      BY <1>0, <1>7 DEF ClearGen, LoopTypes
    <2>2. QueryTypes' /\ UNCHANGED genCounter
      BY <1>0, <1>7 DEF ClearGen, QueryTypes
    <2> QED
      BY <1>7, <2>1, <2>2, Frames DEF ClearGen, SessionTypes
  <1>8. CASE TrackState
    <2>1. LoopTypes'
      BY <1>0, <1>8 DEF TrackState, LoopTypes
    <2>2. QueryTypes' /\ UNCHANGED genCounter
      BY <1>0, <1>8 DEF TrackState, QueryTypes
    <2> QED
      BY <1>8, <2>1, <2>2, Frames DEF TrackState, SessionTypes
  <1>9. CASE ObserveTerminal
    <2>1. rlOut[1] \in Router!Stamped
      BY <1>0, <1>9, HeadTypes DEF ObserveTerminal, LoopTypes
    <2>2. rlOut' \in Seq(Router!Stamped) /\ rlOut' # << >> /\ activity' = "idle"
      BY <1>9, <2>1, WithTransitionTypes DEF ObserveTerminal, Activities
    <2>3. LoopTypes'
      BY <1>0, <1>9, <2>2 DEF ObserveTerminal, LoopTypes
    <2>4. QueryTypes' /\ UNCHANGED genCounter
      BY <1>0, <1>9, <2>2 DEF ObserveTerminal, QueryTypes
    <2> QED
      BY <1>9, <2>3, <2>4, Frames DEF ObserveTerminal, SessionTypes
  <1>10. CASE Push
    <2>1. rlOut # << >> /\ Head(rlOut) \in Router!Stamped /\ Tail(rlOut) \in Seq(Router!Stamped)
      BY <1>0, <1>10, HeadTypes DEF Push, LoopTypes
    <2>2. PumpTypes'
      <3>1. /\ pump' = pump \/ (Len(pump) < PumpCap /\ pump' = Append(pump, Head(rlOut)))
            /\ UNCHANGED <<pumpClosed, pumpPc, pumpEv, events>>
        BY <1>10 DEF Push
      <3>2. pump' \in Seq(Router!Stamped) /\ Len(pump') <= PumpCap
        BY <1>0, <2>1, <3>1, CapTypes, RoomTypes DEF PumpTypes
      <3> QED
        BY <1>0, <3>1, <3>2 DEF PumpTypes
    <2>3. LoopTypes'
      BY <1>0, <1>10, <2>1 DEF Push, LoopTypes
    <2>4. TickTypes'
      <3>1. ticker' \in {TRUE, FALSE, ticker} /\ UNCHANGED <<tickPc, tickOut, ticks>>
        BY <1>10 DEF Push
      <3>2. ticker' \in BOOLEAN
        BY <3>1 DEF SessionTypes, TickTypes
      <3> QED
        BY <3>1, <3>2 DEF SessionTypes, TickTypes
    <2> QED
      BY <1>10, <2>2, <2>3, <2>4, Frames DEF Push, SessionTypes
  <1>11. CASE WaitProcess
    <2>1. waited' = TRUE /\ stdinOpen' = FALSE /\ waited' \in BOOLEAN /\ stdinOpen' \in BOOLEAN
      BY <1>11 DEF WaitProcess
    <2>2. CASE cli = "crashed"
      <3>1. StampTerminal("fatal", {}) /\ "fatal" \in Kinds /\ {} \in SUBSET Queries
        BY <1>11, <2>2 DEF WaitProcess, Kinds
      <3>2. LoopTypes'
        BY <2>1, <3>1, TerminalTypes DEF LoopTypes
      <3>3. ModeTypes'
        BY <1>0, <1>11, <2>1, <3>1, TerminalTypes DEF WaitProcess, ModeTypes, modeState
      <3> QED
        BY <1>11, <3>1, <3>2, <3>3, TerminalTypes, Frames DEF WaitProcess, SessionTypes
    <2>3. CASE cli # "crashed"
      <3>1. LoopTypes'
        BY <1>0, <1>11, <2>1, <2>3 DEF WaitProcess, LoopTypes
      <3>2. ModeTypes'
        BY <1>0, <1>11, <2>1, <2>3 DEF WaitProcess, ModeTypes, modeState
      <3> QED
        BY <1>11, <2>3, <3>1, <3>2, Frames DEF WaitProcess, SessionTypes
    <2> QED
      BY <2>2, <2>3
  <1>12. CASE ClosePump
    <2>1. /\ ticker' \in BOOLEAN /\ pumpClosed' \in BOOLEAN
      BY <1>12 DEF ClosePump
    <2>2. PumpTypes' /\ TickTypes'
      BY <1>0, <1>12, <2>1 DEF ClosePump, PumpTypes, TickTypes, SessionTypes
    <2>3. LoopTypes'
      BY <1>0, <1>12 DEF ClosePump, LoopTypes
    <2> QED
      BY <1>12, <2>2, <2>3, Frames DEF ClosePump, SessionTypes
  <1>13. CASE StampExit
    <2>1. StampTerminal("exit", {}) /\ "exit" \in Kinds /\ {} \in SUBSET Queries
      BY <1>13 DEF StampExit, Kinds
    <2>2. LoopTypes'
      BY <1>0, <1>13, <2>1, TerminalTypes DEF StampExit, LoopTypes
    <2> QED
      BY <1>13, <2>1, <2>2, TerminalTypes, Frames DEF StampExit, SessionTypes
  <1>14. CASE DeliverExit
    <2>1. rlOut[1] \in Router!Stamped
      BY <1>0, <1>14, HeadTypes DEF DeliverExit, LoopTypes
    <2>2. RouterTypes'
      BY <1>0, <1>14, <2>1, RouteTypes, Frames DEF DeliverExit
    <2>3. PumpTypes'
      <3>1. /\ events' = events \/ (Len(events) < EventsCap /\ events' = Append(events, rlOut[1]))
            /\ UNCHANGED <<pump, pumpClosed, pumpPc, pumpEv>>
        BY <1>14 DEF DeliverExit
      <3>2. events' \in Seq(Router!Stamped) /\ Len(events') <= EventsCap
        BY <1>0, <2>1, <3>1, CapTypes, RoomTypes DEF PumpTypes
      <3> QED
        BY <1>0, <3>1, <3>2 DEF PumpTypes
    <2>4. LoopTypes'
      BY <1>0, <1>14 DEF DeliverExit, LoopTypes
    <2> QED
      BY <1>14, <2>2, <2>3, <2>4, Frames DEF DeliverExit, SessionTypes
  <1>15. CASE CheckRouted
    <2>1. LoopTypes'
      BY <1>0, <1>15 DEF CheckRouted, LoopTypes
    <2> QED
      BY <1>15, <2>1, Frames DEF CheckRouted, SessionTypes
  <1>16. CASE Shutdown
    <2>1. LoopTypes'
      BY <1>0, <1>16 DEF Shutdown, LoopTypes
    <2>2. RouterTypes'
      BY <1>0, <1>16, ShutdownTypes DEF Shutdown
    <2> QED
      BY <1>16, <2>1, <2>2, Frames DEF Shutdown, SessionTypes
  <1>17. CASE Finish
    <2>1. LoopTypes'
      BY <1>0, <1>17 DEF Finish, LoopTypes
    <2>2. QueryTypes' /\ UNCHANGED genCounter
      BY <1>0, <1>17 DEF Finish, QueryTypes
    <2> QED
      BY <1>17, <2>1, <2>2, Frames DEF Finish, SessionTypes
  <1> QED
    BY <1>1, <1>2, <1>3, <1>4, <1>5, <1>6, <1>7, <1>8, <1>9, <1>10, <1>11, <1>12,
       <1>13, <1>14, <1>15, <1>16, <1>17 DEF ReadLoop
-----------------------------------------------------------------------------
(* The steps of the pump, of the ticker, of callers and of consumers       *)

LEMMA PumpKeepsTypes ==
  ASSUME SessionTypes, Pump
  PROVE  SessionTypes'
  <1>0. /\ PumpTypes /\ RouterTypes /\ << >> \in Seq(Router!Stamped)
        /\ pump \in Seq(Router!Stamped) /\ pumpEv \in Seq(Router!Stamped)
        /\ events \in Seq(Router!Stamped)
    BY DEF SessionTypes, PumpTypes
  <1>1. CASE PumpTake
    <2>1. Head(pump) \in Router!Stamped /\ Tail(pump) \in Seq(Router!Stamped)
          /\ Len(Tail(pump)) <= Len(pump)
      BY <1>0, <1>1, HeadTypes DEF PumpTake
    <2>2. Len(Tail(pump)) <= PumpCap
      BY <1>0, <2>1, CapTypes DEF PumpTypes
    <2>3. PumpTypes'
      BY <1>0, <1>1, <2>1, <2>2, SequenceTypes DEF PumpTake, PumpTypes
    <2> QED
      BY <1>1, <2>3, Frames DEF PumpTake, SessionTypes
  <1>2. CASE PumpRoute
    <2>1. pumpEv[1] \in Router!Stamped
      BY <1>0, <1>2, HeadTypes DEF PumpRoute, PumpTypes
    <2>2. RouterTypes'
      BY <1>0, <1>2, <2>1, RouteTypes DEF PumpRoute
    <2>3. PumpTypes'
      BY <1>0, <1>2 DEF PumpRoute, PumpTypes
    <2> QED
      BY <1>2, <2>2, <2>3, Frames DEF PumpRoute, SessionTypes
  <1>3. CASE PumpUnrouted \/ PumpFlushed \/ PumpStop
    <2>1. PumpTypes'
      BY <1>0, <1>3 DEF PumpUnrouted, PumpFlushed, PumpStop, PumpTypes
    <2> QED
      BY <1>3, <2>1, Frames DEF PumpUnrouted, PumpFlushed, PumpStop, SessionTypes
  <1>4. CASE PumpSend
    <2>1. pumpEv[1] \in Router!Stamped
      BY <1>0, <1>4, HeadTypes DEF PumpSend, PumpTypes
    <2>2. events' = events \/ (Len(events) < EventsCap /\ events' = Append(events, pumpEv[1]))
      BY <1>4 DEF PumpSend
    <2>3. events' \in Seq(Router!Stamped) /\ Len(events') <= EventsCap
      BY <1>0, <2>1, <2>2, CapTypes, RoomTypes DEF PumpTypes
    <2>4. PumpTypes'
      BY <1>0, <1>4, <2>3 DEF PumpSend, PumpTypes
    <2> QED
      BY <1>4, <2>4, Frames DEF PumpSend, SessionTypes
  <1>5. CASE PumpBarrier
    <2>1. PumpTypes'
      BY <1>0, <1>5 DEF PumpBarrier, PumpTypes
    <2> QED
      BY <1>5, <2>1, Frames DEF PumpBarrier, SessionTypes
  <1>6. CASE PumpFlush
    <2>1. /\ Head(events) \in Router!Stamped /\ Tail(events) \in Seq(Router!Stamped)
          /\ Len(Tail(events)) = Len(events) - 1 /\ Len(events) \in Nat
      BY <1>0, <1>6, HeadTypes DEF PumpFlush
    <2>2. RouterTypes'
      BY <1>0, <1>6, <2>1, StampedParts, FlushTypes DEF PumpFlush
    <2>3. PumpTypes'
      BY <1>0, <1>6, <2>1, CapTypes DEF PumpFlush, PumpTypes
    <2> QED
      BY <1>6, <2>2, <2>3, Frames DEF PumpFlush, SessionTypes
  <1>7. CASE Evict
    BY <1>0, <1>7, EvictTypes, Frames DEF Evict, SessionTypes
  <1> QED
    BY <1>1, <1>2, <1>3, <1>4, <1>5, <1>6, <1>7 DEF Pump

LEMMA SendSelectTypes ==
  ASSUME PumpTypes, NEW sev \in Router!Stamped, SendSelect(sev),
         UNCHANGED <<pumpClosed, pumpPc, pumpEv, events>>
  PROVE  PumpTypes'
  <1>1. pump' = pump \/ (Len(pump) < PumpCap /\ pump' = Append(pump, sev))
    BY DEF SendSelect
  <1>2. pump' \in Seq(Router!Stamped) /\ Len(pump') <= PumpCap
    BY <1>1, CapTypes, RoomTypes DEF PumpTypes
  <1> QED
    BY <1>2 DEF PumpTypes

LEMMA TickerKeepsTypes ==
  ASSUME SessionTypes, Ticker
  PROVE  SessionTypes'
  <1>0. TickTypes /\ PumpTypes /\ activeGen \in 0..MaxGen
    BY DEF SessionTypes, QueryTypes
  <1>1. CASE TickRead
    <2>1. TickTypes'
      BY <1>0, <1>1 DEF TickRead, TickTypes
    <2> QED
      BY <1>1, <2>1, Frames DEF TickRead, SessionTypes
  <1>2. CASE TickStamp
    <2>1. StampedAs("tick", {}, activeGen) \in Router!Stamped
      BY <1>0, StampedType DEF Kinds
    <2>2. TickTypes'
      <3>1. tickOut' = tickOut \/ tickOut' = <<StampedAs("tick", {}, activeGen)>>
        BY <1>2 DEF TickStamp
      <3>2. /\ <<StampedAs("tick", {}, activeGen)>> \in Seq(Router!Stamped)
            /\ <<StampedAs("tick", {}, activeGen)>> # << >>
        BY <2>1, SequenceTypes
      <3>3. ticker' = ticker /\ (tickPc' = "send" => tickOut' # << >>)
        BY <1>2, <3>2 DEF TickStamp
      <3> QED
        BY <1>0, <3>1, <3>2, <3>3 DEF TickTypes
    <2> QED
      BY <1>2, <2>2, Frames DEF TickStamp, SessionTypes
  <1>3. CASE TickSend
    <2>1. tickOut[1] \in Router!Stamped /\ << >> \in Seq(Router!Stamped)
      BY <1>0, <1>3, HeadTypes DEF TickSend, TickTypes
    <2>2. PumpTypes'
      BY <1>0, <1>3, <2>1, SendSelectTypes DEF TickSend
    <2>3. TickTypes'
      BY <1>0, <1>3, <2>1 DEF TickSend, TickTypes
    <2> QED
      BY <1>3, <2>2, <2>3, Frames DEF TickSend, SessionTypes
  <1> QED
    BY <1>1, <1>2, <1>3 DEF Ticker

LEMMA CallUpdated ==
  ASSUME NEW k, NEW pc, NEW op, NEW gen, NEW out, NEW new,
         k = [pc |-> pc, op |-> op, gen |-> gen, out |-> out]
  PROVE  /\ [k EXCEPT !.op = new] = [pc |-> pc, op |-> new, gen |-> gen, out |-> out]
         /\ [k EXCEPT !.pc = new] = [pc |-> new, op |-> op, gen |-> gen, out |-> out]
  OBVIOUS

LEMMA NoCallUpdated ==
  ASSUME NEW op, NEW pc
  PROVE  [NoCall EXCEPT !.op = op, !.pc = pc] = [pc |-> pc, op |-> op, gen |-> 0, out |-> << >>]
  <1>1. [NoCall EXCEPT !.op = op] = [pc |-> "idle", op |-> op, gen |-> 0, out |-> << >>]
    BY CallUpdated DEF NoCall
  <1>2. PICK k : k = [NoCall EXCEPT !.op = op]
    OBVIOUS
  <1>3. k = [pc |-> "idle", op |-> op, gen |-> 0, out |-> << >>]
    BY <1>1, <1>2
  <1>4. [k EXCEPT !.pc = pc] = [pc |-> pc, op |-> op, gen |-> 0, out |-> << >>]
    BY <1>3, CallUpdated
  <1> QED
    BY <1>2, <1>4

\* A call starts with nothing to send, and with a generation to be counted if
\* it is a QueryCtx.
LEMMA StartKeepsTypes ==
  ASSUME SessionTypes, NEW c \in Callers, StartCall(c)
  PROVE  SessionTypes'
  <1>0. CallTypes /\ Counting
    BY DEF SessionTypes
  <1>1. PICK op \in {"QueryCtx", "Query", "SendMessage"} :
          call' = [call EXCEPT ![c] = [NoCall EXCEPT !.op = op, !.pc =
                    CASE op = "QueryCtx" -> "enable"
                      [] op = "Query" -> "prepare"
                      [] op = "SendMessage" -> "validate"]]
    BY SessionAssumption DEF StartCall
  <1> DEFINE pc == CASE op = "QueryCtx" -> "enable"
                     [] op = "Query" -> "prepare"
                     [] op = "SendMessage" -> "validate"
             k == [pc |-> pc, op |-> op, gen |-> 0, out |-> << >>]
  <1>2. call' = [call EXCEPT ![c] = k]
    BY <1>1, NoCallUpdated
  <1>3. CallOK(k)
    BY CLIAssumption DEF CallOK, CallRecord, Holding, Marked
  <1>4. CallTypes'
    <2> HIDE DEF k
    <2> QED
      BY <1>0, <1>2, <1>3, ReplaceCall
  <1>5. /\ calls' = calls + 1 /\ calls < MaxCalls /\ UNCHANGED genCounter
        /\ call[c].pc = "idle"
    BY DEF StartCall, queryState
  <1>6. Counting'
    <2>1. call[c].op = "none"
      BY <1>0, <1>5, CallParts DEF CallOK
    <2>2. Uncounted' = IF op = "QueryCtx" THEN Uncounted \cup {c} ELSE Uncounted
      BY <1>0, <1>2, <2>1 DEF Uncounted, CallTypes
    <2>3. c \notin Uncounted
      BY <2>1 DEF Uncounted
    <2>4. /\ IsFiniteSet(Uncounted \cup {c})
          /\ Cardinality(Uncounted \cup {c}) = Cardinality(Uncounted) + 1
          /\ Cardinality(Uncounted) \in Nat
      BY <1>0, <2>3, FS_AddElement, FS_CardinalityType DEF Counting
    <2>5. IsFiniteSet(Uncounted') /\ Cardinality(Uncounted') <= Cardinality(Uncounted) + 1
          /\ Cardinality(Uncounted') \in Nat
      BY <1>0, <2>2, <2>4 DEF Counting
    <2> QED
      BY <1>0, <1>5, <2>4, <2>5, SessionAssumption DEF Counting
  <1> QED
    BY <1>4, <1>6, Frames DEF StartCall, SessionTypes
\* A call moves to a step that fits its operation and its generation.
LEMMA MovedOK ==
  ASSUME CallTypes, NEW c \in Callers, NEW pc, NEW out \in Seq(Router!Stamped)
  PROVE  /\ call[c].op = "QueryCtx" /\ call[c].gen # 0
              /\ pc \in {"arm", "store", "mark", "write", "fail", "failState", "detach"}
            => CallOK(Moved(c, pc, out))
         /\ call[c].op = "QueryCtx" /\ call[c].gen = 0 /\ pc \in {"prepare", "count"}
            => CallOK(Moved(c, pc, out))
         /\ call[c].op = "QueryCtx" /\ call[c].gen = 0 /\ pc \in {"stamp", "send"}
              /\ out # << >> /\ out[1].ev.kind = "barrier"
            => CallOK(Moved(c, pc, out))
         /\ call[c].op # "none" /\ (call[c].op = "QueryCtx" => call[c].gen # 0)
              /\ pc \in {"stamp", "send"} /\ out # << >> /\ out[1].ev.kind # "barrier"
            => CallOK(Moved(c, pc, out))
         /\ call[c].op \notin {"none", "QueryCtx"} /\ pc \in {"mark", "write"}
            => CallOK(Moved(c, pc, out))
  <1>1. /\ call[c].op \in {"none", "QueryCtx", "Query", "SendMessage"} /\ call[c].gen \in 0..MaxGen
        /\ call[c].op # "QueryCtx" => call[c].gen = 0
    BY DEF CallTypes, CallOK, CallRecord
  <1> DEFINE k == Moved(c, pc, out)
  <1>2. k.pc = pc /\ k.op = call[c].op /\ k.gen = call[c].gen /\ k.out = out
    BY DEF Moved
  <1>3. pc \in {"arm", "store", "mark", "write", "fail", "failState", "detach", "prepare", "count",
                "stamp", "send"} => k \in CallRecord
    BY <1>1 DEF Moved, CallRecord
  <1> HIDE DEF k
  <1>4. /\ k.op = "QueryCtx" /\ k.gen # 0
             /\ k.pc \in {"arm", "store", "mark", "write", "fail", "failState", "detach"}
           => CallOK(k)
        /\ k.op = "QueryCtx" /\ k.gen = 0 /\ k.pc \in {"prepare", "count"} => CallOK(k)
    BY <1>1, <1>2, <1>3 DEF CallOK, Holding, Marked
  <1>5. /\ k.op = "QueryCtx" /\ k.gen = 0 /\ k.pc \in {"stamp", "send"}
             /\ k.out # << >> /\ k.out[1].ev.kind = "barrier"
           => CallOK(k)
        /\ k.op # "none" /\ (k.op = "QueryCtx" => k.gen # 0)
             /\ k.pc \in {"stamp", "send"} /\ k.out # << >> /\ k.out[1].ev.kind # "barrier"
           => CallOK(k)
        /\ k.op \notin {"none", "QueryCtx"} /\ k.pc \in {"mark", "write"} => CallOK(k)
    BY <1>1, <1>2, <1>3 DEF CallOK, Holding, Marked
  <1> QED
    BY <1>2, <1>4, <1>5 DEF k

\* A call that sends the barrier has no generation yet; one that sends its
\* activity transition has it if it is a QueryCtx.
LEMMA SendingParts ==
  ASSUME CallTypes, NEW c \in Callers, call[c].pc \in {"stamp", "send"}
  PROVE  /\ call[c].out # << >> /\ call[c].out[1] \in Router!Stamped
         /\ call[c].out[1].ev.kind = "barrier" => call[c].op = "QueryCtx" /\ call[c].gen = 0
         /\ call[c].out[1].ev.kind # "barrier" =>
              call[c].op # "none" /\ (call[c].op = "QueryCtx" => call[c].gen # 0)
         /\ << >> \in Seq(Router!Stamped)
  <1>1. CallOK(call[c]) /\ call[c].out \in Seq(Router!Stamped) /\ call[c].out # << >>
    BY CallParts DEF CallOK
  <1>2. call[c].out[1] \in Router!Stamped
    BY <1>1, HeadTypes
  <1> QED
    BY <1>1, <1>2 DEF CallOK, Holding, Marked

LEMMA AfterSendTypes ==
  ASSUME SessionTypes, NEW c \in Callers, call[c].pc \in {"stamp", "send"},
         AfterSend(c, "write"), UNCHANGED calls, UNCHANGED genCounter, UNCHANGED endState,
         UNCHANGED routed
  PROVE  CallTypes' /\ Counting' /\ ModeTypes'
  <1>0. CallTypes /\ ModeTypes
    BY DEF SessionTypes
  <1>1. ModeTypes'
    BY <1>0 DEF AfterSend, ModeTypes, endState
  <1>2. CASE call[c].out[1].ev.kind = "barrier"
    <2>1. Sends(c, "prepare", << >>)
      BY <1>2 DEF AfterSend, Sends
    <2>2. CallOK(Moved(c, "prepare", << >>))
      BY <1>0, <1>2, SendingParts, MovedOK
    <2> QED
      BY <1>0, <1>1, <2>1, <2>2, MovedForms, MoveTypes
  <1>3. CASE call[c].out[1].ev.kind # "barrier"
    <2>1. Sends(c, "write", << >>)
      BY <1>3 DEF AfterSend, Sends
    <2>2. CallOK(Moved(c, "write", << >>))
      BY <1>0, <1>3, SendingParts, MovedOK
    <2> QED
      BY <1>0, <1>1, <2>1, <2>2, MovedForms, MoveTypes
  <1> QED
    BY <1>2, <1>3

\* The generation of a call that arms, holds or gives up a handle.
LEMMA HoldingParts ==
  ASSUME CallTypes, NEW c \in Callers
  PROVE  /\ call[c].pc \in {"arm", "store", "fail", "failState", "detach"}
            => call[c].op = "QueryCtx" /\ call[c].gen \in Queries /\ call[c].gen # 0
         /\ call[c].pc \in {"mark", "write"} /\ call[c].op = "QueryCtx"
            => call[c].gen \in Queries /\ call[c].gen # 0
         /\ call[c].pc \in {"enable", "count"} => call[c].op = "QueryCtx" /\ call[c].gen = 0
         /\ call[c].pc = "prepare" /\ call[c].op = "QueryCtx" => call[c].gen = 0
         /\ call[c].pc # "idle" => call[c].op # "none"
         /\ call[c].pc = "validate" => call[c].op # "QueryCtx"
  <1>1. CallOK(call[c]) /\ call[c].gen \in 0..MaxGen
    BY CallParts
  <1>2. call[c].gen # 0 => call[c].gen \in Queries
    BY <1>1, RouterFacts
  <1> QED
    BY <1>1, <1>2 DEF CallOK, Holding, Marked

\* A call gets its generation.
LEMMA CountedForm ==
  ASSUME CallTypes, NEW c \in Callers, NEW gen
  PROVE  [call EXCEPT ![c].pc = "arm", ![c].gen = gen]
           = [call EXCEPT ![c] = [pc |-> "arm", op |-> call[c].op, gen |-> gen, out |-> call[c].out]]
  <1>1. DOMAIN call = Callers /\ call[c] \in CallRecord
    BY CallParts DEF CallTypes
  <1>2. [call[c] EXCEPT !.pc = "arm"] = Moved(c, "arm", call[c].out)
    BY <1>1 DEF CallRecord, Moved
  <1>3. [Moved(c, "arm", call[c].out) EXCEPT !.gen = gen]
          = [pc |-> "arm", op |-> call[c].op, gen |-> gen, out |-> call[c].out]
    BY DEF Moved
  <1>4. [call EXCEPT ![c].pc = "arm", ![c].gen = gen]
          = [call EXCEPT ![c] = [[call[c] EXCEPT !.pc = "arm"] EXCEPT !.gen = gen]]
    BY <1>1
  <1> QED
    BY <1>2, <1>3, <1>4

\* A write appends a message to stdin, if the CLI still reads it.
LEMMA SessionWrites ==
  ASSUME CLITypes, NEW gen \in 0..MaxGen, NEW slash \in BOOLEAN,
         Receives([q |-> gen, slash |-> slash]) \/ UNCHANGED stdin,
         UNCHANGED <<stdout, turn, cli, noteTurns>>
  PROVE  CLITypes'
  <1> DEFINE m == [q |-> gen, slash |-> slash]
  <1>1. m \in Message
    BY DEF Message
  <1>2. stdin' = stdin \/ stdin' = Append(stdin, m)
    BY DEF Receives
  <1> HIDE DEF m
  <1>3. stdin' \in Seq(Message)
    <2>1. stdin \in Seq(Message)
      BY DEF CLITypes
    <2>2. Append(stdin, m) \in Seq(Message)
      BY <1>1, <2>1, SequenceTypes
    <2> QED
      BY <1>2, <2>1, <2>2
  <1> QED
    BY <1>3 DEF CLITypes

LEMMA CallKeepsTypes ==
  ASSUME SessionTypes, NEW c \in Callers, CallStep(c)
  PROVE  SessionTypes'
  <1>0. /\ CallTypes /\ ModeTypes /\ QueryTypes /\ PumpTypes /\ RouterTypes /\ CLITypes
        /\ Counting /\ UserTypes
        /\ activeGen \in 0..MaxGen /\ 0 \in 0..MaxGen /\ << >> \in Seq(Router!Stamped)
        /\ call[c].out \in Seq(Router!Stamped) /\ call[c].gen \in 0..MaxGen
    <2>1. CallTypes /\ QueryTypes /\ << >> \in Seq(Router!Stamped)
      BY DEF SessionTypes
    <2>2. call[c].out \in Seq(Router!Stamped) /\ call[c].gen \in 0..MaxGen
      BY <2>1, CallParts
    <2> QED
      BY <2>1, <2>2, CLIAssumption DEF SessionTypes, QueryTypes
  <1>1. CASE EnableRouting(c)
    <2>0. call[c].op = "QueryCtx" /\ call[c].gen = 0 /\ UNCHANGED calls /\ UNCHANGED genCounter
      BY <1>0, <1>1, HoldingParts DEF EnableRouting, queryState
    <2>1. ASSUME Sends(c, "stamp", <<StampedAs("barrier", {}, 0)>>)
          PROVE  CallTypes' /\ Counting'
      <3> DEFINE b == StampedAs("barrier", {}, 0)
      <3>1. b \in Router!Stamped /\ b.ev.kind = "barrier"
        BY <1>0, StampedType DEF Kinds, StampedAs, Ev
      <3>2. Sends(c, "stamp", <<b>>)
        BY <2>1 DEF Sends
      <3> HIDE DEF b
      <3>3. <<b>> \in Seq(Router!Stamped) /\ <<b>> # << >> /\ <<b>>[1] = b
        BY <1>0, <3>1, SequenceTypes
      <3>4. CallOK(Moved(c, "stamp", <<b>>))
        BY <1>0, <2>0, <3>1, <3>3, MovedOK
      <3> QED
        BY <1>0, <2>0, <3>2, <3>4, MovedForms, MoveTypes
    <2>2. ASSUME Goto(c, "prepare")
          PROVE  CallTypes' /\ Counting'
      <3>1. CallOK(Moved(c, "prepare", call[c].out))
        BY <1>0, <2>0, MovedOK
      <3> QED
        BY <2>0, <2>2, <3>1, GotoTypes
    <2>3. CallTypes' /\ Counting'
      <3>1. Sends(c, "stamp", <<StampedAs("barrier", {}, 0)>>) \/ Goto(c, "prepare")
        BY <1>1 DEF EnableRouting, Sends
      <3> QED
        BY <2>1, <2>2, <3>1
    <2>4. ModeTypes'
      <3>1. routed' \in {TRUE, routed} /\ enabling' \in {"now", enabling} /\ UNCHANGED endState
        BY <1>1 DEF EnableRouting, modeState
      <3> QED
        BY <1>0, <3>1 DEF ModeTypes, endState
    <2> QED
      BY <1>1, <2>3, <2>4, Frames DEF EnableRouting, SessionTypes
  <1>2. CASE CallStamp(c)
    <2>0. /\ UNCHANGED calls /\ UNCHANGED genCounter /\ UNCHANGED endState /\ UNCHANGED routed
          /\ call[c].pc = "stamp"
      BY <1>2 DEF CallStamp, queryState
    <2>1. CASE pumpClosed
      <3>1. CallTypes' /\ Counting' /\ ModeTypes'
        BY <1>2, <2>0, <2>1, AfterSendTypes DEF CallStamp
      <3> QED
        BY <1>2, <3>1, Frames DEF CallStamp, SessionTypes
    <2>2. CASE ~pumpClosed
      <3> DEFINE first == [call[c].out[1] EXCEPT !.gen = activeGen]
                 out == [call[c].out EXCEPT ![1] = first]
      <3>1. /\ call[c].out # << >> /\ call[c].out[1] \in Router!Stamped
            /\ call[c].out[1].ev \in SessionEvent
        BY <1>0, <2>0, SendingParts, StampedParts
      <3>2. first \in Router!Stamped /\ first.ev = call[c].out[1].ev
        BY <1>0, <3>1 DEF Router!Stamped
      <3>3. call' = [call EXCEPT ![c] = Moved(c, "send", out)]
        <4>1. Sends(c, "send", out)
          BY <1>2, <2>2 DEF CallStamp, Sends
        <4> HIDE DEF out
        <4> QED
          BY <1>0, <4>1, MovedForms
      <3> HIDE DEF first
      <3>4. out \in Seq(Router!Stamped) /\ out # << >> /\ out[1] = first
        BY <1>0, <3>1, <3>2, FirstReplaced
      <3> HIDE DEF out
      <3>5. CallOK(Moved(c, "send", out))
        BY <1>0, <2>0, <3>2, <3>4, SendingParts, MovedOK
      <3>6. CallTypes' /\ Counting'
        BY <2>0, <3>3, <3>5, MoveTypes
      <3>7. ModeTypes'
        BY <1>0, <1>2, <2>0, <2>2 DEF CallStamp, ModeTypes, endState
      <3> QED
        BY <1>2, <3>6, <3>7, Frames DEF CallStamp, SessionTypes
    <2> QED
      BY <2>1, <2>2
  <1>3. CASE CallSend(c)
    <2>1. /\ UNCHANGED calls /\ UNCHANGED genCounter /\ UNCHANGED endState /\ UNCHANGED routed
          /\ call[c].pc = "send" /\ AfterSend(c, "write")
      BY <1>3 DEF CallSend, queryState
    <2>2. CallTypes' /\ Counting' /\ ModeTypes'
      BY <2>1, AfterSendTypes
    <2>3. PumpTypes'
      BY <1>0, <1>3, <2>1, SendingParts, SendSelectTypes DEF CallSend
    <2> QED
      BY <1>3, <2>2, <2>3, Frames DEF CallSend, SessionTypes
  <1>4. CASE PrepareQuery(c)
    <2>0. /\ UNCHANGED calls /\ UNCHANGED genCounter
          /\ UNCHANGED activity /\ UNCHANGED activeGen /\ call[c].pc = "prepare"
      BY <1>4 DEF PrepareQuery
    <2>1. ASSUME state = "idle" /\ IsQueryCtx(c)
          PROVE  CallTypes' /\ Counting'
      <3>1. Goto(c, "count")
        BY <1>4, <2>1 DEF PrepareQuery
      <3>2. CallOK(Moved(c, "count", call[c].out))
        BY <1>0, <2>0, <2>1, HoldingParts, MovedOK DEF IsQueryCtx
      <3> QED
        BY <2>0, <3>1, <3>2, GotoTypes
    <2>2. ASSUME state = "idle" /\ ~IsQueryCtx(c)
          PROVE  CallTypes' /\ Counting'
      <3>1. Goto(c, "mark")
        BY <1>4, <2>2 DEF PrepareQuery
      <3>2. CallOK(Moved(c, "mark", call[c].out))
        BY <1>0, <2>0, <2>2, HoldingParts, MovedOK DEF IsQueryCtx
      <3> QED
        BY <2>0, <3>1, <3>2, GotoTypes
    <2>3. ASSUME state # "idle"
          PROVE  CallTypes' /\ Counting'
      BY <1>4, <2>0, <2>3, ReturnTypes DEF PrepareQuery
    <2>4. CallTypes' /\ Counting'
      BY <2>1, <2>2, <2>3
    <2>5. QueryTypes'
      <3>1. state' \in {"running", state} /\ promptEchoed' \in {FALSE, promptEchoed}
        BY <1>4 DEF PrepareQuery
      <3> QED
        BY <1>0, <2>0, <3>1 DEF QueryTypes
    <2> QED
      BY <1>4, <2>4, <2>5, Frames DEF PrepareQuery, SessionTypes
  <1>5. CASE ValidateSendable(c)
    <2>0. UNCHANGED calls /\ UNCHANGED genCounter /\ call[c].pc = "validate"
      BY <1>5 DEF ValidateSendable, queryState
    <2>1. CallOK(Moved(c, "mark", call[c].out))
      BY <1>0, <2>0, HoldingParts, MovedOK
    <2>2. CallTypes' /\ Counting'
      BY <1>5, <2>0, <2>1, GotoTypes, ReturnTypes DEF ValidateSendable
    <2> QED
      BY <1>5, <2>2, Frames DEF ValidateSendable, SessionTypes
  <1>6. CASE CountGen(c)
    <2> DEFINE k == [pc |-> "arm", op |-> call[c].op, gen |-> genCounter + 1, out |-> call[c].out]
    <2>0. /\ UNCHANGED calls /\ genCounter' = genCounter + 1 /\ call[c].pc = "count"
          /\ call[c].op = "QueryCtx" /\ call[c].gen = 0
      BY <1>0, <1>6, HoldingParts DEF CountGen
    <2>1. call' = [call EXCEPT ![c] = k]
      BY <1>0, <1>6, CountedForm DEF CountGen
    <2>2. c \in Uncounted
      BY <2>0 DEF Uncounted
    <2>3. genCounter + 1 \in 1..MaxGen /\ Counting'
      <3>1. ~(k.op = "QueryCtx" /\ k.gen = 0)
        BY <1>0 DEF Counting
      <3> HIDE DEF k
      <3> QED
        BY <1>0, <2>0, <2>1, <2>2, <3>1, OneCounted
    <2>4. CallOK(k)
      BY <1>0, <2>0, <2>3 DEF CallOK, CallRecord, Holding, Marked
    <2>5. CallTypes'
      <3> HIDE DEF k
      <3> QED
        BY <1>0, <2>1, <2>4, ReplaceCall
    <2>6. QueryTypes'
      BY <1>0, <1>6 DEF CountGen, QueryTypes
    <2> QED
      BY <1>6, <2>3, <2>5, <2>6, Frames DEF CountGen, SessionTypes
  <1>7. CASE ArmHandle(c)
    <2>0. /\ UNCHANGED calls /\ UNCHANGED genCounter /\ call[c].pc = "arm"
          /\ call[c].op = "QueryCtx" /\ call[c].gen \in Queries /\ call[c].gen # 0
      BY <1>0, <1>7, HoldingParts DEF ArmHandle, queryState
    <2>1. RouterTypes'
      BY <1>0, <1>7, <2>0, ArmTypes DEF ArmHandle
    <2>2. Goto(c, "mark") \/ Goto(c, "store")
      BY <1>7 DEF ArmHandle
    <2>3. CallTypes' /\ Counting'
      BY <1>0, <2>0, <2>2, MovedOK, GotoTypes
    <2> QED
      BY <1>7, <2>1, <2>3, Frames DEF ArmHandle, SessionTypes
  <1>8. CASE StoreGen(c)
    <2>0. /\ UNCHANGED calls /\ UNCHANGED genCounter /\ call[c].pc = "store"
          /\ call[c].op = "QueryCtx" /\ call[c].gen # 0
      BY <1>0, <1>8, HoldingParts DEF StoreGen
    <2>1. CallTypes' /\ Counting'
      BY <1>0, <1>8, <2>0, MovedOK, GotoTypes DEF StoreGen
    <2>2. QueryTypes'
      BY <1>0, <1>8 DEF StoreGen, QueryTypes
    <2> QED
      BY <1>8, <2>1, <2>2, Frames DEF StoreGen, SessionTypes
  <1>9. CASE MarkQuery(c)
    <2>0. /\ UNCHANGED calls /\ UNCHANGED genCounter /\ call[c].pc = "mark"
          /\ call[c].op # "none" /\ (call[c].op = "QueryCtx" => call[c].gen # 0)
      BY <1>0, <1>9, HoldingParts DEF MarkQuery
    <2>1. ASSUME activity = "idle"
          PROVE  CallTypes' /\ Counting'
      <3> DEFINE b == StampedAs("thinking", {}, 0)
      <3>1. b \in Router!Stamped /\ b.ev.kind = "thinking"
        BY <1>0, StampedType DEF Kinds, StampedAs, Ev
      <3>2. Sends(c, "stamp", <<b>>)
        BY <1>9, <2>1 DEF MarkQuery, Sends
      <3> HIDE DEF b
      <3>3. <<b>> \in Seq(Router!Stamped) /\ <<b>> # << >> /\ <<b>>[1] = b
        BY <1>0, <3>1, SequenceTypes
      <3>4. CallOK(Moved(c, "stamp", <<b>>))
        BY <1>0, <2>0, <3>1, <3>3, MovedOK
      <3> QED
        BY <1>0, <2>0, <3>2, <3>4, MovedForms, MoveTypes
    <2>2. ASSUME activity # "idle"
          PROVE  CallTypes' /\ Counting'
      <3>1. Goto(c, "write")
        BY <1>9, <2>2 DEF MarkQuery
      <3>2. CallOK(Moved(c, "write", call[c].out))
        BY <1>0, <2>0, MovedOK
      <3> QED
        BY <2>0, <3>1, <3>2, GotoTypes
    <2>3. CallTypes' /\ Counting'
      BY <2>1, <2>2
    <2>4. QueryTypes'
      BY <1>0, <1>9 DEF MarkQuery, QueryTypes
    <2> QED
      BY <1>9, <2>3, <2>4, Frames DEF MarkQuery, SessionTypes
  <1>10. CASE WriteOk(c)
    <2>0. UNCHANGED calls /\ UNCHANGED genCounter /\ call[c].pc = "write" /\ Return(c)
      BY <1>10 DEF WriteOk, queryState
    <2>1. CallTypes' /\ Counting'
      BY <2>0, ReturnTypes
    <2>2. CLITypes'
      <3>1. PICK slash \in Slash : Receives([q |-> call[c].gen, slash |-> slash])
        BY <1>10 DEF WriteOk
      <3>2. slash \in BOOLEAN /\ UNCHANGED <<stdout, turn, cli, noteTurns>>
        BY <1>10, CLIAssumption DEF WriteOk
      <3> QED
        BY <1>0, <3>1, <3>2, SessionWrites
    <2>3. UserTypes'
      <3>1. call[c].op = "QueryCtx" => call[c].gen \in Queries
        BY <1>0, <2>0, HoldingParts
      <3> QED
        BY <1>0, <1>10, <3>1 DEF WriteOk, UserTypes, IsQueryCtx
    <2> QED
      BY <1>10, <2>1, <2>2, <2>3, Frames DEF WriteOk, SessionTypes
  <1>11. CASE WriteFails(c)
    <2>0. UNCHANGED calls /\ UNCHANGED genCounter /\ call[c].pc = "write"
      BY <1>11 DEF WriteFails, queryState
    <2>1. CallTypes' /\ Counting'
      <3>1. CASE IsQueryCtx(c)
        <4>1. CallOK(Moved(c, "fail", call[c].out))
          BY <1>0, <2>0, <3>1, HoldingParts, MovedOK DEF IsQueryCtx
        <4> QED
          BY <1>11, <2>0, <3>1, <4>1, GotoTypes DEF WriteFails
      <3>2. CASE ~IsQueryCtx(c)
        BY <1>11, <2>0, <3>2, ReturnTypes DEF WriteFails
      <3> QED
        BY <3>1, <3>2
    <2>2. CLITypes'
      <3>1. /\ Receives([q |-> call[c].gen, slash |-> FALSE]) \/ UNCHANGED stdin
            /\ UNCHANGED <<stdout, turn, cli, noteTurns>>
        BY <1>11 DEF WriteFails
      <3>2. FALSE \in BOOLEAN
        OBVIOUS
      <3> QED
        BY <1>0, <3>1, <3>2, SessionWrites
    <2>3. ModeTypes'
      <3>1. stdinOpen' = FALSE /\ stdinOpen' \in BOOLEAN /\ UNCHANGED <<ctxDone, modeState>>
        BY <1>11 DEF WriteFails
      <3> QED
        BY <1>0, <3>1 DEF ModeTypes, modeState
    <2> QED
      BY <1>11, <2>1, <2>2, <2>3, Frames DEF WriteFails, SessionTypes
  <1>12. CASE FailGen(c)
    <2>0. /\ UNCHANGED calls /\ UNCHANGED genCounter /\ call[c].pc = "fail"
          /\ call[c].op = "QueryCtx" /\ call[c].gen # 0
      BY <1>0, <1>12, HoldingParts DEF FailGen
    <2>1. CallTypes' /\ Counting'
      BY <1>0, <1>12, <2>0, MovedOK, GotoTypes DEF FailGen
    <2>2. QueryTypes'
      BY <1>0, <1>12 DEF FailGen, QueryTypes
    <2> QED
      BY <1>12, <2>1, <2>2, Frames DEF FailGen, SessionTypes
  <1>13. CASE FailState(c)
    <2>0. /\ UNCHANGED calls /\ UNCHANGED genCounter /\ call[c].pc = "failState"
          /\ call[c].op = "QueryCtx" /\ call[c].gen # 0
      BY <1>0, <1>13, HoldingParts DEF FailState
    <2>1. CallTypes' /\ Counting'
      BY <1>0, <1>13, <2>0, MovedOK, GotoTypes DEF FailState
    <2>2. QueryTypes'
      BY <1>0, <1>13 DEF FailState, QueryTypes
    <2> QED
      BY <1>13, <2>1, <2>2, Frames DEF FailState, SessionTypes
  <1>14. CASE FailDetach(c)
    <2>0. /\ UNCHANGED calls /\ UNCHANGED genCounter /\ call[c].pc = "detach"
          /\ call[c].gen \in Queries
      BY <1>0, <1>14, HoldingParts DEF FailDetach, queryState
    <2>1. CallTypes' /\ Counting'
      BY <1>14, <2>0, ReturnTypes DEF FailDetach
    <2>2. RouterTypes'
      BY <1>0, <1>14, <2>0, DetachTypes DEF FailDetach
    <2> QED
      BY <1>14, <2>1, <2>2, Frames DEF FailDetach, SessionTypes
  <1> QED
    BY <1>1, <1>2, <1>3, <1>4, <1>5, <1>6, <1>7, <1>8, <1>9, <1>10, <1>11, <1>12,
       <1>13, <1>14 DEF CallStep

LEMMA ResultsTypes ==
  ASSUME NEW seq \in Seq(Router!Stamped)
  PROVE  ResultsOf(seq) \subseteq Queries
  <1>1. \A i \in DOMAIN seq : seq[i] \in Router!Stamped
    OBVIOUS
  <1>2. \A i \in DOMAIN seq : seq[i].ev.of \subseteq Queries
    BY <1>1, StampedParts
  <1> QED
    BY <1>2 DEF ResultsOf

LEMMA ConsumeKeepsTypes ==
  ASSUME SessionTypes, Consume
  PROVE  SessionTypes'
  <1>0. RouterTypes /\ PumpTypes /\ UserTypes
    BY DEF SessionTypes
  <1>1. CASE DrainOrphans
    <2>1. RouterTypes'
      BY <1>0, <1>1, DrainTypes DEF DrainOrphans
    <2>2. ResultsOf(orphans) \subseteq Queries
      BY <1>0, ResultsTypes DEF RouterTypes, Router!RouterTypeOK
    <2>3. UserTypes'
      BY <1>0, <1>1, <2>2 DEF DrainOrphans, UserTypes
    <2> QED
      BY <1>1, <2>1, <2>3, Frames DEF DrainOrphans, SessionTypes
  <1>2. CASE ReadEvents
    <2>1. Head(events) \in Router!Stamped /\ Tail(events) \in Seq(Router!Stamped)
          /\ Len(Tail(events)) = Len(events) - 1 /\ Len(events) \in Nat
      BY <1>0, <1>2, HeadTypes DEF ReadEvents, PumpTypes
    <2>2. PumpTypes'
      BY <1>0, <1>2, <2>1, CapTypes DEF ReadEvents, PumpTypes
    <2>3. <<Head(events)>> \in Seq(Router!Stamped)
      BY <1>0, <2>1, SequenceTypes DEF PumpTypes
    <2>4. UserTypes'
      BY <1>0, <1>2, <2>3, ResultsTypes DEF ReadEvents, UserTypes
    <2> QED
      BY <1>2, <2>2, <2>4, Frames DEF ReadEvents, SessionTypes
  <1>3. ASSUME NEW g \in Queries, WaitReceive(g)
        PROVE  SessionTypes'
    <2>1. RouterTypes'
      BY <1>0, <1>3, ReceiveTypes DEF WaitReceive
    <2>2. UserTypes'
      BY <1>0, <1>3 DEF WaitReceive, UserTypes
    <2> QED
      BY <1>3, <2>1, <2>2, Frames DEF WaitReceive, SessionTypes
  <1>4. ASSUME NEW g \in Queries, WaitClosed(g)
        PROVE  SessionTypes'
    <2>1. UserTypes'
      BY <1>0, <1>4 DEF WaitClosed, UserTypes
    <2> QED
      BY <1>4, <2>1, Frames DEF WaitClosed, SessionTypes
  <1>5. ASSUME NEW g \in Queries, Abandon(g)
        PROVE  SessionTypes'
    <2>1. RouterTypes'
      BY <1>0, <1>5, DetachTypes DEF Abandon
    <2> QED
      BY <1>5, <2>1, Frames DEF Abandon, SessionTypes
  <1> QED
    BY <1>1, <1>2, <1>3, <1>4, <1>5 DEF Consume

LEMMA NextKeepsTypes ==
  ASSUME SessionTypes, [Next]_vars
  PROVE  SessionTypes'
  <1>1. CASE CLIStep
    <2>1. CLITypes'
      BY <1>1, CLIKeepsTypes DEF CLIStep, SessionTypes
    <2> QED
      BY <1>1, <2>1, Frames DEF CLIStep, SessionTypes
  <1>2. CASE Cancel
    <2>1. ctxDone' \in BOOLEAN
      BY <1>2 DEF Cancel
    <2>2. ModeTypes'
      BY <1>2, <2>1 DEF Cancel, SessionTypes, ModeTypes, modeState
    <2> QED
      BY <1>2, <2>2, Frames DEF Cancel, SessionTypes
  <1>3. CASE UNCHANGED vars
    BY <1>3, Frames DEF vars, SessionTypes
  <1> QED
    BY <1>1, <1>2, <1>3, ReadLoopKeepsTypes, PumpKeepsTypes, TickerKeepsTypes,
       StartKeepsTypes, CallKeepsTypes, ConsumeKeepsTypes DEF Next, Terminated

\* The values of the session's state stay what they are meant to be: no
\* channel holds more than its capacity, no generation is counted beyond the
\* calls, a mailbox holds events only.
THEOREM SessionKeepsTypes == Spec => []TypeOK
  <1>1. SessionTypes => TypeOK
    <2> SUFFICES ASSUME SessionTypes PROVE TypeOK
      OBVIOUS
    <2>1. genCounter \in 0..MaxGen
      BY CountedRange DEF SessionTypes
    <2>2. {promptEchoed, ctxDone, stdinOpen, routed, pumpClosed, waited, ticker} \subseteq BOOLEAN
      BY DEF SessionTypes, QueryTypes, ModeTypes, PumpTypes, LoopTypes, TickTypes
    <2>3. {pump, pumpEv, events, rlOut, tickOut} \subseteq Seq(Router!Stamped)
      BY DEF SessionTypes, PumpTypes, LoopTypes, TickTypes
    <2>4. Router!RouterTypeOK /\ stdin \in Seq(Message) /\ stdout \in Seq(Line)
      BY DEF SessionTypes, RouterTypes, CLITypes
    <2> QED
      BY <2>1, <2>2, <2>3, <2>4 DEF TypeOK, SessionTypes, RouterTypes, CLITypes, QueryTypes,
         ModeTypes, PumpTypes, UserTypes
  <1> QED
    BY <1>1, InitTypes, NextKeepsTypes, PTL DEF Spec

-----------------------------------------------------------------------------
(* The session uses its router as EventRouter allows                       *)

LEMMA ReadLoopRoutes ==
  ASSUME SessionTypes, ReadLoop
  PROVE  UNCHANGED routerState \/ Router!RouterNext
  <1>1. CASE DeliverExit
    <2>1. rlOut[1] \in Router!Stamped
      BY <1>1, HeadTypes DEF DeliverExit, SessionTypes, LoopTypes
    <2> QED
      BY <1>1, <2>1 DEF DeliverExit, Router!RouterNext
  <1>2. CASE Shutdown
    BY <1>2 DEF Shutdown, Router!RouterNext
  <1>3. CASE ReadEcho \/ ReadInit \/ ReadTool \/ ReadHeldResult \/ StampHeld \/ ClearGen
             \/ TrackState \/ ObserveTerminal \/ Push \/ ClosePump \/ CheckRouted \/ Finish
    BY <1>3 DEF ReadEcho, ReadInit, ReadTool, ReadHeldResult, StampHeld, ClearGen, TrackState,
       ObserveTerminal, Push, ClosePump, CheckRouted, Finish
  <1>4. CASE ReadResult \/ ReadApiError \/ WaitProcess \/ StampExit
    BY <1>4 DEF ReadResult, ReadApiError, WaitProcess, StampExit, StampTerminal
  <1> QED
    BY <1>1, <1>2, <1>3, <1>4 DEF ReadLoop

LEMMA PumpRoutes ==
  ASSUME SessionTypes, Pump
  PROVE  UNCHANGED routerState \/ Router!RouterNext
  <1>1. CASE PumpRoute
    <2>1. pumpEv[1] \in Router!Stamped
      BY <1>1, HeadTypes DEF PumpRoute, SessionTypes, PumpTypes
    <2> QED
      BY <1>1, <2>1 DEF PumpRoute, Router!RouterNext
  <1>2. CASE PumpFlush
    <2>1. Head(events).ev \in SessionEvent
      BY <1>2, HeadTypes, StampedParts DEF PumpFlush, SessionTypes, PumpTypes
    <2> QED
      BY <1>2, <2>1 DEF PumpFlush, Router!RouterNext
  <1>3. CASE Evict
    BY <1>3 DEF Evict, Router!RouterNext
  <1>4. CASE PumpTake \/ PumpUnrouted \/ PumpSend \/ PumpBarrier \/ PumpFlushed \/ PumpStop
    BY <1>4 DEF PumpTake, PumpUnrouted, PumpSend, PumpBarrier, PumpFlushed, PumpStop
  <1> QED
    BY <1>1, <1>2, <1>3, <1>4 DEF Pump

LEMMA CallRoutes ==
  ASSUME SessionTypes, NEW c \in Callers, CallStep(c)
  PROVE  UNCHANGED routerState \/ Router!RouterNext
  <1>0. CallTypes
    BY DEF SessionTypes
  <1>1. CASE ArmHandle(c)
    <2>1. call[c].gen \in Router!Gens
      BY <1>0, <1>1, HoldingParts, RouterFacts DEF ArmHandle
    <2> QED
      BY <1>1, <2>1 DEF ArmHandle, Router!RouterNext
  <1>2. CASE FailDetach(c)
    <2>1. call[c].gen \in Router!Gens
      BY <1>0, <1>2, HoldingParts, RouterFacts DEF FailDetach
    <2> QED
      BY <1>2, <2>1 DEF FailDetach, Router!RouterNext
  <1>3. CASE EnableRouting(c) \/ CallStamp(c) \/ CallSend(c) \/ PrepareQuery(c)
             \/ ValidateSendable(c) \/ CountGen(c) \/ StoreGen(c)
    BY <1>3 DEF EnableRouting, CallStamp, CallSend, PrepareQuery, ValidateSendable, CountGen, StoreGen
  <1>4. CASE MarkQuery(c) \/ WriteOk(c) \/ WriteFails(c) \/ FailGen(c) \/ FailState(c)
    BY <1>4 DEF MarkQuery, WriteOk, WriteFails, FailGen, FailState
  <1> QED
    BY <1>1, <1>2, <1>3, <1>4 DEF CallStep

LEMMA ConsumeRoutes ==
  ASSUME Consume
  PROVE  UNCHANGED routerState \/ Router!RouterNext
  <1>1. CASE DrainOrphans
    BY <1>1 DEF DrainOrphans, Router!RouterNext
  <1>2. CASE ReadEvents
    BY <1>2 DEF ReadEvents
  <1>3. ASSUME NEW g \in Queries, WaitReceive(g) \/ WaitClosed(g) \/ Abandon(g)
        PROVE  UNCHANGED routerState \/ Router!RouterNext
    BY <1>3, RouterFacts DEF WaitReceive, WaitClosed, Abandon, Router!RouterNext
  <1> QED
    BY <1>1, <1>2, <1>3 DEF Consume

LEMMA NextRoutes ==
  ASSUME SessionTypes, [Next]_vars
  PROVE  UNCHANGED routerState \/ Router!RouterNext
  <1>1. CASE CLIStep \/ Cancel \/ Ticker \/ UNCHANGED vars
    BY <1>1 DEF CLIStep, Cancel, Ticker, TickRead, TickStamp, TickSend, vars
  <1>2. ASSUME NEW c \in Callers, StartCall(c)
        PROVE  UNCHANGED routerState
    BY <1>2 DEF StartCall
  <1> QED
    BY <1>1, <1>2, ReadLoopRoutes, PumpRoutes, CallRoutes, ConsumeRoutes DEF Next, Terminated

\* The session is an implementation of the router's specification: every step
\* of readLoop, the pump, a caller or a consumer leaves the router alone or is
\* one of the operations EventRouter has, on an event and a generation it
\* allows, with the mutex free where the operation takes it.  What
\* EventRouterProofs shows of every behaviour of the router therefore holds of
\* the router inside a session.
THEOREM SessionRefinesRouter == Spec => RefinesRouter
  <1>1. Init => Router!RouterInit
    BY DEF Init
  <1>2. SessionTypes /\ [Next]_vars => [Router!RouterNext]_(Router!routerVars)
    <2>1. UNCHANGED routerState => UNCHANGED Router!routerVars
      BY DEF routerState, Router!routerVars
    <2> QED
      BY <2>1, NextRoutes
  <1> QED
    BY <1>1, <1>2, InitTypes, NextKeepsTypes, PTL DEF Spec, RefinesRouter, Router!RouterSpec

-----------------------------------------------------------------------------
(* What a step of a call makes of it                                       *)

Becomes(c, k) == call' = [call EXCEPT ![c] = k]

SentPc(c) == IF call[c].out[1].ev.kind = "barrier" THEN "prepare" ELSE "write"

LEMMA CallForms ==
  ASSUME SessionTypes, NEW c \in Callers
  PROVE  /\ EnableRouting(c) =>
              \/ Becomes(c, Moved(c, "stamp", <<StampedAs("barrier", {}, 0)>>)) /\ routed'
              \/ Becomes(c, Moved(c, "prepare", call[c].out)) /\ enabling = "done"
         /\ CallStamp(c) =>
              \/ Becomes(c, Moved(c, SentPc(c), << >>))
              \/ \E out \in Seq(Router!Stamped) :
                   /\ out # << >> /\ out[1] = [ev |-> call[c].out[1].ev, gen |-> activeGen]
                   /\ \A i \in DOMAIN out : i # 1 => i \in DOMAIN call[c].out /\ out[i] = call[c].out[i]
                   /\ Becomes(c, Moved(c, "send", out))
         /\ CallSend(c) => Becomes(c, Moved(c, SentPc(c), << >>))
         /\ PrepareQuery(c) =>
              \/ state = "idle" /\ IsQueryCtx(c) /\ Becomes(c, Moved(c, "count", call[c].out))
              \/ state = "idle" /\ ~IsQueryCtx(c) /\ Becomes(c, Moved(c, "mark", call[c].out))
              \/ state # "idle" /\ Becomes(c, NoCall)
         /\ ValidateSendable(c) =>
              Becomes(c, Moved(c, "mark", call[c].out)) \/ Becomes(c, NoCall)
         /\ CountGen(c) =>
              Becomes(c, [pc |-> "arm", op |-> call[c].op, gen |-> genCounter + 1, out |-> call[c].out])
         /\ ArmHandle(c) => Becomes(c, Moved(c, IF shutdown THEN "mark" ELSE "store", call[c].out))
         /\ StoreGen(c) => Becomes(c, Moved(c, "mark", call[c].out))
         /\ MarkQuery(c) =>
              \/ Becomes(c, Moved(c, "stamp", <<StampedAs("thinking", {}, 0)>>))
              \/ Becomes(c, Moved(c, "write", call[c].out))
         /\ WriteOk(c) => Becomes(c, NoCall)
         /\ WriteFails(c) => \/ IsQueryCtx(c) /\ Becomes(c, Moved(c, "fail", call[c].out))
                             \/ ~IsQueryCtx(c) /\ Becomes(c, NoCall)
         /\ FailGen(c) => Becomes(c, Moved(c, "failState", call[c].out))
         /\ FailState(c) => Becomes(c, Moved(c, "detach", call[c].out))
         /\ FailDetach(c) => Becomes(c, NoCall)
  <1>0. CallTypes /\ activeGen \in 0..MaxGen
    BY DEF SessionTypes, QueryTypes
  <1>1. ASSUME NEW pc, Goto(c, pc)
        PROVE  Becomes(c, Moved(c, pc, call[c].out))
    BY <1>0, <1>1, MovedForms DEF Becomes
  <1>2. ASSUME NEW pc, NEW out, Sends(c, pc, out)
        PROVE  Becomes(c, Moved(c, pc, out))
    BY <1>0, <1>2, MovedForms DEF Becomes
  <1>3. Return(c) => Becomes(c, NoCall)
    BY DEF Return, Becomes
  <1>4. AfterSend(c, "write") => Becomes(c, Moved(c, SentPc(c), << >>))
    <2>1. AfterSend(c, "write") => Sends(c, SentPc(c), << >>)
      BY DEF AfterSend, SentPc, Sends
    <2> QED
      BY <1>2, <2>1
  <1>5. EnableRouting(c) =>
          \/ Becomes(c, Moved(c, "stamp", <<StampedAs("barrier", {}, 0)>>)) /\ routed'
          \/ Becomes(c, Moved(c, "prepare", call[c].out)) /\ enabling = "done"
    <2>1. EnableRouting(c) =>
            \/ Sends(c, "stamp", <<StampedAs("barrier", {}, 0)>>) /\ routed'
            \/ Goto(c, "prepare") /\ enabling = "done"
      BY DEF EnableRouting, Sends
    <2> QED
      BY <1>1, <1>2, <2>1
  <1>6. ASSUME CallStamp(c), ~pumpClosed
        PROVE  \E out \in Seq(Router!Stamped) :
                 /\ out # << >> /\ out[1] = [ev |-> call[c].out[1].ev, gen |-> activeGen]
                 /\ \A i \in DOMAIN out : i # 1 => i \in DOMAIN call[c].out /\ out[i] = call[c].out[i]
                 /\ Becomes(c, Moved(c, "send", out))
    <2> DEFINE first == [call[c].out[1] EXCEPT !.gen = activeGen]
               out == [call[c].out EXCEPT ![1] = first]
    <2>1. /\ call[c].out # << >> /\ call[c].out[1] \in Router!Stamped
          /\ call[c].out \in Seq(Router!Stamped)
      BY <1>0, <1>6, SendingParts, CallParts DEF CallStamp
    <2>2. first \in Router!Stamped /\ first = [ev |-> call[c].out[1].ev, gen |-> activeGen]
      BY <1>0, <2>1 DEF Router!Stamped
    <2>3. Becomes(c, Moved(c, "send", out))
      <3>1. Sends(c, "send", out)
        BY <1>6 DEF CallStamp, Sends
      <3> HIDE DEF out
      <3> QED
        BY <1>2, <3>1
    <2> HIDE DEF first
    <2>4. /\ out \in Seq(Router!Stamped) /\ out # << >> /\ out[1] = first
          /\ Len(out) = Len(call[c].out)
          /\ \A i \in DOMAIN call[c].out : i # 1 => out[i] = call[c].out[i]
      BY <2>1, <2>2, FirstReplaced
    <2> HIDE DEF out
    <2>5. DOMAIN out = DOMAIN call[c].out
      BY <2>1, <2>4
    <2> QED
      BY <2>2, <2>3, <2>4, <2>5
  <1>7. CallStamp(c) /\ pumpClosed => AfterSend(c, "write")
    BY DEF CallStamp
  <1>8. CallSend(c) => AfterSend(c, "write")
    BY DEF CallSend
  <1>9. PrepareQuery(c) =>
          \/ state = "idle" /\ IsQueryCtx(c) /\ Goto(c, "count")
          \/ state = "idle" /\ ~IsQueryCtx(c) /\ Goto(c, "mark")
          \/ state # "idle" /\ Return(c)
    BY DEF PrepareQuery
  <1>10. ValidateSendable(c) => Goto(c, "mark") \/ Return(c)
    BY DEF ValidateSendable
  <1>11. CountGen(c) =>
          Becomes(c, [pc |-> "arm", op |-> call[c].op, gen |-> genCounter + 1, out |-> call[c].out])
    BY <1>0, CountedForm DEF CountGen, Becomes
  <1>12. /\ ArmHandle(c) => Goto(c, IF shutdown THEN "mark" ELSE "store")
         /\ StoreGen(c) => Goto(c, "mark")
    BY DEF ArmHandle, StoreGen
  <1>13. MarkQuery(c) => \/ Sends(c, "stamp", <<StampedAs("thinking", {}, 0)>>)
                         \/ Goto(c, "write")
    BY DEF MarkQuery, Sends
  <1>14. /\ WriteOk(c) => Return(c)
         /\ WriteFails(c) => \/ IsQueryCtx(c) /\ Goto(c, "fail")
                             \/ ~IsQueryCtx(c) /\ Return(c)
    BY DEF WriteOk, WriteFails
  <1>15. /\ FailGen(c) => Goto(c, "failState")
         /\ FailState(c) => Goto(c, "detach")
         /\ FailDetach(c) => Return(c)
    BY DEF FailGen, FailState, FailDetach
  <1> QED
    BY <1>1, <1>2, <1>3, <1>4, <1>5, <1>6, <1>7, <1>8, <1>9, <1>10, <1>11, <1>12, <1>13,
       <1>14, <1>15

\* A record Moved to another step.
LEMMA MovedFields ==
  ASSUME NEW c, NEW pc, NEW out
  PROVE  /\ Moved(c, pc, out).pc = pc /\ Moved(c, pc, out).op = call[c].op
         /\ Moved(c, pc, out).gen = call[c].gen /\ Moved(c, pc, out).out = out
  BY DEF Moved

LEMMA StartForm ==
  ASSUME NEW c \in Callers, StartCall(c)
  PROVE  \E op \in Ops, pc \in {"enable", "prepare", "validate"} :
           /\ Becomes(c, [pc |-> pc, op |-> op, gen |-> 0, out |-> << >>])
           /\ op = "QueryCtx" => pc = "enable"
  <1>1. PICK op \in Ops :
          call' = [call EXCEPT ![c] = [NoCall EXCEPT !.op = op, !.pc =
                    CASE op = "QueryCtx" -> "enable"
                      [] op = "Query" -> "prepare"
                      [] op = "SendMessage" -> "validate"]]
    BY DEF StartCall
  <1> DEFINE pc == CASE op = "QueryCtx" -> "enable"
                     [] op = "Query" -> "prepare"
                     [] op = "SendMessage" -> "validate"
  <1>2. pc \in {"enable", "prepare", "validate"} /\ (op = "QueryCtx" => pc = "enable")
    BY SessionAssumption
  <1>3. Becomes(c, [pc |-> pc, op |-> op, gen |-> 0, out |-> << >>])
    BY <1>1, NoCallUpdated DEF Becomes
  <1> HIDE DEF pc
  <1> QED
    BY <1>2, <1>3

\* A call keeps its operation and its generation until it returns; a QueryCtx
\* gives up the handle it holds only by handing it out or by closing it, and a
\* call asks from prepareQuery on, if it is let through.
LEMMA CallEffects ==
  ASSUME SessionTypes, NEW c \in Callers, CallStep(c)
  PROVE  /\ \A d \in Callers : d # c => call'[d] = call[d]
         /\ call'[c].op = "QueryCtx" => /\ call[c].op = "QueryCtx"
                                        /\ call'[c].gen = call[c].gen \/ CountGen(c)
         /\ Holding(call[c]) /\ call[c].op = "QueryCtx" =>
              \/ WriteOk(c) \/ FailDetach(c)
              \/ Holding(call'[c]) /\ call'[c].gen = call[c].gen
         /\ ArmHandle(c) /\ ~shutdown => Holding(call'[c]) /\ call'[c].gen = call[c].gen
         /\ call[c].pc = "enable" => EnableRouting(c)
         /\ call[c].op = "QueryCtx" /\ Holding(call'[c]) /\ ~Holding(call[c]) => ArmHandle(c)
  <1>0. CallTypes
    BY DEF SessionTypes
  <1> DEFINE k == call[c]
             n == call'[c]
  <1>1. CallOK(k) /\ k \in CallRecord
    BY <1>0, CallParts
  <1>2. ASSUME NEW new, Becomes(c, new)
        PROVE  n = new /\ \A d \in Callers : d # c => call'[d] = call[d]
    BY <1>0, <1>2 DEF Becomes, CallTypes
  <1>3. NoCall.op # "QueryCtx" /\ ~Holding(NoCall) /\ ~Asking(NoCall)
    BY DEF NoCall, Holding, Asking, Marked
  <1>4. CASE EnableRouting(c)
    <2>1. \/ Becomes(c, Moved(c, "stamp", <<StampedAs("barrier", {}, 0)>>))
          \/ Becomes(c, Moved(c, "prepare", call[c].out))
      BY <1>4, CallForms
    <2>2. <<StampedAs("barrier", {}, 0)>>[1].ev.kind = "barrier"
      BY DEF StampedAs, Ev
    <2>3. k.pc = "enable" /\ ~Holding(k)
      BY <1>4 DEF EnableRouting, Holding, Marked
    <2>4. n.op = k.op /\ n.gen = k.gen /\ ~Holding(n) /\ \A d \in Callers : d # c => call'[d] = call[d]
      BY <1>2, <2>1, <2>2, MovedFields DEF Holding, Marked
    <2> QED
      BY <1>4, <2>3, <2>4 DEF ArmHandle
  <1>5. CASE CallStamp(c) \/ CallSend(c)
    <2>1. k.pc \in {"stamp", "send"}
      BY <1>5 DEF CallStamp, CallSend
    <2>2. \/ Becomes(c, Moved(c, SentPc(c), << >>))
          \/ \E out : out[1].ev.kind = k.out[1].ev.kind /\ Becomes(c, Moved(c, "send", out))
      <3>1. \/ Becomes(c, Moved(c, SentPc(c), << >>))
            \/ \E out \in Seq(Router!Stamped) :
                 /\ out[1] = [ev |-> k.out[1].ev, gen |-> activeGen]
                 /\ Becomes(c, Moved(c, "send", out))
        BY <1>5, CallForms
      <3> QED
        BY <3>1
    <2>3. n.op = k.op /\ n.gen = k.gen /\ (Holding(n) <=> Holding(k))
          /\ \A d \in Callers : d # c => call'[d] = call[d]
      <3>1. CASE Becomes(c, Moved(c, SentPc(c), << >>))
        BY <1>2, <2>1, <3>1, MovedFields DEF Holding, Marked, SentPc
      <3>2. ASSUME NEW out, out[1].ev.kind = k.out[1].ev.kind, Becomes(c, Moved(c, "send", out))
            PROVE  n.op = k.op /\ n.gen = k.gen /\ (Holding(n) <=> Holding(k))
                   /\ \A d \in Callers : d # c => call'[d] = call[d]
        BY <1>2, <2>1, <3>2, MovedFields DEF Holding, Marked
      <3> QED
        BY <2>2, <3>1, <3>2
    <2> QED
      BY <2>1, <2>3 DEF ArmHandle
  <1>6. CASE PrepareQuery(c) \/ ValidateSendable(c)
    <2>1. k.pc \in {"prepare", "validate"} /\ ~Holding(k)
      BY <1>6 DEF PrepareQuery, ValidateSendable, Holding, Marked
    <2>2. \/ Becomes(c, Moved(c, "count", k.out)) \/ Becomes(c, NoCall)
          \/ k.op # "QueryCtx" /\ Becomes(c, Moved(c, "mark", k.out))
      BY <1>1, <1>6, CallForms DEF IsQueryCtx, CallOK, PrepareQuery, ValidateSendable
    <2>3. /\ n.op = "QueryCtx" => k.op = "QueryCtx" /\ n.gen = k.gen
          /\ k.op = "QueryCtx" => ~Holding(n)
          /\ \A d \in Callers : d # c => call'[d] = call[d]
      BY <1>2, <1>3, <2>2, MovedFields DEF Holding, Marked
    <2> QED
      BY <2>1, <2>3 DEF ArmHandle
  <1>7. CASE CountGen(c)
    <2>1. Becomes(c, [pc |-> "arm", op |-> k.op, gen |-> genCounter + 1, out |-> k.out])
      BY <1>7, CallForms
    <2>2. n.op = k.op /\ n.pc = "arm" /\ \A d \in Callers : d # c => call'[d] = call[d]
      BY <1>2, <2>1
    <2>3. k.pc = "count" /\ ~Holding(k) /\ ~Holding(n)
      BY <1>7, <2>2 DEF CountGen, Holding, Marked
    <2> QED
      BY <1>7, <2>2, <2>3 DEF ArmHandle
  <1>8. CASE ArmHandle(c)
    <2>0. Becomes(c, Moved(c, IF shutdown THEN "mark" ELSE "store", k.out))
      BY <1>8, CallForms
    <2>1. n.pc \in {"mark", "store"} /\ n.op = k.op /\ n.gen = k.gen
          /\ \A d \in Callers : d # c => call'[d] = call[d]
      BY <1>2, <2>0, MovedFields
    <2>2. Holding(n) /\ k.pc = "arm"
      BY <1>8, <2>1 DEF Holding, ArmHandle
    <2> QED
      BY <1>8, <2>1, <2>2
  <1>9. CASE StoreGen(c) \/ FailGen(c) \/ FailState(c)
    <2>0. \/ Becomes(c, Moved(c, "mark", k.out)) \/ Becomes(c, Moved(c, "failState", k.out))
          \/ Becomes(c, Moved(c, "detach", k.out))
      BY <1>9, CallForms
    <2>1. n.pc \in {"mark", "failState", "detach"} /\ n.op = k.op /\ n.gen = k.gen
          /\ \A d \in Callers : d # c => call'[d] = call[d]
      BY <1>2, <2>0, MovedFields
    <2>2. Holding(n) /\ Holding(k) /\ k.pc \in {"store", "fail", "failState"}
      BY <1>9, <2>1 DEF Holding, StoreGen, FailGen, FailState
    <2> QED
      BY <2>1, <2>2 DEF ArmHandle
  <1>10. CASE MarkQuery(c)
    <2>0. \/ Becomes(c, Moved(c, "stamp", <<StampedAs("thinking", {}, 0)>>))
          \/ Becomes(c, Moved(c, "write", k.out))
      BY <1>10, CallForms
    <2>1. /\ n.pc \in {"stamp", "write"} /\ n.op = k.op /\ n.gen = k.gen
          /\ n.pc = "stamp" => n.out = <<StampedAs("thinking", {}, 0)>>
          /\ \A d \in Callers : d # c => call'[d] = call[d]
      BY <1>2, <2>0, MovedFields
    <2>2. <<StampedAs("thinking", {}, 0)>>[1].ev.kind = "thinking"
      BY DEF StampedAs, Ev
    <2>3. Holding(n) /\ Holding(k) /\ k.pc = "mark"
      BY <1>10, <2>1, <2>2 DEF Holding, Marked, MarkQuery
    <2> QED
      BY <2>1, <2>3 DEF ArmHandle
  <1>11. CASE WriteOk(c) \/ FailDetach(c)
    <2>1. n = NoCall /\ \A d \in Callers : d # c => call'[d] = call[d]
      BY <1>2, <1>11, CallForms
    <2>2. k.pc \in {"write", "detach"}
      BY <1>11 DEF WriteOk, FailDetach
    <2> QED
      BY <1>3, <1>11, <2>1, <2>2 DEF ArmHandle
  <1>12. CASE WriteFails(c)
    <2>0. \/ k.op = "QueryCtx" /\ Becomes(c, Moved(c, "fail", k.out))
          \/ k.op # "QueryCtx" /\ Becomes(c, NoCall)
      BY <1>12, CallForms DEF IsQueryCtx
    <2>1. /\ k.op = "QueryCtx" => n.pc = "fail" /\ n.op = k.op /\ n.gen = k.gen
          /\ k.op # "QueryCtx" => n = NoCall
          /\ \A d \in Callers : d # c => call'[d] = call[d]
      BY <1>2, <2>0, MovedFields
    <2>2. Holding(k) /\ k.pc = "write" /\ (k.op = "QueryCtx" => Holding(n))
      BY <1>12, <2>1 DEF Holding, WriteFails
    <2> QED
      BY <1>3, <2>1, <2>2 DEF ArmHandle
  <1> QED
    BY <1>4, <1>5, <1>6, <1>7, <1>8, <1>9, <1>10, <1>11, <1>12 DEF CallStep

-----------------------------------------------------------------------------
(* The end of the session closes every handle                              *)

\* From the end of stdout on.
Ending == {"join", "exit", "shut", "shutdown", "finish", "ended"}

\* An open handle belongs to a caller that has it, or to the call that armed it.
OpenIsHeld ==
  \A g \in Queries : handle[g] = "open" =>
    g \in given \/ \E c \in Callers : Holding(call[c]) /\ call[c].gen = g

\* No handle is handed out before routing is on, and it stays on.
RoutedFirst ==
  /\ enabling = "done" => routed
  /\ given # {} => routed
  /\ \A c \in Callers : call[c].op = "QueryCtx" /\ call[c].pc # "enable" => routed

\* The end comes after proc.Wait, which closed stdin: from then on no write
\* succeeds, so no handle is handed out any more.
EndIsWaited ==
  /\ waited => ~stdinOpen
  /\ rlPc \in Ending => waited
  /\ rlPc = "clear" /\ rlOut[1].ev.kind = "exit" => waited

\* shutdownRouter is skipped only if nobody had a handle when it asked.
EndIsShutdown == rlPc \in {"finish", "ended"} => shutdown \/ given = {}

EndInv == OpenIsHeld /\ RoutedFirst /\ EndIsWaited /\ EndIsShutdown

\* What the parts depend on.
LEMMA EndFrames ==
  ASSUME EndInv
  PROVE  /\ (\A g \in Queries : handle'[g] = "open" => handle[g] = "open")
              /\ UNCHANGED <<call, given>> => OpenIsHeld'
         /\ UNCHANGED <<routed, enabling, call, given>> => RoutedFirst'
         /\ UNCHANGED <<rlPc, rlOut, waited>> /\ (stdinOpen' => stdinOpen) => EndIsWaited'
         /\ UNCHANGED <<rlPc, given>> /\ (shutdown => shutdown') => EndIsShutdown'
  <1> USE DEF EndInv
  <1>1. (\A g \in Queries : handle'[g] = "open" => handle[g] = "open")
              /\ UNCHANGED <<call, given>> => OpenIsHeld'
    <2> SUFFICES ASSUME \A g \in Queries : handle'[g] = "open" => handle[g] = "open",
                        UNCHANGED <<call, given>>
                 PROVE  OpenIsHeld'
      OBVIOUS
    <2>1. call' = call /\ given' = given
      OBVIOUS
    <2> QED
      BY <2>1 DEF OpenIsHeld, Holding, Marked
  <1>2. UNCHANGED <<routed, enabling, call, given>> => RoutedFirst'
    BY DEF RoutedFirst
  <1>3. UNCHANGED <<rlPc, rlOut, waited>> /\ (stdinOpen' => stdinOpen) => EndIsWaited'
    BY DEF EndIsWaited
  <1>4. UNCHANGED <<rlPc, given>> /\ (shutdown => shutdown') => EndIsShutdown'
    BY DEF EndIsShutdown
  <1> QED
    BY <1>1, <1>2, <1>3, <1>4

\* Only Arm opens a handle, and nothing takes a shutdown back.
LEMMA RouterEnds ==
  /\ UNCHANGED routerState => handle' = handle /\ shutdown' = shutdown
  /\ \A sev : Router!RouteStamped(sev) => handle' = handle /\ shutdown' = shutdown
  /\ Router!Evict => handle' = handle /\ shutdown' = shutdown
  /\ \A ev : Router!Flush(ev) => handle' = handle /\ shutdown' = shutdown
  /\ \A g : Router!Receive(g) => handle' = handle /\ shutdown' = shutdown
  /\ Router!DrainOrphans => handle' = handle /\ shutdown' = shutdown
  <1>1. \A sev : Router!RouteStamped(sev) => handle' = handle /\ shutdown' = shutdown
    BY DEF Router!RouteStamped, Router!DropAfterShutdown, Router!Deliver, Router!FindFull,
       Router!Orphan, Router!routerVars
  <1> QED
    BY <1>1 DEF routerState, Router!Evict, Router!Flush, Router!Receive, Router!DrainOrphans

LEMMA DetachEnds ==
  ASSUME RouterTypes, NEW g \in Queries, NEW reason \in {"detached", "failed"},
         Router!Detach(g, reason)
  PROVE  /\ \A h \in Queries : handle'[h] = "open" => handle[h] = "open"
         /\ handle'[g] # "open" /\ shutdown' = shutdown
  <1>1. /\ DOMAIN handle = Queries /\ handle' = [handle EXCEPT ![g] = IF @ = "open" THEN reason ELSE @]
        /\ shutdown' = shutdown
    BY RouterFacts DEF RouterTypes, Router!RouterTypeOK, Router!Detach
  <1> QED
    BY <1>1

LEMMA LoopKeepsEnd ==
  ASSUME SessionTypes, EndInv, ReadLoop
  PROVE  EndInv'
  <1> USE DEF EndInv
  <1>0. RouterTypes
    BY DEF SessionTypes
  <1>1. UNCHANGED <<routed, enabling, call, given>>
    BY DEF ReadLoop, ReadEcho, ReadInit, ReadTool, ReadHeldResult, StampHeld, ReadResult,
       ReadApiError, ClearGen, TrackState, ObserveTerminal, Push, WaitProcess, ClosePump,
       StampExit, DeliverExit, CheckRouted, Shutdown, Finish, StampTerminal,
       callState, modeState, userState
  <1>2. ~Shutdown => handle' = handle /\ shutdown' = shutdown
    BY RouterEnds DEF ReadLoop, ReadEcho, ReadInit, ReadTool, ReadHeldResult, StampHeld, ReadResult,
       ReadApiError, ClearGen, TrackState, ObserveTerminal, Push, WaitProcess, ClosePump,
       StampExit, DeliverExit, CheckRouted, Finish, StampTerminal
  <1>3. Shutdown => shutdown' = TRUE /\ \A g \in Queries : handle'[g] = "open" => handle[g] = "open"
    BY <1>0, RouterFacts DEF Shutdown, Router!ShutdownRouter, RouterTypes, Router!OnlyActiveOpen
  <1>4. OpenIsHeld' /\ RoutedFirst'
    <2>1. \A g \in Queries : handle'[g] = "open" => handle[g] = "open"
      BY <1>2, <1>3
    <2> QED
      BY <1>1, <2>1, EndFrames
  <1>5. ASSUME rlPc' \notin {"finish", "ended"}
        PROVE  EndIsShutdown'
    BY <1>5 DEF EndIsShutdown
  <1>6. CASE ReadEcho \/ ReadInit \/ ReadTool \/ ReadHeldResult
    <2>1. /\ rlPc' \in {"scan", "push", "held"}
          /\ waited' = waited /\ stdinOpen' = stdinOpen
      BY <1>6 DEF ReadEcho, ReadInit, ReadTool, ReadHeldResult, Reads, WithTransition,
         loopState, endState
    <2> QED
      BY <1>4, <1>5, <2>1 DEF EndIsWaited, Ending
  <1>7. CASE StampHeld \/ ObserveTerminal \/ TrackState \/ Push
    <2>1. /\ rlPc' \in {"scan", "push", "observe"}
          /\ waited' = waited /\ stdinOpen' = stdinOpen
      BY <1>7 DEF StampHeld, ObserveTerminal, TrackState, Push, WithTransition,
         loopState, endState
    <2> QED
      BY <1>4, <1>5, <2>1 DEF EndIsWaited, Ending
  <1>8. CASE ReadResult \/ ReadApiError
    <2>1. /\ rlPc' = "clear" /\ waited' = waited /\ stdinOpen' = stdinOpen
          /\ \/ rlOut' = <<StampedAs("result", Head(stdout).of, activeGen)>>
             \/ rlOut' = <<StampedAs("fatal", Head(stdout).of, activeGen)>>
      BY <1>8 DEF ReadResult, ReadApiError, StampTerminal, endState
    <2>2. rlOut'[1].ev.kind # "exit"
      BY <2>1 DEF StampedAs, Ev
    <2> QED
      BY <1>4, <1>5, <2>1, <2>2 DEF EndIsWaited, Ending
  <1>9. CASE ClearGen
    <2>1. /\ rlPc' = IF rlOut[1].ev.kind = "exit" THEN "exit" ELSE "track"
          /\ rlPc = "clear" /\ waited' = waited /\ stdinOpen' = stdinOpen
      BY <1>9 DEF ClearGen, endState
    <2> QED
      BY <1>4, <1>5, <2>1 DEF EndIsWaited, Ending
  <1>10. CASE WaitProcess
    <2>1. /\ waited' = TRUE /\ stdinOpen' = FALSE /\ rlPc' \in {"scan", "clear"}
      BY <1>10 DEF WaitProcess, StampTerminal
    <2> QED
      BY <1>4, <1>5, <2>1 DEF EndIsWaited
  <1>11. CASE ClosePump \/ StampExit \/ DeliverExit
    <2>1. /\ waited /\ waited' = waited /\ stdinOpen' = stdinOpen
          /\ rlPc' \in {"join", "clear", "shut"}
      BY <1>11 DEF ClosePump, StampExit, DeliverExit, StampTerminal, EndIsWaited, Ending, endState
    <2> QED
      BY <1>4, <1>5, <2>1 DEF EndIsWaited
  <1>12. CASE CheckRouted
    <2>1. /\ waited /\ waited' = waited /\ stdinOpen' = stdinOpen
          /\ rlPc' = (IF routed THEN "shutdown" ELSE "finish")
      BY <1>12 DEF CheckRouted, EndIsWaited, Ending, endState
    <2>2. EndIsShutdown'
      BY <1>1, <2>1 DEF EndIsShutdown, RoutedFirst
    <2> QED
      BY <1>4, <2>1, <2>2 DEF EndIsWaited
  <1>13. CASE Shutdown
    <2>1. /\ waited /\ waited' = waited /\ stdinOpen' = stdinOpen /\ rlPc' = "finish"
      BY <1>13 DEF Shutdown, EndIsWaited, Ending, endState
    <2> QED
      BY <1>3, <1>4, <1>13, <2>1 DEF EndIsWaited, EndIsShutdown
  <1>14. CASE Finish
    <2>1. /\ waited /\ waited' = waited /\ stdinOpen' = stdinOpen /\ rlPc' = "ended"
          /\ rlPc = "finish" /\ shutdown' = shutdown
      BY <1>14 DEF Finish, EndIsWaited, Ending, endState, routerState
    <2> QED
      BY <1>1, <1>4, <2>1 DEF EndIsWaited, EndIsShutdown
  <1> QED
    BY <1>6, <1>7, <1>8, <1>9, <1>10, <1>11, <1>12, <1>13, <1>14 DEF ReadLoop

LEMMA CallKeepsEnd ==
  ASSUME SessionTypes, EndInv, NEW c \in Callers, CallStep(c)
  PROVE  EndInv'
  <1>0. RouterTypes /\ CallTypes /\ CallTypes'
    BY CallKeepsTypes DEF SessionTypes
  <1> DEFINE k == call[c]
             n == call'[c]
  <1>1. UNCHANGED <<rlPc, rlOut, waited>> /\ (stdinOpen' => stdinOpen)
    BY DEF CallStep, EnableRouting, CallStamp, CallSend, PrepareQuery, ValidateSendable, CountGen,
       ArmHandle, StoreGen, MarkQuery, WriteOk, WriteFails, FailGen, FailState, FailDetach,
       loopState, endState
  <1>2. given' = given \/ (WriteOk(c) /\ k.op = "QueryCtx" /\ given' = given \cup {k.gen})
    BY DEF CallStep, EnableRouting, CallStamp, CallSend, PrepareQuery, ValidateSendable, CountGen,
       ArmHandle, StoreGen, MarkQuery, WriteOk, WriteFails, FailGen, FailState, FailDetach,
       userState, IsQueryCtx
  <1>3. ArmHandle(c) \/ FailDetach(c) \/ UNCHANGED routerState
    BY DEF CallStep, EnableRouting, CallStamp, CallSend, PrepareQuery, ValidateSendable, CountGen,
       StoreGen, MarkQuery, WriteOk, WriteFails, FailGen, FailState
  <1>4. FailDetach(c) => /\ \A h \in Queries : handle'[h] = "open" => handle[h] = "open"
                         /\ handle'[k.gen] # "open" /\ shutdown' = shutdown
    BY <1>0, HoldingParts, DetachEnds DEF FailDetach
  <1>5. ArmHandle(c) => /\ \A h \in Queries : handle'[h] = "open" /\ handle[h] # "open" =>
                             h = k.gen /\ ~shutdown
                        /\ shutdown' = shutdown
    <2> SUFFICES ASSUME ArmHandle(c)
                 PROVE  /\ \A h \in Queries : handle'[h] = "open" /\ handle[h] # "open" =>
                             h = k.gen /\ ~shutdown
                        /\ shutdown' = shutdown
      OBVIOUS
    <2>1. Router!Arm(k.gen) /\ k.gen \in Queries
      BY <1>0, HoldingParts DEF ArmHandle
    <2> QED
      BY <1>0, <2>1, RouterFacts DEF Router!Arm, RouterTypes, Router!RouterTypeOK
  <1>6. OpenIsHeld'
    <2> SUFFICES ASSUME NEW g \in Queries, handle'[g] = "open"
                 PROVE  g \in given' \/ \E d \in Callers : Holding(call'[d]) /\ call'[d].gen = g
      BY DEF OpenIsHeld, Holding, Marked
    <2>1. CASE handle[g] # "open"
      <3>1. ArmHandle(c) /\ g = k.gen /\ ~shutdown
        BY <1>3, <1>4, <1>5, <2>1, RouterEnds
      <3> QED
        BY <3>1, CallEffects
    <2>2. CASE g \in given
      BY <1>2, <2>2
    <2>3. ASSUME handle[g] = "open", g \notin given
          PROVE  g \in given' \/ \E d \in Callers : Holding(call'[d]) /\ call'[d].gen = g
      <3>1. PICK d \in Callers : Holding(call[d]) /\ call[d].gen = g
        BY <2>3 DEF OpenIsHeld, EndInv
      <3>2. CASE d # c
        BY <3>1, <3>2, CallEffects
      <3>3. CASE d = c
        <4>1. k.op = "QueryCtx"
          BY <1>0, <3>1, <3>3, RouterFacts, CallParts DEF CallOK
        <4>2. ~FailDetach(c)
          BY <1>4, <3>1, <3>3
        <4>3. WriteOk(c) => g \in given'
          BY <3>1, <3>3, <4>1 DEF WriteOk, IsQueryCtx
        <4> QED
          BY <3>1, <3>3, <4>1, <4>2, <4>3, CallEffects
      <3> QED
        BY <3>2, <3>3
    <2> QED
      BY <2>1, <2>2, <2>3
  <1>7. RoutedFirst'
    <2>1. routed => routed'
      BY DEF CallStep, EnableRouting, CallStamp, CallSend, PrepareQuery, ValidateSendable, CountGen,
         ArmHandle, StoreGen, MarkQuery, WriteOk, WriteFails, FailGen, FailState, FailDetach, modeState
    <2>2. EnableRouting(c) => routed'
      BY DEF EnableRouting, EndInv, RoutedFirst, modeState
    <2>3. k.op = "QueryCtx" /\ k.pc # "enable" => routed
      BY DEF EndInv, RoutedFirst
    <2>4. \A d \in Callers : call'[d].op = "QueryCtx" /\ call'[d].pc # "enable" => routed'
      <3> SUFFICES ASSUME NEW d \in Callers, call'[d].op = "QueryCtx" /\ call'[d].pc # "enable"
                   PROVE  routed'
        OBVIOUS
      <3>1. CASE d # c
        BY <2>1, <3>1, CallEffects DEF EndInv, RoutedFirst
      <3>2. CASE d = c
        BY <2>1, <2>2, <2>3, <3>2, CallEffects
      <3> QED
        BY <3>1, <3>2
    <2>5. enabling' = "done" => routed'
      <3>1. ASSUME AfterSend(c, "write"), k.pc \in {"stamp", "send"}, enabling' # enabling
            PROVE  routed
        <4>1. k.out[1].ev.kind = "barrier"
          BY <3>1 DEF AfterSend
        <4>2. k.op = "QueryCtx"
          BY <1>0, <3>1, <4>1, SendingParts
        <4> QED
          BY <2>3, <3>1, <4>2
      <3>2. \/ enabling' = enabling \/ EnableRouting(c)
            \/ AfterSend(c, "write") /\ k.pc \in {"stamp", "send"}
        BY DEF CallStep, CallStamp, CallSend, PrepareQuery, ValidateSendable, CountGen,
           ArmHandle, StoreGen, MarkQuery, WriteOk, WriteFails, FailGen, FailState, FailDetach, modeState
      <3> QED
        BY <2>1, <2>2, <3>1, <3>2 DEF EndInv, RoutedFirst
    <2>6. given' # {} => routed'
      <3>1. WriteOk(c) /\ k.op = "QueryCtx" => routed
        BY <2>3 DEF WriteOk
      <3> QED
        BY <1>2, <2>1, <3>1 DEF EndInv, RoutedFirst
    <2> QED
      BY <2>4, <2>5, <2>6 DEF RoutedFirst
  <1>8. EndIsWaited'
    BY <1>1, EndFrames
  <1>9. EndIsShutdown'
    <2>1. shutdown => shutdown'
      BY <1>3, <1>4, <1>5, RouterEnds
    <2>2. WriteOk(c) => rlPc \notin {"finish", "ended"}
      BY DEF WriteOk, EndInv, EndIsWaited, Ending
    <2>3. CASE given' = given
      BY <1>1, <2>1, <2>3, EndFrames
    <2>4. CASE WriteOk(c)
      BY <1>1, <2>2, <2>4 DEF EndIsShutdown
    <2> QED
      BY <1>2, <2>3, <2>4
  <1> QED
    BY <1>6, <1>7, <1>8, <1>9 DEF EndInv

LEMMA NextKeepsEnd ==
  ASSUME SessionTypes, EndInv, [Next]_vars
  PROVE  EndInv'
  <1>0. RouterTypes /\ CallTypes
    BY DEF SessionTypes
  <1>1. CASE CLIStep \/ Cancel \/ Ticker \/ UNCHANGED vars
    <2>1. /\ UNCHANGED <<call, given>> /\ UNCHANGED <<routed, enabling, call, given>>
          /\ UNCHANGED <<rlPc, rlOut, waited>> /\ UNCHANGED <<rlPc, given>>
          /\ UNCHANGED routerState /\ stdinOpen' = stdinOpen
      BY <1>1 DEF CLIStep, Cancel, Ticker, TickRead, TickStamp, TickSend, vars,
         callState, modeState, userState, loopState, endState
    <2> QED
      BY <2>1, RouterEnds, EndFrames DEF EndInv
  <1>2. CASE Pump
    <2>1. /\ UNCHANGED <<call, given>> /\ UNCHANGED <<routed, enabling, call, given>>
          /\ UNCHANGED <<rlPc, rlOut, waited>> /\ UNCHANGED <<rlPc, given>> /\ stdinOpen' = stdinOpen
      BY <1>2 DEF Pump, PumpTake, PumpRoute, PumpUnrouted, PumpSend, PumpBarrier, PumpFlush,
         PumpFlushed, PumpStop, Evict, callState, modeState, userState, loopState, endState
    <2>2. handle' = handle /\ shutdown' = shutdown
      BY <1>2, RouterEnds DEF Pump, PumpTake, PumpRoute, PumpUnrouted, PumpSend, PumpBarrier, PumpFlush,
         PumpFlushed, PumpStop, Evict
    <2> QED
      BY <2>1, <2>2, EndFrames DEF EndInv
  <1>3. CASE Consume
    <2>1. /\ UNCHANGED <<call, given>> /\ UNCHANGED <<routed, enabling, call, given>>
          /\ UNCHANGED <<rlPc, rlOut, waited>> /\ UNCHANGED <<rlPc, given>> /\ stdinOpen' = stdinOpen
      BY <1>3 DEF Consume, DrainOrphans, ReadEvents, WaitReceive, WaitClosed, Abandon,
         callState, modeState, userState, loopState, endState
    <2>2. /\ \A h \in Queries : handle'[h] = "open" => handle[h] = "open"
          /\ shutdown' = shutdown
      BY <1>0, <1>3, RouterEnds, DetachEnds DEF Consume, DrainOrphans, ReadEvents, WaitReceive, WaitClosed, Abandon
    <2> QED
      BY <2>1, <2>2, EndFrames DEF EndInv
  <1>4. ASSUME NEW c \in Callers, StartCall(c)
        PROVE  EndInv'
    <2>1. /\ UNCHANGED <<routed, enabling, given>> /\ UNCHANGED <<rlPc, rlOut, waited>>
          /\ UNCHANGED <<rlPc, given>> /\ stdinOpen' = stdinOpen /\ UNCHANGED routerState
      BY <1>4 DEF StartCall, callState, modeState, userState, loopState, endState
    <2>2. /\ \A d \in Callers : d # c => call'[d] = call[d]
          /\ call'[c].op = "QueryCtx" => call'[c].pc = "enable"
          /\ ~Holding(call[c])
      <3>1. PICK op \in Ops : \E pc \in {"enable", "prepare", "validate"} :
              /\ Becomes(c, [pc |-> pc, op |-> op, gen |-> 0, out |-> << >>])
              /\ op = "QueryCtx" => pc = "enable"
        BY <1>4, StartForm
      <3>2. PICK pc \in {"enable", "prepare", "validate"} :
              /\ Becomes(c, [pc |-> pc, op |-> op, gen |-> 0, out |-> << >>])
              /\ op = "QueryCtx" => pc = "enable"
        BY <3>1
      <3>3. call[c].pc = "idle"
        BY <1>4 DEF StartCall
      <3> QED
        BY <1>0, <3>2, <3>3 DEF CallTypes, Holding, Marked, Becomes
    <2>3. OpenIsHeld'
      BY <2>1, <2>2, RouterEnds DEF EndInv, OpenIsHeld, Holding, Marked
    <2>4. RoutedFirst'
      BY <2>1, <2>2 DEF EndInv, RoutedFirst
    <2> QED
      BY <2>1, <2>3, <2>4, RouterEnds, EndFrames DEF EndInv
  <1> QED
    BY <1>1, <1>2, <1>3, <1>4, LoopKeepsEnd, CallKeepsEnd DEF Next, Terminated

\* When the session has ended and no call is under way, every handle is closed:
\* wherever a call was interrupted, its handle is either the router's active one,
\* which shutdownRouter closes, or was never handed out and is closed by the
\* call itself; and shutdownRouter runs whenever anybody has a handle, although
\* it asks for the mode without a lock.
THEOREM EndClosesHandles == Spec => []EndedSessionClosesHandles
  <1>1. Init => EndInv
    BY RouterFacts DEF Init, EndInv, OpenIsHeld, RoutedFirst, EndIsWaited, EndIsShutdown, Ending,
       Router!RouterInit, NoCall
  <1>2. SessionTypes /\ EndInv => EndedSessionClosesHandles
    <2> SUFFICES ASSUME SessionTypes, EndInv, rlPc = "ended", \A c \in Callers : call[c].pc = "idle",
                        NEW g \in Queries, handle[g] = "open"
                 PROVE  FALSE
      BY DEF EndedSessionClosesHandles
    <2>1. g \in given
      BY DEF EndInv, OpenIsHeld, Holding, Marked
    <2>2. shutdown
      BY <2>1 DEF EndInv, EndIsShutdown
    <2>3. active = 0 /\ g = active
      BY <2>2, RouterFacts DEF SessionTypes, RouterTypes, Router!OnlyActiveOpen
    <2> QED
      BY <2>3, RouterFacts
  <1> QED
    BY <1>1, <1>2, InitTypes, NextKeepsTypes, NextKeepsEnd, PTL DEF Spec

-----------------------------------------------------------------------------
(* An answer reaches the query it answers, if QueryCtx is the only call    *)

Answers == {"result", "unsolicited"}

\* An event that answers a query carries no generation but that query's.
Own == {sev \in Router!Stamped :
          sev.ev.kind \in Answers /\ sev.gen # 0 => sev.gen \in sev.ev.of}

\* What callers and the ticker send answers nothing.
Notices == {sev \in Router!Stamped : sev.ev.kind \notin Answers}

\* What the handle of query g may yield.
AnswersFor(g) == {sev \in Router!Stamped : sev.ev.kind \in Answers => g \in sev.ev.of}

\* From readLoop, the ticker and the callers to the router.
OwnPipe ==
  /\ rlOut \in Seq(Own) /\ pump \in Seq(Own) /\ pumpEv \in Seq(Own)
  /\ tickOut \in Seq(Notices)
  /\ \A c \in Callers : call[c].out \in Seq(Notices)

\* From the router to the consumer: what is being delivered to a full mailbox
\* is for the active handle.
OwnRouter ==
  /\ \A g \in Queries : mailbox[g] \in Seq(AnswersFor(g))
  /\ active # 0 => evicting \in Seq(AnswersFor(active))

OwnAnswers ==
  /\ DOMAIN answer = Queries
  /\ \A g \in Queries : answer[g].by \in Answers => g \in answer[g].of

\* Only the transition before a held result takes a generation.
HeldIsLast ==
  rlPc = "held" =>
    /\ Len(rlOut) \in {1, 2}
    /\ Len(rlOut) = 1 => rlOut[1].gen = 0
    /\ Len(rlOut) = 2 => rlOut[1].ev.kind \notin Answers

OwnInv == OwnPipe /\ OwnRouter /\ OwnAnswers /\ HeldIsLast

\* A query on its way through the CLI: a line that answers it, ...
AnswerIn(seq, i) == i \in DOMAIN seq /\ seq[i].kind = "result" /\ seq[i].of # {}

\* ... or, read but not yet tracked, what readLoop holds.
InWindow == rlPc \in {"clear", "track"} /\ rlOut[1].ev.kind = "result"

InStdin == stdin # << >>
InTurn == turn.of # {}
InStdout == \E i \in DOMAIN stdout : AnswerIn(stdout, i)
InCall == \E c \in Callers : Asking(call[c])

\* One query is asked at a time: it is in one place, once, and the session is
\* not idle meanwhile.
OneAtATime ==
  /\ InStdin => ~InTurn /\ ~InStdout /\ ~InWindow /\ ~InCall
  /\ InTurn => ~InStdout /\ ~InWindow /\ ~InCall
  /\ InStdout => ~InWindow /\ ~InCall
  /\ InWindow => ~InCall
  /\ InStdin \/ InTurn \/ InStdout \/ InWindow \/ InCall => state # "idle"

OnlyOne ==
  /\ Len(stdin) <= 1
  /\ \A i, j \in DOMAIN stdout : AnswerIn(stdout, i) /\ AnswerIn(stdout, j) => i = j
  /\ \A c, d \in Callers : Asking(call[c]) /\ Asking(call[d]) => c = d
  /\ \A c \in Callers : call[c].op \in {"none", "QueryCtx"}

\* Every turn but one of the CLI's own answers a query.
TurnAsks ==
  /\ \A i \in DOMAIN stdin : stdin[i].q # 0
  /\ turn.kind = "caller" => turn.of # {}
  /\ turn.kind = "none" => turn.of = {}
  /\ \A i \in DOMAIN stdout : stdout[i].kind = "result" /\ ~stdout[i].note => stdout[i].of # {}

\* The active generation, if there is one, is that of the query being asked.
ActiveIsAsked ==
  /\ \A i \in DOMAIN stdin : activeGen \in {0, stdin[i].q}
  /\ \A h \in turn.of : activeGen \in {0, h}
  /\ \A i \in DOMAIN stdout : stdout[i].kind = "result" =>
       \A h \in stdout[i].of : activeGen \in {0, h}
  /\ \A c \in Callers : Asking(call[c]) =>
       \/ activeGen = 0
       \/ call[c].pc \notin {"count", "arm", "store"} /\ activeGen = call[c].gen
  /\ state = "idle" => activeGen = 0
  /\ rlPc = "track" /\ rlOut[1].ev.kind = "result" => activeGen = 0

\* Past an echo, no result of a turn of the CLI's own comes before the answer.
AnswerFollows(seq, i, n) == \E k \in (i + 1)..n : AnswerIn(seq, k)

EchoFirst(seq, i, over) ==
  /\ \A j \in (i + 1)..Len(seq) : seq[j].kind = "result" => AnswerFollows(seq, i, j)
  /\ over => AnswerFollows(seq, i, Len(seq))

TurnOver == cli = "up" /\ turn.of = {}

\* The echo has been read, and the answer has not.
EchoRead == promptEchoed /\ state = "running" /\ rlPc \notin {"clear", "track"} \cup Ending

EchoBeforeAnswer ==
  /\ EchoRead => EchoFirst(stdout, 0, TurnOver)
  /\ \A i \in DOMAIN stdout : stdout[i].kind = "echo" => EchoFirst(stdout, i, TurnOver)

TurnInv == OneAtATime /\ OnlyOne /\ TurnAsks /\ ActiveIsAsked /\ EchoBeforeAnswer

-----------------------------------------------------------------------------
(* What comes out of a handle                                              *)

LEMMA OwnKinds ==
  /\ Own \subseteq Router!Stamped /\ Notices \subseteq Own
  /\ \A sev \in Router!Stamped : sev.gen = 0 \/ sev.ev.kind \notin Answers => sev \in Own
  /\ \A sev \in Own : \A g \in Queries : sev.gen = g => sev \in AnswersFor(g)
  /\ \A S : << >> \in Seq(S)
  <1>1. \A g \in Queries : g # 0
    BY RouterFacts
  <1> QED
    BY <1>1 DEF Own, Notices, AnswersFor

LEMMA StampedFields ==
  ASSUME NEW kind, NEW of, NEW gen
  PROVE  /\ StampedAs(kind, of, gen).ev.kind = kind /\ StampedAs(kind, of, gen).ev.of = of
         /\ StampedAs(kind, of, gen).gen = gen
  BY DEF StampedAs, Ev

LEMMA MailboxKeeps ==
  ASSUME RouterTypes, \A h \in Queries : mailbox[h] \in Seq(AnswersFor(h)),
         NEW g, NEW seq, g \in Queries => seq \in Seq(AnswersFor(g)),
         mailbox' = [mailbox EXCEPT ![g] = seq]
  PROVE  \A h \in Queries : mailbox'[h] \in Seq(AnswersFor(h))
  <1>1. DOMAIN mailbox = Queries
    BY RouterFacts DEF RouterTypes, Router!RouterTypeOK
  <1> QED
    BY <1>1

LEMMA RouteKeepsOwn ==
  ASSUME RouterTypes, OwnRouter, NEW sev \in Own, Router!RouteStamped(sev)
  PROVE  OwnRouter'
  <1>1. CASE Router!DropAfterShutdown(sev)
    BY <1>1 DEF Router!DropAfterShutdown, Router!routerVars, OwnRouter
  <1>2. CASE Router!Deliver(sev)
    <2>1. active = sev.gen /\ active # 0
      BY <1>2, RouterFacts DEF Router!Deliver, Router!Addressed
    <2>2. active \in Queries
      BY <2>1, RouterFacts DEF RouterTypes, Router!RouterTypeOK
    <2>3. sev \in AnswersFor(active) /\ mailbox[active] \in Seq(AnswersFor(active))
      BY <2>1, <2>2, OwnKinds DEF OwnRouter
    <2>4. Append(mailbox[active], sev) \in Seq(AnswersFor(active))
      BY <2>3, SequenceTypes
    <2>5. \A h \in Queries : mailbox'[h] \in Seq(AnswersFor(h))
      BY <1>2, <2>4, MailboxKeeps DEF Router!Deliver, OwnRouter
    <2> QED
      BY <1>2, <2>5 DEF Router!Deliver, OwnRouter
  <1>3. CASE Router!FindFull(sev)
    <2>1. active = sev.gen /\ active # 0
      BY <1>3, RouterFacts DEF Router!FindFull, Router!Addressed
    <2>2. active \in Queries
      BY <2>1, RouterFacts DEF RouterTypes, Router!RouterTypeOK
    <2>3. sev \in AnswersFor(active)
      BY <2>1, <2>2, OwnKinds
    <2>4. <<sev>> \in Seq(AnswersFor(active))
      BY <2>3
    <2> QED
      BY <1>3, <2>4 DEF Router!FindFull, OwnRouter
  <1>4. CASE Router!Orphan(sev)
    BY <1>4 DEF Router!Orphan, OwnRouter
  <1> QED
    BY <1>1, <1>2, <1>3, <1>4 DEF Router!RouteStamped

LEMMA EvictKeepsOwn ==
  ASSUME RouterTypes, OwnRouter, Router!Evict
  PROVE  OwnRouter'
  <1> DEFINE kept == IF mailbox[active] = << >> THEN mailbox[active] ELSE Tail(mailbox[active])
  <1>1. << >> \in Seq(AnswersFor(active))
    BY OwnKinds
  <1>2. active \in Queries => Append(kept, evicting[1]) \in Seq(AnswersFor(active))
    <2> SUFFICES ASSUME active \in Queries
                 PROVE  Append(kept, evicting[1]) \in Seq(AnswersFor(active))
      OBVIOUS
    <2>1. mailbox[active] \in Seq(AnswersFor(active)) /\ evicting \in Seq(AnswersFor(active))
          /\ evicting # << >>
      BY RouterFacts DEF OwnRouter, Router!Evict
    <2>2. kept \in Seq(AnswersFor(active)) /\ evicting[1] \in AnswersFor(active)
      BY <2>1, HeadTypes
    <2> QED
      BY <2>2, SequenceTypes
  <1>3. mailbox' = [mailbox EXCEPT ![active] = Append(kept, evicting[1])] \/ mailbox' = mailbox
    <2>1. CASE active \in Queries
      BY <2>1, RouterFacts DEF Router!Evict, RouterTypes, Router!RouterTypeOK
    <2>2. CASE active \notin Queries
      BY <2>2, RouterFacts DEF Router!Evict, RouterTypes, Router!RouterTypeOK
    <2> QED
      BY <2>1, <2>2
  <1>4. \A h \in Queries : mailbox'[h] \in Seq(AnswersFor(h))
    <2> HIDE DEF kept
    <2> QED
      BY <1>2, <1>3, MailboxKeeps DEF OwnRouter
  <1> QED
    BY <1>1, <1>4 DEF Router!Evict, OwnRouter

LEMMA RouterKeepsOwn ==
  ASSUME RouterTypes, OwnRouter
  PROVE  /\ \A ev : Router!Flush(ev) => OwnRouter'
         /\ \A g : Router!Arm(g) => OwnRouter'
         /\ \A g, reason : Router!Detach(g, reason) => OwnRouter'
         /\ Router!ShutdownRouter("ended") => OwnRouter'
         /\ \A g \in Queries : Router!Receive(g) => OwnRouter'
         /\ Router!DrainOrphans => OwnRouter'
         /\ UNCHANGED routerState => OwnRouter'
  <1>1. \A S : << >> \in Seq(S)
    BY OwnKinds
  <1>2. \A ev : Router!Flush(ev) => OwnRouter'
    BY DEF Router!Flush, OwnRouter
  <1>3. \A g : Router!Arm(g) => OwnRouter'
    BY <1>1 DEF Router!Arm, Router!Unlocked, OwnRouter
  <1>4. \A g, reason : Router!Detach(g, reason) => OwnRouter'
    BY <1>1 DEF Router!Detach, Router!Unlocked, OwnRouter
  <1>5. Router!ShutdownRouter("ended") => OwnRouter'
    BY <1>1 DEF Router!ShutdownRouter, Router!Unlocked, OwnRouter
  <1>6. ASSUME NEW g \in Queries, Router!Receive(g)
        PROVE  OwnRouter'
    <2>1. mailbox[g] # << >> /\ mailbox[g] \in Seq(AnswersFor(g))
          /\ mailbox' = [mailbox EXCEPT ![g] = Tail(mailbox[g])]
      BY <1>6 DEF Router!Receive, OwnRouter
    <2>2. \A h \in Queries : mailbox'[h] \in Seq(AnswersFor(h))
      BY <2>1, HeadTypes, MailboxKeeps DEF OwnRouter
    <2> QED
      BY <1>6, <2>2 DEF Router!Receive, OwnRouter
  <1>7. Router!DrainOrphans => OwnRouter'
    BY DEF Router!DrainOrphans, OwnRouter
  <1>8. UNCHANGED routerState => OwnRouter'
    BY DEF routerState, OwnRouter
  <1> QED
    BY <1>2, <1>3, <1>4, <1>5, <1>6, <1>7, <1>8

\* What readLoop holds is in any set of events that has the notices it stamps,
\* those that take the stamp of an event, the held results and the result it stamps.
Stamps(S) ==
  /\ S \subseteq Router!Stamped
  /\ \A sev \in Notices : sev.gen = activeGen => sev \in S
  /\ \A sev \in Notices, old \in S : sev.gen = old.gen => sev \in S
  /\ \A of \in SUBSET Queries : StampedAs("unsolicited", of, 0) \in S
  /\ ReadResult => StampedAs("result", Head(stdout).of, activeGen) \in S

LEMMA LoopStamps ==
  ASSUME SessionTypes, HeldIsLast, ReadLoop, NEW S, Stamps(S),
         NEW P, S \subseteq P, rlOut \in Seq(S), pump \in Seq(P)
  PROVE  rlOut' \in Seq(S) /\ pump' \in Seq(P) /\ HeldIsLast'
  <1> USE DEF Stamps
  <1>0. /\ activeGen \in 0..MaxGen /\ 0 \in 0..MaxGen /\ {} \in SUBSET Queries
        /\ rlOut \in Seq(Router!Stamped) /\ CLITypes
    BY CLIAssumption DEF SessionTypes, QueryTypes, LoopTypes
  <1>1. \A kind \in Kinds, of \in SUBSET Queries :
          kind \notin Answers => /\ StampedAs(kind, of, activeGen) \in S
                                 /\ <<StampedAs(kind, of, activeGen)>> \in Seq(S)
    <2> SUFFICES ASSUME NEW kind \in Kinds, NEW of \in SUBSET Queries, kind \notin Answers
                 PROVE  /\ StampedAs(kind, of, activeGen) \in S
                        /\ <<StampedAs(kind, of, activeGen)>> \in Seq(S)
      OBVIOUS
    <2>1. StampedAs(kind, of, activeGen) \in Notices
      BY <1>0, StampedType, StampedFields DEF Notices
    <2>2. StampedAs(kind, of, activeGen) \in S
      BY <2>1, StampedFields
    <2> QED
      BY <2>2, SequenceTypes
  <1>2. ASSUME NEW next \in Activities, NEW sev \in S, NEW pc, WithTransition(next, sev, pc)
        PROVE  /\ rlOut' \in Seq(S) /\ rlPc' = pc /\ Len(rlOut') \in {1, 2}
               /\ Len(rlOut') = 1 => rlOut'[1] = sev
               /\ Len(rlOut') = 2 => rlOut'[1].ev.kind \notin Answers
    <2>1. /\ rlPc' = pc
          /\ \/ rlOut' = <<sev>>
             \/ /\ rlOut' = <<StampedAs(next, sev.ev.of, sev.gen), sev>>
                /\ StampedAs(next, sev.ev.of, sev.gen) \in Router!Stamped
      BY <1>2, WithTransitionTypes
    <2>2. next \notin Answers
      BY DEF Activities, Answers
    <2>3. CASE rlOut' = <<sev>>
      BY <2>1, <2>3, SequenceTypes
    <2>4. CASE /\ rlOut' = <<StampedAs(next, sev.ev.of, sev.gen), sev>>
               /\ StampedAs(next, sev.ev.of, sev.gen) \in Router!Stamped
      <3> DEFINE first == StampedAs(next, sev.ev.of, sev.gen)
      <3>1. first.ev.kind \notin Answers /\ first \in S
        BY <2>2, <2>4, StampedFields DEF Notices
      <3> HIDE DEF first
      <3>2. <<first, sev>> \in Seq(S) /\ Len(<<first, sev>>) = 2 /\ <<first, sev>>[1] = first
        BY <3>1, PairTypes
      <3> QED
        BY <2>1, <2>4, <3>1, <3>2 DEF first
    <2> QED
      BY <2>1, <2>3, <2>4
  <1>3. CASE ReadEcho \/ ClosePump \/ CheckRouted \/ Shutdown \/ Finish
    <2>1. rlOut' = rlOut /\ pump' = pump /\ (rlPc' = rlPc \/ rlPc' # "held")
      BY <1>3 DEF ReadEcho, ClosePump, CheckRouted, Shutdown, Finish, loopState, pumpState
    <2> QED
      BY <2>1 DEF HeldIsLast
  <1>4. CASE ReadInit
    <2>1. rlOut' = <<StampedAs("init", {}, activeGen)>> /\ rlPc' = "push" /\ pump' = pump
      BY <1>4 DEF ReadInit, pumpState
    <2> QED
      BY <1>0, <1>1, <2>1 DEF HeldIsLast, Kinds, Answers
  <1>5. CASE ReadTool
    <2> DEFINE sev == StampedAs("tool", Head(stdout).of, activeGen)
    <2>1. sev \in S
      BY <1>0, <1>1, <1>5, ReadsTypes DEF ReadTool, Kinds, Answers
    <2>2. WithTransition("awaiting", sev, "push") /\ pump' = pump
      BY <1>5 DEF ReadTool, pumpState
    <2> HIDE DEF sev
    <2>3. rlOut' \in Seq(S) /\ rlPc' = "push"
      BY <1>2, <2>1, <2>2 DEF Activities
    <2> QED
      BY <2>2, <2>3 DEF HeldIsLast
  <1>6. CASE ReadHeldResult
    <2> DEFINE sev == StampedAs("unsolicited", Head(stdout).of, 0)
               next == IF state = "running" THEN "thinking" ELSE "idle"
    <2>1. sev \in S /\ sev.gen = 0
      BY <1>0, <1>6, ReadsTypes, StampedFields DEF ReadHeldResult
    <2>2. WithTransition(next, sev, "held") /\ pump' = pump
      BY <1>6 DEF ReadHeldResult, pumpState
    <2>3. next \in Activities
      BY DEF Activities
    <2> HIDE DEF sev, next
    <2>4. /\ rlOut' \in Seq(S) /\ Len(rlOut') \in {1, 2}
          /\ Len(rlOut') = 1 => rlOut'[1] = sev
          /\ Len(rlOut') = 2 => rlOut'[1].ev.kind \notin Answers
      BY <1>2, <2>1, <2>2, <2>3
    <2> QED
      BY <2>1, <2>2, <2>4 DEF HeldIsLast
  <1>7. CASE StampHeld
    <2> DEFINE first == [rlOut[1] EXCEPT !.gen = IF Len(rlOut) = 2 THEN activeGen ELSE @]
    <2>1. rlOut # << >> /\ rlPc = "held" /\ pump' = pump /\ rlPc' = "push"
          /\ rlOut' = [rlOut EXCEPT ![1] = first]
      BY <1>7 DEF StampHeld, SessionTypes, LoopTypes, pumpState
    <2>2. rlOut[1] \in S /\ rlOut[1] \in Router!Stamped
      BY <2>1, HeadTypes
    <2>3. first \in S
      <3>1. CASE Len(rlOut) = 2
        <4>1. first \in Router!Stamped /\ first.ev = rlOut[1].ev /\ first.gen = activeGen
          BY <1>0, <2>2, <3>1 DEF Router!Stamped
        <4>2. rlOut[1].ev.kind \notin Answers
          BY <2>1, <3>1 DEF HeldIsLast
        <4> QED
          BY <4>1, <4>2 DEF Notices
      <3>2. CASE Len(rlOut) # 2
        <4>1. first = rlOut[1]
          BY <2>2, <3>2 DEF Router!Stamped
        <4> QED
          BY <2>2, <4>1
      <3> QED
        BY <3>1, <3>2
    <2> HIDE DEF first
    <2> QED
      BY <2>1, <2>3, FirstReplaced DEF HeldIsLast
  <1>8. ASSUME NEW kind \in Kinds, NEW of \in SUBSET Queries, StampTerminal(kind, of),
               StampedAs(kind, of, activeGen) \in S
        PROVE  rlOut' \in Seq(S) /\ pump' \in Seq(P) /\ HeldIsLast'
    <2>1. rlOut' = <<StampedAs(kind, of, activeGen)>> /\ rlPc' = "clear" /\ pump' = pump
      BY <1>8 DEF StampTerminal, pumpState
    <2>2. <<StampedAs(kind, of, activeGen)>> \in Seq(S)
      BY <1>8, SequenceTypes
    <2> QED
      BY <2>1, <2>2 DEF HeldIsLast
  <1>9. CASE ReadResult
    <2>1. StampTerminal("result", Head(stdout).of) /\ Head(stdout).of \in SUBSET Queries
      BY <1>0, <1>9, ReadsTypes DEF ReadResult
    <2> QED
      BY <1>8, <1>9, <2>1 DEF Kinds
  <1>10. CASE ReadApiError
    <2>1. StampTerminal("fatal", Head(stdout).of) /\ Head(stdout).of \in SUBSET Queries
      BY <1>0, <1>10, ReadsTypes DEF ReadApiError
    <2>2. StampedAs("fatal", Head(stdout).of, activeGen) \in S
      BY <1>0, <1>1, <2>1 DEF Kinds, Answers
    <2> QED
      BY <1>8, <2>1, <2>2 DEF Kinds
  <1>11. CASE WaitProcess
    <2>1. \/ StampTerminal("fatal", {})
          \/ rlOut' = rlOut /\ rlPc' = rlPc /\ pump' = pump
      BY <1>11 DEF WaitProcess, pumpState
    <2> QED
      BY <1>0, <1>1, <1>8, <2>1 DEF Kinds, Answers, HeldIsLast
  <1>12. CASE StampExit
    <2>1. StampTerminal("exit", {})
      BY <1>12 DEF StampExit
    <2> QED
      BY <1>0, <1>1, <1>8, <2>1 DEF Kinds, Answers
  <1>13. CASE ClearGen \/ TrackState
    <2>1. rlOut' = rlOut /\ pump' = pump /\ rlPc' # "held"
      BY <1>13 DEF ClearGen, TrackState, pumpState
    <2> QED
      BY <2>1 DEF HeldIsLast
  <1>14. CASE ObserveTerminal
    <2>1. rlOut # << >> /\ WithTransition("idle", rlOut[1], "push") /\ pump' = pump
      BY <1>14 DEF ObserveTerminal, SessionTypes, LoopTypes, pumpState
    <2>2. rlOut[1] \in S
      BY <2>1, HeadTypes
    <2>3. rlOut' \in Seq(S) /\ rlPc' = "push"
      BY <1>2, <2>1, <2>2 DEF Activities
    <2> QED
      BY <2>1, <2>3 DEF HeldIsLast
  <1>15. CASE Push
    <2>1. /\ rlOut # << >> /\ rlOut' = Tail(rlOut) /\ rlPc' # "held"
          /\ pump' = pump \/ pump' = Append(pump, Head(rlOut))
      BY <1>15 DEF Push, SessionTypes, LoopTypes
    <2>2. Head(rlOut) \in S /\ Tail(rlOut) \in Seq(S)
      BY <2>1, HeadTypes
    <2>3. pump' \in Seq(P)
      <3>1. pump \in Seq(P)
        OBVIOUS
      <3>2. Append(pump, Head(rlOut)) \in Seq(P)
        BY <2>2, <3>1, SequenceTypes
      <3> QED
        BY <2>1, <3>1, <3>2
    <2> QED
      BY <2>1, <2>2, <2>3 DEF HeldIsLast
  <1>16. CASE DeliverExit
    <2>1. rlOut' = << >> /\ rlPc' # "held" /\ pump' = pump
      BY <1>16 DEF DeliverExit
    <2> QED
      BY <2>1, OwnKinds DEF HeldIsLast
  <1> QED
    BY <1>3, <1>4, <1>5, <1>6, <1>7, <1>9, <1>10, <1>11, <1>12, <1>13, <1>14, <1>15, <1>16
       DEF ReadLoop

\* It stamps an answer with its query's generation, or with none.
LEMMA StampsOwn ==
  ASSUME SessionTypes, ReadLoop,
         ReadResult => activeGen = 0 \/ activeGen \in Head(stdout).of
  PROVE  Stamps(Own)
  <1>1. activeGen \in 0..MaxGen /\ 0 \in 0..MaxGen /\ CLITypes
    BY CLIAssumption DEF SessionTypes, QueryTypes
  <1>2. \A of \in SUBSET Queries : StampedAs("unsolicited", of, 0) \in Own
    BY <1>1, StampedType, StampedFields DEF Own, Kinds
  <1>3. ASSUME ReadResult
        PROVE  StampedAs("result", Head(stdout).of, activeGen) \in Own
    <2>1. Head(stdout).of \in SUBSET Queries
      BY <1>1, <1>3, ReadsTypes DEF ReadResult
    <2>2. StampedAs("result", Head(stdout).of, activeGen) \in Router!Stamped
      BY <1>1, <2>1, StampedType DEF Kinds
    <2> QED
      BY <1>3, <2>2, StampedFields DEF Own
  <1>4. Notices \subseteq Own /\ Own \subseteq Router!Stamped
    BY OwnKinds
  <1> QED
    BY <1>2, <1>3, <1>4 DEF Stamps

\* readLoop, the pump, the ticker, the callers and the consumers hand an event
\* on as it is.
LEMMA LoopKeepsOwn ==
  ASSUME SessionTypes, OwnInv, ReadLoop,
         ReadResult => activeGen = 0 \/ activeGen \in Head(stdout).of
  PROVE  OwnInv'
  <1> USE DEF OwnInv
  <1>1. rlOut' \in Seq(Own) /\ pump' \in Seq(Own) /\ HeldIsLast'
    <2>1. Stamps(Own)
      BY StampsOwn
    <2> QED
      BY <2>1, LoopStamps DEF OwnPipe
  <1>2. UNCHANGED <<pumpEv, tickOut, call, answer>>
    BY DEF ReadLoop, ReadEcho, ReadInit, ReadTool, ReadHeldResult, StampHeld, ReadResult,
       ReadApiError, ClearGen, TrackState, ObserveTerminal, Push, WaitProcess, ClosePump,
       StampExit, DeliverExit, CheckRouted, Shutdown, Finish, StampTerminal,
       pumpState, tickState, callState, userState
  <1>3. OwnPipe'
    BY <1>1, <1>2 DEF OwnPipe
  <1>4. OwnRouter'
    <2>1. CASE DeliverExit
      <3>1. rlOut[1] \in Own
        BY <2>1, HeadTypes DEF DeliverExit, SessionTypes, LoopTypes, OwnPipe
      <3> QED
        BY <2>1, <3>1, RouteKeepsOwn, RouterKeepsOwn DEF DeliverExit, SessionTypes
    <2>2. CASE Shutdown
      BY <2>2, RouterKeepsOwn DEF Shutdown, SessionTypes
    <2>3. CASE ~DeliverExit /\ ~Shutdown
      <3>1. UNCHANGED routerState
        BY <2>3 DEF ReadLoop, ReadEcho, ReadInit, ReadTool, ReadHeldResult, StampHeld, ReadResult,
           ReadApiError, ClearGen, TrackState, ObserveTerminal, Push, WaitProcess, ClosePump,
           StampExit, CheckRouted, Finish, StampTerminal
      <3> QED
        BY <3>1, RouterKeepsOwn DEF SessionTypes
    <2> QED
      BY <2>1, <2>2, <2>3
  <1>5. OwnAnswers'
    BY <1>2 DEF OwnAnswers
  <1> QED
    BY <1>1, <1>3, <1>4, <1>5

\* The pump takes what was enqueued as it is.
LEMMA PumpTakes ==
  ASSUME Pump, NEW S, pump \in Seq(S), pumpEv \in Seq(S)
  PROVE  pump' \in Seq(S) /\ pumpEv' \in Seq(S)
  <1>1. << >> \in Seq(S)
    BY OwnKinds
  <1>2. CASE PumpTake
    <2>1. Head(pump) \in S /\ Tail(pump) \in Seq(S)
      BY <1>2, HeadTypes DEF PumpTake
    <2> QED
      BY <1>2, <2>1, SequenceTypes DEF PumpTake
  <1>3. CASE ~PumpTake
    <2>1. pump' = pump /\ pumpEv' \in {pumpEv, << >>}
      BY <1>3 DEF Pump, PumpRoute, PumpUnrouted, PumpSend, PumpBarrier, PumpFlush,
         PumpFlushed, PumpStop, Evict, pumpState
    <2> QED
      BY <1>1, <2>1
  <1> QED
    BY <1>2, <1>3

LEMMA PumpKeepsOwn ==
  ASSUME SessionTypes, OwnInv, Pump
  PROVE  OwnInv'
  <1> USE DEF OwnInv
  <1>0. RouterTypes /\ PumpTypes
    BY DEF SessionTypes
  <1>1. UNCHANGED <<rlOut, tickOut, call, answer, rlPc>>
    BY DEF Pump, PumpTake, PumpRoute, PumpUnrouted, PumpSend, PumpBarrier, PumpFlush,
       PumpFlushed, PumpStop, Evict, loopState, tickState, callState, userState
  <1>2. pump' \in Seq(Own) /\ pumpEv' \in Seq(Own)
    BY PumpTakes DEF OwnPipe
  <1>3. OwnPipe' /\ HeldIsLast' /\ OwnAnswers'
    BY <1>1, <1>2 DEF OwnPipe, HeldIsLast, OwnAnswers
  <1>4. OwnRouter'
    <2>1. CASE PumpRoute
      <3>1. pumpEv[1] \in Own
        BY <1>0, <2>1, HeadTypes DEF PumpRoute, PumpTypes, OwnPipe
      <3> QED
        BY <1>0, <2>1, <3>1, RouteKeepsOwn DEF PumpRoute
    <2>2. CASE PumpFlush
      BY <1>0, <2>2, RouterKeepsOwn DEF PumpFlush
    <2>3. CASE Evict
      BY <1>0, <2>3, EvictKeepsOwn DEF Evict
    <2>4. CASE PumpTake \/ PumpUnrouted \/ PumpSend \/ PumpBarrier \/ PumpFlushed \/ PumpStop
      <3>1. UNCHANGED routerState
        BY <2>4 DEF PumpTake, PumpUnrouted, PumpSend, PumpBarrier, PumpFlushed, PumpStop
      <3> QED
        BY <1>0, <3>1, RouterKeepsOwn
    <2> QED
      BY <2>1, <2>2, <2>3, <2>4 DEF Pump
  <1> QED
    BY <1>3, <1>4

LEMMA SendEnqueues ==
  ASSUME NEW S, pump \in Seq(S), NEW sev \in S, SendSelect(sev)
  PROVE  pump' \in Seq(S)
  <1>1. Append(pump, sev) \in Seq(S)
    BY SequenceTypes
  <1> QED
    BY <1>1 DEF SendSelect

LEMMA TickerKeepsOwn ==
  ASSUME SessionTypes, OwnInv, Ticker
  PROVE  OwnInv'
  <1> USE DEF OwnInv
  <1>1. UNCHANGED <<rlOut, pumpEv, call, answer, rlPc>> /\ UNCHANGED routerState
    BY DEF Ticker, TickRead, TickStamp, TickSend, loopState, pumpState, callState, userState
  <1>2. pump' \in Seq(Own)
    <2>1. CASE TickSend
      <3>1. tickOut[1] \in Notices
        BY <2>1, HeadTypes DEF TickSend, SessionTypes, TickTypes, OwnPipe
      <3> QED
        BY <2>1, <3>1, OwnKinds, SendEnqueues DEF TickSend, OwnPipe
    <2>2. CASE TickRead \/ TickStamp
      BY <2>2 DEF TickRead, TickStamp, pumpState, OwnPipe
    <2> QED
      BY <2>1, <2>2 DEF Ticker
  <1>3. tickOut' \in Seq(Notices)
    <2>1. StampedAs("tick", {}, activeGen) \in Notices
      <3>1. StampedAs("tick", {}, activeGen) \in Router!Stamped
        BY StampedType DEF Kinds, SessionTypes, QueryTypes
      <3> QED
        BY <3>1, StampedFields DEF Notices, Answers
    <2>2. tickOut' \in {tickOut, << >>, <<StampedAs("tick", {}, activeGen)>>}
      BY DEF Ticker, TickRead, TickStamp, TickSend
    <2>3. <<StampedAs("tick", {}, activeGen)>> \in Seq(Notices)
      BY <2>1, SequenceTypes DEF OwnPipe
    <2> QED
      BY <2>2, <2>3, OwnKinds DEF OwnPipe
  <1>4. OwnPipe' /\ HeldIsLast' /\ OwnAnswers'
    BY <1>1, <1>2, <1>3 DEF OwnPipe, HeldIsLast, OwnAnswers
  <1> QED
    BY <1>1, <1>4, RouterKeepsOwn DEF SessionTypes

LEMMA BecomesOwn ==
  ASSUME CallTypes, OwnPipe, NEW c \in Callers, NEW k, Becomes(c, k), k.out \in Seq(Notices)
  PROVE  \A d \in Callers : call'[d].out \in Seq(Notices)
  BY DEF CallTypes, OwnPipe, Becomes

LEMMA CallKeepsOwn ==
  ASSUME SessionTypes, OwnInv, NEW c \in Callers, CallStep(c)
  PROVE  OwnInv'
  <1> USE DEF OwnInv
  <1>0. CallTypes /\ RouterTypes /\ activeGen \in 0..MaxGen /\ 0 \in 0..MaxGen
        /\ call[c].out \in Seq(Notices) /\ call[c].out \in Seq(Router!Stamped)
        /\ << >> \in Seq(Notices)
    BY CallParts, OwnKinds, CLIAssumption DEF SessionTypes, QueryTypes, OwnPipe
  <1>1. UNCHANGED <<rlOut, pumpEv, tickOut, answer, rlPc>>
    BY DEF CallStep, EnableRouting, CallStamp, CallSend, PrepareQuery, ValidateSendable, CountGen,
       ArmHandle, StoreGen, MarkQuery, WriteOk, WriteFails, FailGen, FailState, FailDetach,
       loopState, pumpState, tickState, userState
  <1>2. pump' \in Seq(Own)
    <2>1. CASE CallSend(c)
      <3>1. call[c].out[1] \in Notices
        BY <1>0, <2>1, SendingParts, HeadTypes DEF CallSend
      <3> QED
        BY <2>1, <3>1, OwnKinds, SendEnqueues DEF CallSend, OwnPipe
    <2>2. CASE ~CallSend(c)
      BY <2>2 DEF CallStep, EnableRouting, CallStamp, PrepareQuery, ValidateSendable, CountGen,
         ArmHandle, StoreGen, MarkQuery, WriteOk, WriteFails, FailGen, FailState, FailDetach,
         pumpState, OwnPipe
    <2> QED
      BY <2>1, <2>2
  <1>3. \A kind \in {"barrier", "thinking"} : <<StampedAs(kind, {}, 0)>> \in Seq(Notices)
    <2> SUFFICES ASSUME NEW kind \in {"barrier", "thinking"}
                 PROVE  <<StampedAs(kind, {}, 0)>> \in Seq(Notices)
      OBVIOUS
    <2>1. StampedAs(kind, {}, 0) \in Router!Stamped
      BY <1>0, StampedType DEF Kinds
    <2>2. StampedAs(kind, {}, 0) \in Notices
      BY <2>1, StampedFields DEF Notices, Answers
    <2> QED
      BY <1>0, <2>2, SequenceTypes
  <1>4. \A d \in Callers : call'[d].out \in Seq(Notices)
    <2>1. ASSUME NEW pc, NEW out, Becomes(c, Moved(c, pc, out)), out \in Seq(Notices)
          PROVE  \A d \in Callers : call'[d].out \in Seq(Notices)
      BY <1>0, <2>1, BecomesOwn, MovedFields
    <2>2. ASSUME Becomes(c, NoCall)
          PROVE  \A d \in Callers : call'[d].out \in Seq(Notices)
      BY <1>0, <2>2, BecomesOwn DEF NoCall
    <2>3. CASE EnableRouting(c) \/ MarkQuery(c)
      <3>1. \/ Becomes(c, Moved(c, "stamp", <<StampedAs("barrier", {}, 0)>>))
            \/ Becomes(c, Moved(c, "stamp", <<StampedAs("thinking", {}, 0)>>))
            \/ Becomes(c, Moved(c, "prepare", call[c].out))
            \/ Becomes(c, Moved(c, "write", call[c].out))
        BY <2>3, CallForms
      <3> QED
        BY <1>0, <1>3, <2>1, <3>1
    <2>4. CASE CallStamp(c)
      <3>1. CASE Becomes(c, Moved(c, SentPc(c), << >>))
        BY <1>0, <2>1, <3>1
      <3>2. ASSUME NEW out \in Seq(Router!Stamped), out # << >>,
                   out[1] = [ev |-> call[c].out[1].ev, gen |-> activeGen],
                   \A i \in DOMAIN out : i # 1 => i \in DOMAIN call[c].out /\ out[i] = call[c].out[i],
                   Becomes(c, Moved(c, "send", out))
            PROVE  \A d \in Callers : call'[d].out \in Seq(Notices)
        <4>1. out[1].ev = call[c].out[1].ev /\ out[1] \in Router!Stamped
          BY <3>2, HeadTypes
        <4>2. call[c].out[1] \in Notices
          BY <1>0, <2>4, SendingParts, HeadTypes DEF CallStamp
        <4>3. out[1] \in Notices
          BY <4>1, <4>2 DEF Notices
        <4>4. \A i \in 1..Len(out) : out[i] \in Notices
          BY <1>0, <3>2, <4>3
        <4>5. out \in Seq(Notices)
          BY <4>4
        <4> QED
          BY <2>1, <3>2, <4>5
      <3> QED
        BY <2>4, <3>1, <3>2, CallForms
    <2>5. CASE CallSend(c)
      BY <1>0, <2>1, <2>5, CallForms
    <2>6. CASE PrepareQuery(c) \/ ValidateSendable(c) \/ WriteOk(c) \/ FailDetach(c)
      <3>1. \/ Becomes(c, NoCall) \/ Becomes(c, Moved(c, "count", call[c].out))
            \/ Becomes(c, Moved(c, "mark", call[c].out))
        BY <2>6, CallForms
      <3> QED
        BY <1>0, <2>1, <2>2, <3>1
    <2>7. CASE CountGen(c)
      <3> DEFINE k == [pc |-> "arm", op |-> call[c].op, gen |-> genCounter + 1, out |-> call[c].out]
      <3>1. Becomes(c, k)
        BY <2>7, CallForms
      <3>2. k.out = call[c].out
        OBVIOUS
      <3> HIDE DEF k
      <3> QED
        BY <1>0, <3>1, <3>2, BecomesOwn
    <2>8. CASE ArmHandle(c) \/ StoreGen(c) \/ FailGen(c) \/ FailState(c) \/ WriteFails(c)
      <3>1. \/ Becomes(c, Moved(c, IF shutdown THEN "mark" ELSE "store", call[c].out))
            \/ Becomes(c, Moved(c, "mark", call[c].out))
            \/ Becomes(c, Moved(c, "failState", call[c].out))
            \/ Becomes(c, Moved(c, "detach", call[c].out))
            \/ Becomes(c, Moved(c, "fail", call[c].out)) \/ Becomes(c, NoCall)
        BY <2>8, CallForms
      <3> QED
        BY <1>0, <2>1, <2>2, <3>1
    <2> QED
      BY <2>3, <2>4, <2>5, <2>6, <2>7, <2>8 DEF CallStep
  <1>5. OwnPipe' /\ HeldIsLast' /\ OwnAnswers'
    BY <1>1, <1>2, <1>4 DEF OwnPipe, HeldIsLast, OwnAnswers
  <1>6. OwnRouter'
    <2>1. ArmHandle(c) \/ FailDetach(c) \/ UNCHANGED routerState
      BY DEF CallStep, EnableRouting, CallStamp, CallSend, PrepareQuery, ValidateSendable, CountGen,
         StoreGen, MarkQuery, WriteOk, WriteFails, FailGen, FailState
    <2> QED
      BY <1>0, <2>1, RouterKeepsOwn DEF ArmHandle, FailDetach
  <1> QED
    BY <1>5, <1>6

LEMMA ConsumeKeepsOwn ==
  ASSUME SessionTypes, OwnInv, Consume
  PROVE  OwnInv'
  <1> USE DEF OwnInv
  <1>0. RouterTypes
    BY DEF SessionTypes
  <1>1. UNCHANGED <<rlOut, pump, pumpEv, tickOut, call, rlPc>>
    BY DEF Consume, DrainOrphans, ReadEvents, WaitReceive, WaitClosed, Abandon,
       loopState, pumpState, tickState, callState
  <1>2. OwnPipe' /\ HeldIsLast'
    BY <1>1 DEF OwnPipe, HeldIsLast
  <1>3. CASE DrainOrphans \/ ReadEvents
    <2>1. answer' = answer /\ (Router!DrainOrphans \/ UNCHANGED routerState)
      BY <1>3 DEF DrainOrphans, ReadEvents
    <2> QED
      BY <1>0, <1>2, <2>1, RouterKeepsOwn DEF OwnAnswers
  <1>4. ASSUME NEW g \in Queries, WaitReceive(g)
        PROVE  OwnInv'
    <2>1. OwnRouter'
      BY <1>0, <1>4, RouterKeepsOwn DEF WaitReceive
    <2>2. Head(mailbox[g]) \in AnswersFor(g)
      BY <1>4, HeadTypes DEF WaitReceive, Router!Receive, OwnRouter
    <2>3. OwnAnswers'
      <3> DEFINE ev == Head(mailbox[g]).ev
                 got == [by |-> ev.kind, of |-> ev.of]
      <3>1. answer' = answer \/ answer' = [answer EXCEPT ![g] = got]
        BY <1>4 DEF WaitReceive
      <3>2. got.by \in Answers => g \in got.of
        BY <2>2 DEF AnswersFor
      <3> HIDE DEF got
      <3> QED
        BY <3>1, <3>2 DEF OwnAnswers
    <2> QED
      BY <1>2, <2>1, <2>3
  <1>5. ASSUME NEW g \in Queries, WaitClosed(g)
        PROVE  OwnInv'
    <2>1. OwnRouter'
      BY <1>0, <1>5, RouterKeepsOwn DEF WaitClosed
    <2>2. OwnAnswers'
      <3> DEFINE got == [by |-> "closed", of |-> {}]
      <3>1. answer' = [answer EXCEPT ![g] = got] /\ got.by \notin Answers
        BY <1>5 DEF WaitClosed, Answers
      <3> HIDE DEF got
      <3> QED
        BY <3>1 DEF OwnAnswers
    <2> QED
      BY <1>2, <2>1, <2>2
  <1>6. ASSUME NEW g \in Queries, Abandon(g)
        PROVE  OwnInv'
    <2>1. OwnRouter' /\ answer' = answer
      BY <1>0, <1>6, RouterKeepsOwn DEF Abandon, userState
    <2> QED
      BY <1>2, <2>1 DEF OwnAnswers
  <1> QED
    BY <1>3, <1>4, <1>5, <1>6 DEF Consume

LEMMA NextKeepsOwn ==
  ASSUME SessionTypes, OwnInv, [Next]_vars,
         ReadResult => activeGen = 0 \/ activeGen \in Head(stdout).of
  PROVE  OwnInv'
  <1>0. RouterTypes
    BY DEF SessionTypes
  <1>1. CASE CLIStep \/ Cancel \/ UNCHANGED vars
    <2>1. UNCHANGED <<rlOut, pump, pumpEv, tickOut, call, rlPc, answer>> /\ UNCHANGED routerState
      BY <1>1 DEF CLIStep, Cancel, vars, loopState, pumpState, tickState, callState, userState
    <2> QED
      BY <1>0, <2>1, RouterKeepsOwn DEF OwnInv, OwnPipe, HeldIsLast, OwnAnswers
  <1>2. ASSUME NEW c \in Callers, StartCall(c)
        PROVE  OwnInv'
    <2>1. UNCHANGED <<rlOut, pump, pumpEv, tickOut, rlPc, answer>> /\ UNCHANGED routerState
      BY <1>2 DEF StartCall, loopState, pumpState, tickState, userState
    <2>2. \A d \in Callers : call'[d].out \in Seq(Notices)
      <3>0. PICK op \in Ops : \E pc \in {"enable", "prepare", "validate"} :
              Becomes(c, [pc |-> pc, op |-> op, gen |-> 0, out |-> << >>])
        BY <1>2, StartForm
      <3>1. PICK pc \in {"enable", "prepare", "validate"} :
              Becomes(c, [pc |-> pc, op |-> op, gen |-> 0, out |-> << >>])
        BY <3>0
      <3> DEFINE k == [pc |-> pc, op |-> op, gen |-> 0, out |-> << >>]
      <3>2. Becomes(c, k)
        BY <3>1
      <3>3. k.out \in Seq(Notices)
        BY OwnKinds
      <3> HIDE DEF k
      <3> QED
        BY <3>2, <3>3, BecomesOwn DEF SessionTypes, OwnInv
    <2> QED
      BY <1>0, <2>1, <2>2, RouterKeepsOwn DEF OwnInv, OwnPipe, HeldIsLast, OwnAnswers
  <1> QED
    BY <1>1, <1>2, LoopKeepsOwn, PumpKeepsOwn, TickerKeepsOwn, CallKeepsOwn, ConsumeKeepsOwn
       DEF Next, Terminated

-----------------------------------------------------------------------------
(* Answers and echoes in a sequence of lines                               *)

\* A line that ends no turn.
Quiet == {line \in Line : line.kind # "result"}

\* The head of stdout is read.
LEMMA TailLines ==
  ASSUME NEW seq \in Seq(Line), seq # << >>
  PROVE  /\ \A i \in DOMAIN Tail(seq) : i + 1 \in DOMAIN seq /\ Tail(seq)[i] = seq[i + 1]
         /\ \A i \in Nat : AnswerIn(Tail(seq), i) <=> i > 0 /\ AnswerIn(seq, i + 1)
         /\ \A i \in Nat : \A over \in BOOLEAN :
              EchoFirst(seq, i + 1, over) => EchoFirst(Tail(seq), i, over)
         /\ seq[1].kind # "result" => \A over \in BOOLEAN :
              EchoFirst(seq, 0, over) => EchoFirst(Tail(seq), 0, over)
  <1> DEFINE rest == Tail(seq)
  <1>1. /\ Len(seq) \in Nat /\ Len(seq) >= 1 /\ Len(rest) = Len(seq) - 1
        /\ DOMAIN rest = 1..Len(rest) /\ DOMAIN seq = 1..Len(seq)
        /\ \A i \in 1..Len(rest) : rest[i] = seq[i + 1]
    OBVIOUS
  <1> HIDE DEF rest
  <1>2. \A i \in DOMAIN rest : i + 1 \in DOMAIN seq /\ rest[i] = seq[i + 1]
    BY <1>1
  <1>3. \A i \in Nat : AnswerIn(rest, i) <=> i > 0 /\ AnswerIn(seq, i + 1)
    <2> SUFFICES ASSUME NEW i \in Nat PROVE AnswerIn(rest, i) <=> i > 0 /\ AnswerIn(seq, i + 1)
      OBVIOUS
    <2>1. i \in DOMAIN rest <=> i > 0 /\ i + 1 \in DOMAIN seq
      BY <1>1
    <2> QED
      BY <1>2, <2>1 DEF AnswerIn
  <1>4. ASSUME NEW i \in Nat, NEW n \in Nat, AnswerFollows(seq, i + 1, n + 1)
        PROVE  AnswerFollows(rest, i, n)
    <2>1. PICK k \in (i + 2)..(n + 1) : AnswerIn(seq, k)
      BY <1>4 DEF AnswerFollows
    <2>2. k - 1 \in Nat /\ k - 1 \in (i + 1)..n /\ k - 1 > 0 /\ (k - 1) + 1 = k
      OBVIOUS
    <2>3. AnswerIn(rest, k - 1)
      BY <1>3, <2>1, <2>2
    <2> QED
      BY <2>2, <2>3 DEF AnswerFollows
  <1>5. ASSUME NEW i \in Nat, NEW over \in BOOLEAN, EchoFirst(seq, i + 1, over)
        PROVE  EchoFirst(rest, i, over)
    <2>1. ASSUME NEW j \in (i + 1)..Len(rest), rest[j].kind = "result"
          PROVE  AnswerFollows(rest, i, j)
      <3>1. j \in Nat /\ j + 1 \in (i + 2)..Len(seq) /\ seq[j + 1].kind = "result"
        BY <1>1, <2>1
      <3>2. AnswerFollows(seq, i + 1, j + 1)
        BY <1>5, <3>1 DEF EchoFirst
      <3> QED
        BY <1>4, <3>1, <3>2
    <2>2. over => AnswerFollows(rest, i, Len(rest))
      <3>1. Len(rest) \in Nat /\ Len(rest) + 1 = Len(seq)
        BY <1>1
      <3> QED
        BY <1>4, <1>5, <3>1 DEF EchoFirst
    <2> QED
      BY <2>1, <2>2 DEF EchoFirst
  <1>6. ASSUME seq[1].kind # "result", NEW over \in BOOLEAN, EchoFirst(seq, 0, over)
        PROVE  EchoFirst(seq, 1, over)
    <2>1. ASSUME NEW n, AnswerFollows(seq, 0, n)
          PROVE  AnswerFollows(seq, 1, n)
      <3>1. PICK k \in 1..n : AnswerIn(seq, k)
        BY <2>1 DEF AnswerFollows
      <3>2. k # 1
        BY <1>6, <3>1 DEF AnswerIn
      <3> QED
        BY <3>1, <3>2 DEF AnswerFollows
    <2>2. \A j \in 2..Len(seq) : j \in 1..Len(seq)
      BY <1>1
    <2> QED
      BY <1>6, <2>1, <2>2 DEF EchoFirst
  <1>7. 0 \in Nat /\ 0 + 1 = 1
    OBVIOUS
  <1>8. ASSUME seq[1].kind # "result", NEW over \in BOOLEAN, EchoFirst(seq, 0, over)
        PROVE  EchoFirst(rest, 0, over)
    BY <1>5, <1>6, <1>7, <1>8
  <1> QED
    BY <1>2, <1>3, <1>5, <1>8 DEF rest

\* Lines are written that end no turn.
LEMMA QuietLines ==
  ASSUME NEW seq \in Seq(Line), NEW lines \in Seq(Quiet)
  PROVE  /\ \A i \in DOMAIN (seq \o lines) :
              \/ i \in DOMAIN seq /\ (seq \o lines)[i] = seq[i]
              \/ /\ i \in Nat /\ i > Len(seq) /\ (seq \o lines)[i].kind # "result"
                 /\ i - Len(seq) \in DOMAIN lines /\ (seq \o lines)[i] = lines[i - Len(seq)]
         /\ \A i : AnswerIn(seq \o lines, i) <=> AnswerIn(seq, i)
         /\ \A i \in Nat : \A over, over2 \in BOOLEAN :
              EchoFirst(seq, i, over) /\ (over2 => over) => EchoFirst(seq \o lines, i, over2)
         /\ \A i \in Nat : i > Len(seq) => EchoFirst(seq \o lines, i, FALSE)
  <1> DEFINE new == seq \o lines
  <1>1. /\ Len(seq) \in Nat /\ Len(lines) \in Nat /\ Len(new) = Len(seq) + Len(lines)
        /\ DOMAIN seq = 1..Len(seq) /\ DOMAIN new = 1..Len(new) /\ DOMAIN lines = 1..Len(lines)
        /\ \A i \in 1..Len(new) : new[i] = IF i <= Len(seq) THEN seq[i] ELSE lines[i - Len(seq)]
        /\ \A i \in 1..Len(lines) : lines[i] \in Quiet
    OBVIOUS
  <1> HIDE DEF new
  <1>2. \A i \in DOMAIN new :
          \/ i \in DOMAIN seq /\ new[i] = seq[i]
          \/ /\ i \in Nat /\ i > Len(seq) /\ new[i].kind # "result"
             /\ i - Len(seq) \in DOMAIN lines /\ new[i] = lines[i - Len(seq)]
    <2> SUFFICES ASSUME NEW i \in 1..Len(new)
                 PROVE  \/ i \in DOMAIN seq /\ new[i] = seq[i]
                        \/ /\ i \in Nat /\ i > Len(seq) /\ new[i].kind # "result"
                           /\ i - Len(seq) \in DOMAIN lines /\ new[i] = lines[i - Len(seq)]
      BY <1>1
    <2>1. CASE i <= Len(seq)
      BY <1>1, <2>1
    <2>2. CASE i > Len(seq)
      <3>1. i - Len(seq) \in 1..Len(lines) /\ new[i] = lines[i - Len(seq)]
        BY <1>1, <2>2
      <3>2. lines[i - Len(seq)] \in Quiet
        BY <1>1, <3>1
      <3> QED
        BY <1>1, <2>2, <3>1, <3>2 DEF Quiet
    <2> QED
      BY <1>1, <2>1, <2>2
  <1>3. ASSUME NEW i
        PROVE  AnswerIn(new, i) <=> AnswerIn(seq, i)
    <2>1. AnswerIn(seq, i) => AnswerIn(new, i)
      <3>1. i \in 1..Len(seq) => i \in 1..Len(new) /\ new[i] = seq[i]
        BY <1>1
      <3> QED
        BY <1>1, <3>1 DEF AnswerIn
    <2>2. AnswerIn(new, i) => AnswerIn(seq, i)
      BY <1>2 DEF AnswerIn
    <2> QED
      BY <2>1, <2>2
  <1>4. \A i, n : AnswerFollows(new, i, n) <=> AnswerFollows(seq, i, n)
    BY <1>3 DEF AnswerFollows
  <1>5. ASSUME NEW i \in Nat, NEW over \in BOOLEAN, NEW over2 \in BOOLEAN,
               EchoFirst(seq, i, over), over2 => over
        PROVE  EchoFirst(new, i, over2)
    <2>1. ASSUME NEW j \in (i + 1)..Len(new), new[j].kind = "result"
          PROVE  AnswerFollows(new, i, j)
      <3>1. j \in DOMAIN new
        BY <1>1, <2>1
      <3>2. j \in (i + 1)..Len(seq) /\ seq[j].kind = "result"
        BY <1>1, <1>2, <2>1, <3>1
      <3> QED
        BY <1>4, <1>5, <3>2 DEF EchoFirst
    <2>2. over2 => AnswerFollows(new, i, Len(new))
      <3>1. AnswerFollows(seq, i, Len(seq)) => AnswerFollows(seq, i, Len(new))
        <4>1. \A k \in (i + 1)..Len(seq) : k \in (i + 1)..Len(new)
          BY <1>1
        <4> QED
          BY <4>1 DEF AnswerFollows
      <3> QED
        BY <1>4, <1>5, <3>1 DEF EchoFirst
    <2> QED
      BY <2>1, <2>2 DEF EchoFirst
  <1>6. ASSUME NEW i \in Nat, i > Len(seq)
        PROVE  EchoFirst(new, i, FALSE)
    <2>1. ASSUME NEW j \in (i + 1)..Len(new)
          PROVE  new[j].kind # "result"
      <3>1. j \in DOMAIN new /\ j \notin DOMAIN seq
        BY <1>1, <1>6
      <3> QED
        BY <1>2, <3>1
    <2> QED
      BY <2>1 DEF EchoFirst
  <1> QED
    BY <1>2, <1>3, <1>5, <1>6 DEF new

\* The result of a turn is written.
LEMMA ResultLine ==
  ASSUME NEW seq \in Seq(Line), NEW line \in Line, line.kind = "result"
  PROVE  LET new == seq \o <<line>>
             last == Len(seq) + 1
         IN /\ \A i \in DOMAIN new :
                 (i \in DOMAIN seq /\ new[i] = seq[i]) \/ (i = last /\ new[i] = line)
            /\ last \in DOMAIN new /\ new[last] = line /\ \A i \in DOMAIN seq : new[i] = seq[i]
            /\ \A i : AnswerIn(new, i) <=> AnswerIn(seq, i) \/ (i = last /\ line.of # {})
            /\ \A i \in 0..Len(seq) : \A over, over2 \in BOOLEAN :
                 EchoFirst(seq, i, over) /\ (line.of = {} => over) => EchoFirst(new, i, over2)
  <1> DEFINE new == seq \o <<line>>
             last == Len(seq) + 1
  <1>1. /\ Len(seq) \in Nat /\ Len(new) = last /\ last \in Nat /\ last = Len(seq) + 1
        /\ DOMAIN seq = 1..Len(seq) /\ DOMAIN new = 1..last /\ new[last] = line
        /\ \A i \in 1..Len(seq) : new[i] = seq[i]
    OBVIOUS
  <1> HIDE DEF new, last
  <1>2. /\ \A i \in DOMAIN new : (i \in DOMAIN seq /\ new[i] = seq[i]) \/ (i = last /\ new[i] = line)
        /\ last \in DOMAIN new /\ new[last] = line /\ \A i \in DOMAIN seq : new[i] = seq[i]
        /\ \A i \in DOMAIN seq : i \in DOMAIN new
    <2>1. \A i \in 1..last : i \in 1..Len(seq) \/ i = last
      BY <1>1
    <2>2. last \in 1..last /\ \A i \in 1..Len(seq) : i \in 1..last
      BY <1>1
    <2> QED
      BY <1>1, <2>1, <2>2
  <1>3. \A i : AnswerIn(new, i) <=> AnswerIn(seq, i) \/ (i = last /\ line.of # {})
    <2>1. last \notin DOMAIN seq
      BY <1>1
    <2> QED
      BY <1>2, <2>1 DEF AnswerIn
  <1>4. ASSUME NEW i \in 0..Len(seq), NEW over \in BOOLEAN,
               EchoFirst(seq, i, over), line.of = {} => over
        PROVE  AnswerFollows(new, i, last)
    <2>1. CASE line.of # {}
      <3>1. AnswerIn(new, last) /\ last \in (i + 1)..last
        BY <1>1, <1>3, <2>1
      <3> QED
        BY <3>1 DEF AnswerFollows
    <2>2. CASE line.of = {}
      <3>1. PICK k \in (i + 1)..Len(seq) : AnswerIn(seq, k)
        BY <1>4, <2>2 DEF EchoFirst, AnswerFollows
      <3>2. k \in (i + 1)..last
        BY <1>1
      <3>3. AnswerIn(new, k)
        BY <1>3, <3>1
      <3> QED
        BY <3>2, <3>3 DEF AnswerFollows
    <2> QED
      BY <2>1, <2>2
  <1>5. ASSUME NEW i \in 0..Len(seq), NEW over \in BOOLEAN, NEW over2 \in BOOLEAN,
               EchoFirst(seq, i, over), line.of = {} => over
        PROVE  EchoFirst(new, i, over2)
    <2>1. ASSUME NEW j \in (i + 1)..Len(new), new[j].kind = "result"
          PROVE  AnswerFollows(new, i, j)
      <3>1. CASE j = last
        BY <1>4, <1>5, <3>1
      <3>2. CASE j # last
        <4>1. j \in (i + 1)..Len(seq) /\ seq[j].kind = "result"
          BY <1>1, <2>1, <3>2
        <4>2. AnswerFollows(seq, i, j)
          BY <1>5, <4>1 DEF EchoFirst
        <4>3. PICK k \in (i + 1)..j : AnswerIn(seq, k)
          BY <4>2 DEF AnswerFollows
        <4>4. AnswerIn(new, k)
          BY <1>3, <4>3
        <4> QED
          BY <4>4 DEF AnswerFollows
      <3> QED
        BY <3>1, <3>2
    <2>2. AnswerFollows(new, i, Len(new))
      BY <1>1, <1>4, <1>5
    <2> QED
      BY <2>1, <2>2 DEF EchoFirst
  <1> QED
    BY <1>2, <1>3, <1>5 DEF new, last

-----------------------------------------------------------------------------
(* A step that asks nothing new, answers nothing and ends nothing          *)

LEMMA TurnFrame ==
  ASSUME TurnInv, UNCHANGED <<stdin, stdout, turn, cli, call>>,
         InWindow' => InWindow, EchoRead' => EchoRead, activeGen' \in {0, activeGen},
         state' = "idle" => activeGen' = 0 /\ (state = "idle" \/ (InWindow /\ ~InWindow')),
         rlPc' = "track" /\ rlOut'[1].ev.kind = "result" => activeGen' = 0
  PROVE  TurnInv'
  <1> USE DEF TurnInv
  <1>0. stdin' = stdin /\ stdout' = stdout /\ turn' = turn /\ cli' = cli /\ call' = call
    OBVIOUS
  <1>1. /\ InStdin' <=> InStdin
        /\ InTurn' <=> InTurn
        /\ InStdout' <=> InStdout
        /\ InCall' <=> InCall
    BY <1>0 DEF InStdin, InTurn, InStdout, AnswerIn, InCall, Asking, Marked
  <1>2. OneAtATime'
    BY <1>1 DEF OneAtATime
  <1>3. OnlyOne' /\ TurnAsks'
    BY <1>0 DEF OnlyOne, TurnAsks, AnswerIn, Asking, Marked
  <1>4. ActiveIsAsked'
    BY <1>0 DEF ActiveIsAsked, Asking, Marked
  <1>5. EchoBeforeAnswer'
    BY <1>0 DEF EchoBeforeAnswer, EchoFirst, AnswerFollows, AnswerIn, TurnOver
  <1> QED
    BY <1>2, <1>3, <1>4, <1>5

\* readLoop reads the head of stdout: the answer itself, a line that ends no
\* turn, or a result that it holds.
LEMMA PopKeepsTurn ==
  ASSUME SessionTypes, TurnInv, stdout # << >>, stdout' = Tail(stdout),
         UNCHANGED <<stdin, turn, cli, call, state, activeGen>>,
         ~InWindow, rlPc' # "track",
         InWindow' => AnswerIn(stdout, 1),
         EchoRead' => \/ stdout[1].kind = "echo"
                      \/ EchoRead /\ stdout[1].kind # "result"
  PROVE  TurnInv'
  <1> USE DEF TurnInv
  <1>0. /\ stdin' = stdin /\ turn' = turn /\ cli' = cli /\ call' = call
        /\ state' = state /\ activeGen' = activeGen
        /\ stdout \in Seq(Line) /\ stdout' \in Seq(Line)
    BY HeadTypes DEF SessionTypes, CLITypes
  <1>1. /\ \A i \in DOMAIN stdout' : i + 1 \in DOMAIN stdout /\ stdout'[i] = stdout[i + 1]
        /\ \A i \in DOMAIN stdout' : i \in Nat /\ i > 0
        /\ \A i \in DOMAIN stdout' : AnswerIn(stdout', i) => AnswerIn(stdout, i + 1)
    <2>1. \A i \in DOMAIN stdout' : i \in Nat /\ i > 0
      BY <1>0
    <2> QED
      BY <1>0, <2>1, TailLines
  <1>2. /\ InStdin' <=> InStdin
        /\ InTurn' <=> InTurn
        /\ InCall' <=> InCall
    BY <1>0 DEF InStdin, InTurn, InCall, Asking, Marked
  <1>3. InStdout' => InStdout
    BY <1>1 DEF InStdout, AnswerIn
  <1>4. InWindow' => InStdout /\ ~InStdout'
    <2> SUFFICES ASSUME InWindow' PROVE InStdout /\ ~InStdout'
      OBVIOUS
    <2>1. AnswerIn(stdout, 1) /\ 1 \in DOMAIN stdout
      BY DEF AnswerIn
    <2>2. ASSUME NEW i \in DOMAIN stdout', AnswerIn(stdout', i)
          PROVE  FALSE
      <3>1. AnswerIn(stdout, i + 1) /\ i + 1 \in DOMAIN stdout /\ i + 1 # 1
        BY <1>1, <2>2
      <3> QED
        BY <2>1, <3>1 DEF OnlyOne
    <2> QED
      BY <2>1, <2>2 DEF InStdout
  <1>5. OneAtATime'
    BY <1>0, <1>2, <1>3, <1>4 DEF OneAtATime
  <1>6. OnlyOne'
    <2>1. \A i, j \in DOMAIN stdout' : AnswerIn(stdout', i) /\ AnswerIn(stdout', j) => i = j
      <3> SUFFICES ASSUME NEW i \in DOMAIN stdout', NEW j \in DOMAIN stdout',
                          AnswerIn(stdout', i), AnswerIn(stdout', j)
                   PROVE  i = j
        OBVIOUS
      <3>1. i + 1 = j + 1
        BY <1>1 DEF OnlyOne
      <3> QED
        BY <1>1, <3>1
    <2>2. \A c, d \in Callers : Asking(call'[c]) /\ Asking(call'[d]) => c = d
      BY <1>0 DEF OnlyOne
    <2> QED
      BY <1>0, <2>1, <2>2 DEF OnlyOne, AnswerIn, Asking, Marked
  <1>7. TurnAsks'
    BY <1>0, <1>1 DEF TurnAsks
  <1>8. ActiveIsAsked'
    BY <1>0, <1>1 DEF ActiveIsAsked, Asking, Marked
  <1>9. (TurnOver' <=> TurnOver) /\ TurnOver \in BOOLEAN
    BY <1>0 DEF TurnOver
  <1>10. EchoRead' => EchoFirst(stdout', 0, TurnOver)
    <2>1. CASE stdout[1].kind = "echo"
      <3>1. EchoFirst(stdout, 1, TurnOver)
        <4>1. 1 \in DOMAIN stdout
          BY <1>0
        <4> QED
          BY <2>1, <4>1 DEF EchoBeforeAnswer
      <3>2. 0 \in Nat /\ 0 + 1 = 1
        OBVIOUS
      <3> QED
        BY <1>0, <1>9, <3>1, <3>2, TailLines
    <2>2. CASE EchoRead /\ stdout[1].kind # "result"
      <3>1. EchoFirst(stdout, 0, TurnOver)
        BY <2>2 DEF EchoBeforeAnswer
      <3> QED
        BY <1>0, <1>9, <2>2, <3>1, TailLines
    <2> QED
      BY <2>1, <2>2
  <1>11. \A i \in DOMAIN stdout' : stdout'[i].kind = "echo" => EchoFirst(stdout', i, TurnOver)
    <2> SUFFICES ASSUME NEW i \in DOMAIN stdout', stdout'[i].kind = "echo"
                 PROVE  EchoFirst(stdout', i, TurnOver)
      OBVIOUS
    <2>1. EchoFirst(stdout, i + 1, TurnOver) /\ i \in Nat
      BY <1>1 DEF EchoBeforeAnswer
    <2> QED
      BY <1>0, <1>9, <2>1, TailLines
  <1>12. EchoBeforeAnswer'
    BY <1>9, <1>10, <1>11 DEF EchoBeforeAnswer, EchoFirst, AnswerFollows, AnswerIn
  <1> QED
    BY <1>5, <1>6, <1>7, <1>8, <1>12

-----------------------------------------------------------------------------
(* The CLI's turns                                                         *)

\* Lines that end no turn are written.  An echo is written only by a turn that
\* has a query to answer.
LEMMA QuietKeepsEcho ==
  ASSUME SessionTypes, EchoBeforeAnswer, NEW lines \in Seq(Quiet), stdout' = stdout \o lines,
         UNCHANGED <<state, promptEchoed, rlPc>>, TurnOver' => TurnOver,
         \A i \in DOMAIN lines : lines[i].kind = "echo" => ~TurnOver'
  PROVE  EchoBeforeAnswer'
  <1>0. stdout \in Seq(Line) /\ Len(stdout) \in Nat /\ 0 \in Nat
        /\ TurnOver \in BOOLEAN /\ TurnOver' \in BOOLEAN
        /\ \A i \in DOMAIN stdout : i \in Nat
    BY DEF SessionTypes, CLITypes, TurnOver
  <1>1. (EchoRead' <=> EchoRead)
    BY DEF EchoRead, Ending
  <1>2. EchoRead' => EchoFirst(stdout', 0, TurnOver')
    BY <1>0, <1>1, QuietLines DEF EchoBeforeAnswer
  <1>3. ASSUME NEW i \in DOMAIN stdout', stdout'[i].kind = "echo"
        PROVE  EchoFirst(stdout', i, TurnOver')
    <2>1. CASE i \in DOMAIN stdout /\ stdout'[i] = stdout[i]
      <3>1. EchoFirst(stdout, i, TurnOver)
        BY <1>3, <2>1 DEF EchoBeforeAnswer
      <3> QED
        BY <1>0, <2>1, <3>1, QuietLines
    <2>2. CASE /\ i \in Nat /\ i > Len(stdout)
               /\ i - Len(stdout) \in DOMAIN lines /\ stdout'[i] = lines[i - Len(stdout)]
      <3>1. ~TurnOver'
        BY <1>3, <2>2
      <3>2. EchoFirst(stdout', i, FALSE)
        BY <1>0, <2>2, QuietLines
      <3> QED
        BY <3>1, <3>2 DEF EchoFirst
    <2> QED
      BY <1>0, <2>1, <2>2, QuietLines
  <1> QED
    BY <1>2, <1>3 DEF EchoBeforeAnswer, EchoFirst, AnswerFollows, AnswerIn

LEMMA QuietWritten ==
  ASSUME NEW of \in SUBSET Queries
  PROVE  /\ \A kind \in {"init", "tool"} :
              /\ Written(kind, of) \in Seq(Quiet)
              /\ \A i \in DOMAIN Written(kind, of) : Written(kind, of)[i].kind # "echo"
         /\ LET lines == <<[kind |-> "apierror", of |-> of, note |-> FALSE]>>
            IN lines \in Seq(Quiet) /\ \A i \in DOMAIN lines : lines[i].kind # "echo"
         /\ \A m \in Message : EchoOf(m) \in Seq(Quiet)
  <1>1. ASSUME NEW kind \in {"init", "tool", "apierror"}
        PROVE  LET lines == <<[kind |-> kind, of |-> of, note |-> FALSE]>>
               IN lines \in Seq(Quiet) /\ \A i \in DOMAIN lines : lines[i].kind # "echo"
    <2> DEFINE line == [kind |-> kind, of |-> of, note |-> FALSE]
    <2>1. line \in Quiet /\ line.kind # "echo"
      BY DEF Line, Queries, Quiet
    <2> HIDE DEF line
    <2>2. <<line>> \in Seq(Quiet) /\ \A i \in DOMAIN <<line>> : <<line>>[i] = line
      BY <2>1
    <2>3. \A i \in DOMAIN <<line>> : <<line>>[i].kind # "echo"
      BY <2>1, <2>2
    <2> QED
      BY <2>2, <2>3 DEF line
  <1>2. << >> \in Seq(Quiet) /\ \A i \in DOMAIN << >> : FALSE
    OBVIOUS
  <1>3. ASSUME NEW m \in Message
        PROVE  EchoOf(m) \in Seq(Quiet)
    <2> DEFINE line == [kind |-> "echo", of |-> Asks(m), note |-> FALSE]
    <2>1. line \in Quiet
      BY EchoLines DEF Line, Queries, Quiet
    <2> HIDE DEF line
    <2>2. <<line>> \in Seq(Quiet)
      BY <2>1
    <2> QED
      BY <1>2, <2>2 DEF EchoOf, line
  <1> QED
    BY <1>1, <1>2, <1>3 DEF Written

\* A turn takes the message that asks the query.
LEMMA TakeKeepsTurn ==
  ASSUME SessionTypes, TurnInv, NEW lines \in Seq(Quiet), stdout' = stdout \o lines,
         UNCHANGED <<call, state, promptEchoed, activeGen, rlPc, rlOut>>,
         stdin # << >>, stdin' = Tail(stdin), turn'.kind # "none",
         turn'.of = turn.of \cup Asks(Head(stdin))
  PROVE  TurnInv'
  <1> USE DEF TurnInv
  <1>0. /\ call' = call /\ state' = state /\ promptEchoed' = promptEchoed
        /\ activeGen' = activeGen /\ rlPc' = rlPc /\ rlOut' = rlOut
        /\ stdout \in Seq(Line) /\ stdin \in Seq(Message)
    BY DEF SessionTypes, CLITypes
  <1>1. ~InTurn /\ ~InStdout /\ ~InWindow /\ ~InCall /\ state # "idle"
    BY DEF OneAtATime, InStdin
  <1>2. Len(stdin) = 1 /\ stdin' = << >> /\ Head(stdin) = stdin[1] /\ 1 \in DOMAIN stdin
    <2>1. Len(stdin) <= 1
      BY DEF OnlyOne
    <2>2. Len(stdin) = 1
      <3>1. Len(stdin) \in Nat /\ Len(stdin) >= 1
        BY <1>0, HeadTypes
      <3>2. \A n \in Nat : n >= 1 /\ n <= 1 => n = 1
        OBVIOUS
      <3> QED
        BY <2>1, <3>1, <3>2
    <2> QED
      BY <1>0, <2>2
  <1>3. turn'.of = {stdin[1].q} /\ activeGen \in {0, stdin[1].q}
    <2>1. stdin[1].q # 0
      BY <1>2 DEF TurnAsks
    <2> QED
      BY <1>1, <1>2, <2>1 DEF Asks, InTurn, ActiveIsAsked
  <1>4. /\ ~InStdin'
        /\ InTurn'
        /\ ~InStdout'
        /\ ~InWindow'
        /\ ~InCall'
    <2>1. ~InStdin'
      BY <1>2 DEF InStdin
    <2>2. InTurn'
      BY <1>3 DEF InTurn
    <2>3. ~InStdout'
      BY <1>0, <1>1, QuietLines DEF InStdout, AnswerIn
    <2>4. ~InWindow' /\ ~InCall'
      BY <1>0, <1>1 DEF InWindow, InCall, Asking, Marked
    <2> QED
      BY <2>1, <2>2, <2>3, <2>4
  <1>5. OneAtATime'
    BY <1>0, <1>1, <1>4 DEF OneAtATime
  <1>6. OnlyOne'
    <2>1. \A i, j \in DOMAIN stdout' : AnswerIn(stdout', i) /\ AnswerIn(stdout', j) => i = j
      BY <1>4 DEF InStdout, AnswerIn
    <2>2. Len(stdin') <= 1
      <3>1. Len(<< >>) <= 1
        OBVIOUS
      <3> QED
        BY <1>2, <3>1
    <2>3. /\ \A c, d \in Callers : Asking(call'[c]) /\ Asking(call'[d]) => c = d
          /\ \A c \in Callers : call'[c].op \in {"none", "QueryCtx"}
      BY <1>0 DEF OnlyOne
    <2> QED
      BY <2>1, <2>2, <2>3 DEF OnlyOne, AnswerIn, Asking, Marked
  <1>7. \A i \in DOMAIN stdin' : FALSE
    BY <1>2
  <1>8. TurnAsks'
    <2>1. \A i \in DOMAIN stdout' : stdout'[i].kind = "result" =>
            i \in DOMAIN stdout /\ stdout'[i] = stdout[i]
      BY <1>0, QuietLines
    <2> QED
      BY <1>3, <1>7, <2>1 DEF TurnAsks
  <1>9. ActiveIsAsked'
    <2>1. \A i \in DOMAIN stdout' : stdout'[i].kind = "result" => stdout'[i].of = {}
      BY <1>4 DEF InStdout, AnswerIn
    <2> QED
      BY <1>0, <1>3, <1>7, <2>1 DEF ActiveIsAsked, Asking, Marked
  <1>10. EchoBeforeAnswer'
    <2>1. ~TurnOver'
      BY <1>3 DEF TurnOver
    <2> QED
      BY <1>0, <2>1, QuietKeepsEcho
  <1> QED
    BY <1>5, <1>6, <1>8, <1>9, <1>10

\* A turn goes on, or the CLI starts one of its own.
LEMMA StayKeepsTurn ==
  ASSUME SessionTypes, TurnInv, NEW lines \in Seq(Quiet), stdout' = stdout \o lines,
         \A i \in DOMAIN lines : lines[i].kind # "echo",
         UNCHANGED <<stdin, cli, call, state, promptEchoed, activeGen, rlPc, rlOut>>,
         turn'.kind # "none", turn'.of = turn.of,
         turn'.kind = "caller" => turn.kind = "caller"
  PROVE  TurnInv'
  <1> USE DEF TurnInv
  <1>0. /\ stdin' = stdin /\ cli' = cli /\ call' = call /\ state' = state
        /\ promptEchoed' = promptEchoed /\ activeGen' = activeGen
        /\ rlPc' = rlPc /\ rlOut' = rlOut /\ stdout \in Seq(Line)
    BY DEF SessionTypes, CLITypes
  <1>1. \A i : AnswerIn(stdout', i) <=> AnswerIn(stdout, i)
    BY <1>0, QuietLines
  <1>2. \A i \in DOMAIN stdout' : stdout'[i].kind = "result" =>
          i \in DOMAIN stdout /\ stdout'[i] = stdout[i]
    BY <1>0, QuietLines
  <1>3. /\ InStdin' <=> InStdin
        /\ InTurn' <=> InTurn
        /\ InStdout' <=> InStdout
        /\ InWindow' <=> InWindow
        /\ InCall' <=> InCall
    <2>1. InStdout' <=> InStdout
      BY <1>1 DEF InStdout, AnswerIn
    <2>2. /\ InStdin' <=> InStdin
          /\ InTurn' <=> InTurn
          /\ InWindow' <=> InWindow
          /\ InCall' <=> InCall
      BY <1>0 DEF InStdin, InTurn, InWindow, InCall, Asking, Marked
    <2> QED
      BY <2>1, <2>2
  <1>4. OneAtATime'
    BY <1>0, <1>3 DEF OneAtATime
  <1>5. OnlyOne'
    <2>1. \A i \in DOMAIN stdout' : AnswerIn(stdout', i) => i \in DOMAIN stdout /\ AnswerIn(stdout, i)
      BY <1>1 DEF AnswerIn
    <2>2. \A i, j \in DOMAIN stdout' : AnswerIn(stdout', i) /\ AnswerIn(stdout', j) => i = j
      BY <2>1 DEF OnlyOne
    <2>3. Len(stdin') <= 1 /\ \A c, d \in Callers : Asking(call'[c]) /\ Asking(call'[d]) => c = d
      BY <1>0 DEF OnlyOne
    <2> QED
      BY <1>0, <2>2, <2>3 DEF OnlyOne, AnswerIn, Asking, Marked
  <1>6. TurnAsks'
    BY <1>0, <1>2 DEF TurnAsks
  <1>7. ActiveIsAsked'
    BY <1>0, <1>2 DEF ActiveIsAsked, Asking, Marked
  <1>8. EchoBeforeAnswer'
    <2>1. TurnOver' <=> TurnOver
      BY <1>0 DEF TurnOver
    <2> QED
      BY <1>0, <2>1, QuietKeepsEcho
  <1> QED
    BY <1>4, <1>5, <1>6, <1>7, <1>8

\* The turn ends with its result.
LEMMA EndTurnKeepsTurn ==
  ASSUME SessionTypes, TurnInv, EndTurn,
         UNCHANGED <<call, state, promptEchoed, activeGen, rlPc, rlOut>>
  PROVE  TurnInv'
  <1> USE DEF TurnInv
  <1> DEFINE line == [kind |-> "result", of |-> turn.of, note |-> turn.kind = "note"]
             last == Len(stdout) + 1
  <1>0. /\ stdin' = stdin /\ cli' = cli /\ call' = call /\ state' = state
        /\ promptEchoed' = promptEchoed /\ activeGen' = activeGen
        /\ rlPc' = rlPc /\ rlOut' = rlOut
        /\ cli = "up" /\ turn.kind # "none" /\ turn.kind \in {"none", "caller", "note"}
        /\ stdout \in Seq(Line) /\ stdout' = stdout \o <<line>>
        /\ turn'.of = {} /\ turn'.kind = "none"
    <2>1. turn \in Turns
      BY DEF SessionTypes, CLITypes, Turns
    <2>2. turn'.of = {} /\ turn'.kind = "none"
      BY NoTurnType DEF EndTurn
    <2>3. stdout' = stdout \o <<line>>
      BY DEF EndTurn, Emit
    <2> QED
      BY <2>1, <2>2, <2>3 DEF EndTurn, SessionTypes, CLITypes, Turns
  <1>1. /\ line \in Line /\ line.kind = "result" /\ line.of = turn.of
        /\ line.note <=> turn.kind = "note"
    <2>1. turn.of \in SUBSET Queries /\ (turn.kind = "note") \in BOOLEAN
      BY DEF SessionTypes, CLITypes
    <2> QED
      BY <2>1 DEF Line, Queries
  <1> HIDE DEF line, last
  <1>2. /\ \A i \in DOMAIN stdout' :
             (i \in DOMAIN stdout /\ stdout'[i] = stdout[i]) \/ (i = last /\ stdout'[i] = line)
        /\ last \in DOMAIN stdout' /\ stdout'[last] = line
        /\ \A i : AnswerIn(stdout', i) <=> AnswerIn(stdout, i) \/ (i = last /\ InTurn)
        /\ \A i \in 0..Len(stdout) : \A over, over2 \in BOOLEAN :
             EchoFirst(stdout, i, over) /\ (turn.of = {} => over) => EchoFirst(stdout', i, over2)
    <2>1. (line.of = {} <=> turn.of = {}) /\ (line.of # {} <=> InTurn)
      BY <1>1 DEF InTurn
    <2>2. line.of = turn.of
      BY <1>1
    <2>3. /\ \A i \in DOMAIN stdout' :
               (i \in DOMAIN stdout /\ stdout'[i] = stdout[i]) \/ (i = last /\ stdout'[i] = line)
          /\ last \in DOMAIN stdout' /\ stdout'[last] = line
      BY <1>0, <1>1, ResultLine DEF last
    <2>4. \A i : AnswerIn(stdout', i) <=> AnswerIn(stdout, i) \/ (i = last /\ line.of # {})
      BY <1>0, <1>1, ResultLine DEF last
    <2>5. \A i \in 0..Len(stdout) : \A over, over2 \in BOOLEAN :
            EchoFirst(stdout, i, over) /\ (line.of = {} => over) => EchoFirst(stdout', i, over2)
      BY <1>0, <1>1, ResultLine
    <2> QED
      BY <2>1, <2>2, <2>3, <2>4, <2>5
  <1>3. /\ InStdin' <=> InStdin
        /\ ~InTurn'
        /\ InStdout' <=> InStdout \/ InTurn
        /\ InWindow' <=> InWindow
        /\ InCall' <=> InCall
    <2>1. InStdout' <=> InStdout \/ InTurn
      <3>1. InStdout' <=> \E i : AnswerIn(stdout', i)
        BY DEF InStdout, AnswerIn
      <3>2. InStdout <=> \E i : AnswerIn(stdout, i)
        BY DEF InStdout, AnswerIn
      <3> QED
        BY <1>2, <3>1, <3>2
    <2>2. /\ InStdin' <=> InStdin
          /\ ~InTurn'
          /\ InWindow' <=> InWindow
          /\ InCall' <=> InCall
      BY <1>0 DEF InStdin, InTurn, InWindow, InCall, Asking, Marked
    <2> QED
      BY <2>1, <2>2
  <1>4. OneAtATime'
    BY <1>0, <1>3 DEF OneAtATime
  <1>5. OnlyOne'
    <2>1. ASSUME NEW i \in DOMAIN stdout', NEW j \in DOMAIN stdout',
                 AnswerIn(stdout', i), AnswerIn(stdout', j)
          PROVE  i = j
      <3>1. CASE InTurn
        <4>1. ~AnswerIn(stdout, i) /\ ~AnswerIn(stdout, j)
          BY <3>1 DEF OneAtATime, InStdout, AnswerIn
        <4> QED
          BY <1>2, <2>1, <4>1
      <3>2. CASE ~InTurn
        <4>1. AnswerIn(stdout, i) /\ AnswerIn(stdout, j)
          BY <1>2, <2>1, <3>2
        <4>2. i \in DOMAIN stdout /\ j \in DOMAIN stdout
          BY <4>1 DEF AnswerIn
        <4> QED
          BY <4>1, <4>2 DEF OnlyOne
      <3> QED
        BY <3>1, <3>2
    <2>2. Len(stdin') <= 1 /\ \A c, d \in Callers : Asking(call'[c]) /\ Asking(call'[d]) => c = d
      BY <1>0 DEF OnlyOne
    <2> QED
      BY <1>0, <2>1, <2>2 DEF OnlyOne, AnswerIn, Asking, Marked
  <1>6. TurnAsks'
    <2>1. line.note \/ line.of # {}
      BY <1>0, <1>1 DEF TurnAsks
    <2> QED
      BY <1>0, <1>2, <2>1 DEF TurnAsks
  <1>7. ActiveIsAsked'
    BY <1>0, <1>1, <1>2 DEF ActiveIsAsked, Asking, Marked
  <1>8. EchoBeforeAnswer'
    <2>1. (EchoRead' <=> EchoRead) /\ TurnOver \in BOOLEAN /\ TurnOver' \in BOOLEAN
      BY <1>0 DEF EchoRead, Ending, TurnOver
    <2>2. (TurnOver <=> turn.of = {})
      BY <1>0 DEF TurnOver
    <2>3. ASSUME NEW i \in 0..Len(stdout), EchoFirst(stdout, i, TurnOver)
          PROVE  EchoFirst(stdout', i, TurnOver')
      BY <1>2, <2>1, <2>2, <2>3
    <2>4. 0 \in 0..Len(stdout) /\ \A i \in DOMAIN stdout : i \in 0..Len(stdout)
      <3>1. Len(stdout) \in Nat /\ DOMAIN stdout = 1..Len(stdout)
        BY <1>0
      <3> QED
        BY <3>1
    <2>5. EchoRead' => EchoFirst(stdout', 0, TurnOver')
      BY <2>1, <2>3, <2>4 DEF EchoBeforeAnswer
    <2>6. \A i \in DOMAIN stdout' : stdout'[i].kind = "echo" => EchoFirst(stdout', i, TurnOver')
      BY <1>1, <1>2, <2>3, <2>4 DEF EchoBeforeAnswer
    <2> QED
      BY <2>5, <2>6 DEF EchoBeforeAnswer, EchoFirst, AnswerFollows, AnswerIn
  <1> QED
    BY <1>4, <1>5, <1>6, <1>7, <1>8

\* What was asked and not answered goes with the process.
LEMMA ExitKeepsTurn ==
  ASSUME SessionTypes, TurnInv, Exit,
         UNCHANGED <<call, state, promptEchoed, activeGen, rlPc, rlOut>>
  PROVE  TurnInv'
  <1> USE DEF TurnInv
  <1>0. /\ stdin' = << >> /\ stdout' = stdout /\ cli' # "up" /\ call' = call /\ state' = state
        /\ promptEchoed' = promptEchoed /\ activeGen' = activeGen
        /\ rlPc' = rlPc /\ rlOut' = rlOut /\ turn'.of = {} /\ turn'.kind = "none"
    BY NoTurnType, CLIAssumption DEF Exit
  <1>1. Len(stdin') <= 1 /\ \A i \in DOMAIN stdin' : FALSE
    <2>1. Len(<< >>) <= 1 /\ \A i \in DOMAIN << >> : FALSE
      OBVIOUS
    <2> QED
      BY <1>0, <2>1
  <1>2. /\ ~InStdin'
        /\ ~InTurn'
        /\ InStdout' <=> InStdout
        /\ InWindow' <=> InWindow
        /\ InCall' <=> InCall
    BY <1>0 DEF InStdin, InTurn, InStdout, AnswerIn, InWindow, InCall, Asking, Marked
  <1>3. OneAtATime'
    BY <1>0, <1>2 DEF OneAtATime
  <1>4. OnlyOne'
    BY <1>0, <1>1 DEF OnlyOne, AnswerIn, Asking, Marked
  <1>5. TurnAsks' /\ ActiveIsAsked'
    BY <1>0, <1>1 DEF TurnAsks, ActiveIsAsked, Asking, Marked
  <1>6. EchoBeforeAnswer'
    <2>1. ~TurnOver'
      BY <1>0 DEF TurnOver
    <2> QED
      BY <1>0, <2>1 DEF EchoBeforeAnswer, EchoRead, Ending, EchoFirst, AnswerFollows, AnswerIn
  <1> QED
    BY <1>3, <1>4, <1>5, <1>6

LEMMA CLIKeepsTurn ==
  ASSUME SessionTypes, TurnInv, CLIStep
  PROVE  TurnInv'
  <1>0. /\ UNCHANGED <<call, state, promptEchoed, activeGen, rlPc, rlOut>>
        /\ turn \in Turns /\ turn.of \in SUBSET Queries /\ {} \in SUBSET Queries
        /\ stdin \in Seq(Message)
    <2>1. turn \in Turns
      BY DEF SessionTypes, CLITypes, Turns
    <2>2. turn.of \in SUBSET Queries
      BY <2>1 DEF Turns
    <2> QED
      BY <2>1, <2>2 DEF CLIStep, callState, queryState, loopState, SessionTypes, CLITypes
  <1>1. CASE StartTurn
    <2>1. Head(stdin) \in Message /\ Asks(Head(stdin)) \in SUBSET Queries
      BY <1>0, <1>1, HeadTypes, EchoLines DEF StartTurn
    <2>2. Written("init", {}) \o EchoOf(Head(stdin)) \in Seq(Quiet)
      BY <1>0, <2>1, QuietWritten, ConcatTypes
    <2>3. turn'.kind # "none" /\ turn'.of = Asks(Head(stdin))
      <3>1. turn' = [NoTurn EXCEPT !.kind = "caller", !.of = Asks(Head(stdin))]
        BY <1>1 DEF StartTurn
      <3> QED
        BY <3>1 DEF NoTurn
    <2>4. turn.of = {}
      BY <1>1 DEF StartTurn, TurnInv, TurnAsks
    <2>5. stdout' = stdout \o (Written("init", {}) \o EchoOf(Head(stdin)))
          /\ stdin # << >> /\ stdin' = Tail(stdin)
      BY <1>1 DEF StartTurn, Emit
    <2> QED
      BY <1>0, <2>2, <2>3, <2>4, <2>5, TakeKeepsTurn
  <1>2. CASE Fold
    <2>1. Head(stdin) \in Message /\ Asks(Head(stdin)) \in SUBSET Queries
      BY <1>0, <1>2, HeadTypes, EchoLines DEF Fold
    <2>2. EchoOf(Head(stdin)) \in Seq(Quiet)
      BY <1>0, <2>1, QuietWritten
    <2>3. turn'.kind # "none" /\ turn'.of = turn.of \cup Asks(Head(stdin))
      <3>1. turn' = [turn EXCEPT !.of = @ \cup Asks(Head(stdin))] /\ turn.kind # "none"
        BY <1>2 DEF Fold
      <3> QED
        BY <1>0, <3>1 DEF Turns
    <2>4. stdout' = stdout \o EchoOf(Head(stdin)) /\ stdin # << >> /\ stdin' = Tail(stdin)
      BY <1>2 DEF Fold, Emit
    <2> QED
      BY <1>0, <2>2, <2>3, <2>4, TakeKeepsTurn
  <1>3. CASE StartNoteTurn
    <2>1. turn' = [NoTurn EXCEPT !.kind = "note"] /\ turn.kind = "none"
          /\ stdout' = stdout \o Written("init", {}) /\ UNCHANGED <<stdin, cli>>
      BY <1>3 DEF StartNoteTurn, Emit
    <2>2. turn'.kind = "note" /\ turn'.of = {} /\ turn.of = {}
      BY <1>0, <2>1, NoTurnType, TurnUpdates DEF TurnInv, TurnAsks
    <2>3. /\ Written("init", {}) \in Seq(Quiet)
          /\ \A i \in DOMAIN Written("init", {}) : Written("init", {})[i].kind # "echo"
      BY <1>0, QuietWritten
    <2> QED
      BY <1>0, <2>1, <2>2, <2>3, StayKeepsTurn
  <1>4. CASE CallTool
    <2>1. turn' = [turn EXCEPT !.tool = TRUE] /\ turn.kind # "none"
          /\ stdout' = stdout \o Written("tool", turn.of) /\ UNCHANGED <<stdin, cli>>
      BY <1>4 DEF CallTool, Emit
    <2>2. turn'.kind = turn.kind /\ turn'.of = turn.of
      BY <1>0, <2>1, TurnFlags
    <2>3. /\ Written("tool", turn.of) \in Seq(Quiet)
          /\ \A i \in DOMAIN Written("tool", turn.of) : Written("tool", turn.of)[i].kind # "echo"
      BY <1>0, QuietWritten
    <2> QED
      BY <1>0, <2>1, <2>2, <2>3, StayKeepsTurn
  <1>5. CASE FailTurn
    <2> DEFINE lines == <<[kind |-> "apierror", of |-> turn.of, note |-> FALSE]>>
    <2>1. turn' = [turn EXCEPT !.failed = TRUE] /\ turn.kind # "none"
          /\ stdout' = stdout \o lines /\ UNCHANGED <<stdin, cli>>
      BY <1>5, CLIAssumption DEF FailTurn, Emit
    <2>2. turn'.kind = turn.kind /\ turn'.of = turn.of
      BY <1>0, <2>1, TurnFlags
    <2>3. lines \in Seq(Quiet) /\ \A i \in DOMAIN lines : lines[i].kind # "echo"
      BY <1>0, QuietWritten
    <2> HIDE DEF lines
    <2> QED
      BY <1>0, <2>1, <2>2, <2>3, StayKeepsTurn
  <1>6. CASE EndTurn
    BY <1>0, <1>6, EndTurnKeepsTurn
  <1>7. CASE Exit
    BY <1>0, <1>7, ExitKeepsTurn
  <1> QED
    BY <1>1, <1>2, <1>3, <1>4, <1>5, <1>6, <1>7 DEF CLIStep, CLINext

-----------------------------------------------------------------------------
(* readLoop and the callers, under the turns                               *)

\* A result that is not held is the answer: a result of a turn of the CLI's own
\* is taken for it only past the echo, where the answer comes first.
LEMMA ReadResultIsAnswer ==
  ASSUME SessionTypes, TurnInv, ReadResult
  PROVE  AnswerIn(stdout, 1) /\ (activeGen = 0 \/ activeGen \in Head(stdout).of)
  <1> USE DEF TurnInv
  <1>0. /\ stdout # << >> /\ stdout \in Seq(Line) /\ Head(stdout) = stdout[1]
        /\ 1 \in DOMAIN stdout /\ Len(stdout) \in Nat /\ 1 \in 1..Len(stdout)
        /\ stdout[1].kind = "result" /\ rlPc = "scan" /\ ~Held(stdout[1])
    <2>1. stdout # << >> /\ stdout \in Seq(Line)
      BY DEF ReadResult, Reads, SessionTypes, CLITypes
    <2>2. Head(stdout) = stdout[1] /\ Len(stdout) \in Nat /\ Len(stdout) >= 1
      BY <2>1, HeadTypes
    <2>3. 1 \in DOMAIN stdout /\ 1 \in 1..Len(stdout)
      BY <2>1, <2>2
    <2> QED
      BY <2>1, <2>2, <2>3 DEF ReadResult, Reads
  <1>1. AnswerIn(stdout, 1)
    <2>1. CASE ~stdout[1].note
      BY <1>0, <2>1 DEF TurnAsks, AnswerIn
    <2>2. CASE stdout[1].note
      <3>1. EchoRead
        BY <1>0, <2>2 DEF Held, EchoRead, Ending
      <3>2. AnswerFollows(stdout, 0, 1)
        BY <1>0, <3>1 DEF EchoBeforeAnswer, EchoFirst
      <3>3. PICK k \in 1..1 : AnswerIn(stdout, k)
        BY <3>2 DEF AnswerFollows
      <3>4. k = 1
        OBVIOUS
      <3> QED
        BY <3>3, <3>4
    <2> QED
      BY <2>1, <2>2
  <1>2. PICK h \in stdout[1].of : TRUE
    BY <1>1 DEF AnswerIn
  <1>3. activeGen \in {0, h}
    BY <1>0, <1>2 DEF ActiveIsAsked
  <1> QED
    BY <1>0, <1>1, <1>2, <1>3

LEMMA ReadLoopKeepsTurn ==
  ASSUME SessionTypes, TurnInv, ReadLoop
  PROVE  TurnInv'
  <1>0. UNCHANGED <<call, genCounter>>
    BY DEF ReadLoop, ReadEcho, ReadInit, ReadTool, ReadHeldResult, StampHeld, ReadResult,
       ReadApiError, ClearGen, TrackState, ObserveTerminal, Push, WaitProcess, ClosePump,
       StampExit, DeliverExit, CheckRouted, Shutdown, Finish, StampTerminal,
       callState, queryState
  <1>1. ASSUME NEW kind, Reads(kind)
        PROVE  /\ stdout # << >> /\ stdout' = Tail(stdout) /\ stdout[1] = Head(stdout)
               /\ stdout[1].kind = kind /\ rlPc = "scan" /\ UNCHANGED <<stdin, turn, cli>>
               /\ ~InWindow
    BY <1>1, HeadTypes DEF Reads, SessionTypes, CLITypes, InWindow
  <1>2. CASE ReadEcho
    <2>1. UNCHANGED <<state, activeGen, rlPc, rlOut>> /\ Reads("echo")
      BY <1>2 DEF ReadEcho, loopState
    <2> QED
      BY <1>0, <1>1, <2>1, PopKeepsTurn DEF InWindow
  <1>3. CASE ReadInit \/ ReadTool
    <2>1. UNCHANGED <<state, activeGen, promptEchoed>> /\ rlPc' = "push"
          /\ (Reads("init") \/ Reads("tool"))
      BY <1>3 DEF ReadInit, ReadTool, queryState, WithTransition
    <2>2. ~InWindow' /\ (EchoRead' => EchoRead)
      BY <1>1, <2>1 DEF InWindow, EchoRead, Ending
    <2> QED
      BY <1>0, <1>1, <2>1, <2>2, PopKeepsTurn
  <1>4. CASE ReadHeldResult
    <2>1. UNCHANGED <<state, activeGen, promptEchoed>> /\ rlPc' = "held"
          /\ Reads("result") /\ Held(Head(stdout))
      BY <1>4 DEF ReadHeldResult, WithTransition
    <2>2. ~InWindow' /\ ~EchoRead'
      BY <2>1 DEF InWindow, EchoRead, Held
    <2> QED
      BY <1>0, <1>1, <2>1, <2>2, PopKeepsTurn
  <1>5. CASE ReadResult
    <2>1. UNCHANGED <<state, activeGen, promptEchoed>> /\ rlPc' = "clear" /\ Reads("result")
      BY <1>5 DEF ReadResult, StampTerminal, queryState
    <2>2. ~EchoRead'
      BY <2>1 DEF EchoRead
    <2>3. AnswerIn(stdout, 1)
      BY <1>5, ReadResultIsAnswer
    <2> QED
      BY <1>0, <1>1, <2>1, <2>2, <2>3, PopKeepsTurn
  <1>6. ASSUME NEW of, StampTerminal("fatal", of) \/ StampTerminal("exit", of)
        PROVE  /\ UNCHANGED <<state, activeGen, promptEchoed>> /\ rlPc' = "clear"
               /\ ~InWindow' /\ ~EchoRead'
    <2>1. rlOut' = <<StampedAs("fatal", of, activeGen)>> \/ rlOut' = <<StampedAs("exit", of, activeGen)>>
      BY <1>6 DEF StampTerminal
    <2>2. rlOut'[1].ev.kind # "result"
      <3>1. /\ <<StampedAs("fatal", of, activeGen)>>[1] = StampedAs("fatal", of, activeGen)
            /\ <<StampedAs("exit", of, activeGen)>>[1] = StampedAs("exit", of, activeGen)
        OBVIOUS
      <3> QED
        BY <2>1, <3>1, StampedFields
    <2>3. UNCHANGED <<state, activeGen, promptEchoed>> /\ rlPc' = "clear"
      BY <1>6 DEF StampTerminal, queryState
    <2> QED
      BY <2>2, <2>3 DEF InWindow, EchoRead
  <1>7. CASE ReadApiError
    <2>1. Reads("apierror") /\ StampTerminal("fatal", Head(stdout).of)
      BY <1>7 DEF ReadApiError
    <2> QED
      BY <1>0, <1>1, <1>6, <2>1, PopKeepsTurn
  <1> DEFINE Still == stdin' = stdin /\ stdout' = stdout /\ turn' = turn /\ cli' = cli /\ call' = call
  <1>8. activeGen = 0 \/ state # "idle"
    BY DEF TurnInv, ActiveIsAsked
  <1>9. CASE StampHeld \/ ObserveTerminal \/ Push \/ ClosePump \/ DeliverExit \/ CheckRouted \/ Shutdown
    <2>1. Still /\ UNCHANGED <<state, activeGen, promptEchoed>>
      BY <1>0, <1>9 DEF StampHeld, ObserveTerminal, Push, ClosePump, DeliverExit, CheckRouted,
         Shutdown, cliVars, queryState
    <2>2. rlPc' \notin {"clear", "track"}
      BY <1>9 DEF StampHeld, ObserveTerminal, Push, ClosePump, DeliverExit, CheckRouted,
         Shutdown, WithTransition
    <2>3. rlPc' \in Ending \/ rlPc \notin {"clear", "track"} \cup Ending
      BY <1>9 DEF StampHeld, ObserveTerminal, Push, ClosePump, DeliverExit, CheckRouted,
         Shutdown, WithTransition, Ending
    <2>4. ~InWindow' /\ (EchoRead' => EchoRead)
      BY <2>1, <2>2, <2>3 DEF InWindow, EchoRead, Ending
    <2> QED
      BY <1>8, <2>1, <2>2, <2>4, TurnFrame
  <1>10. CASE ClearGen
    <2>1. Still /\ UNCHANGED <<state, promptEchoed, rlOut>> /\ activeGen' = 0
          /\ rlPc = "clear" /\ rlPc' \in {"exit", "track"}
      BY <1>0, <1>10 DEF ClearGen, cliVars
    <2>2. (InWindow' => InWindow) /\ ~EchoRead'
      BY <2>1 DEF InWindow, EchoRead, Ending
    <2> QED
      BY <1>8, <2>1, <2>2, TurnFrame
  <1>11. CASE TrackState
    <2>1. Still /\ UNCHANGED <<activeGen, promptEchoed, rlOut>> /\ rlPc = "track" /\ rlPc' = "observe"
          /\ state' = IF rlOut[1].ev.kind = "result" THEN "idle" ELSE "failed"
      BY <1>0, <1>11 DEF TrackState, cliVars
    <2>2. ~InWindow' /\ ~EchoRead'
      BY <2>1 DEF InWindow, EchoRead
    <2>3. state' = "idle" => InWindow /\ activeGen = 0
      BY <2>1 DEF InWindow, TurnInv, ActiveIsAsked
    <2> QED
      BY <2>1, <2>2, <2>3, TurnFrame
  <1>12. CASE WaitProcess
    <2>1. Still
      BY <1>0, <1>12 DEF WaitProcess, cliVars
    <2>2. CASE cli = "crashed"
      <3>1. StampTerminal("fatal", {})
        BY <1>12, <2>2 DEF WaitProcess
      <3>2. /\ UNCHANGED <<state, activeGen, promptEchoed>> /\ rlPc' = "clear"
            /\ ~InWindow' /\ ~EchoRead'
        BY <1>6, <3>1
      <3> QED
        BY <1>8, <2>1, <3>2, TurnFrame
    <2>3. CASE cli # "crashed"
      <3>1. UNCHANGED <<state, activeGen, promptEchoed, rlPc, rlOut>> /\ rlPc = "scan"
        BY <1>12, <2>3 DEF WaitProcess, queryState
      <3>2. ~InWindow' /\ (EchoRead' => EchoRead)
        BY <3>1 DEF InWindow, EchoRead
      <3> QED
        BY <1>8, <2>1, <3>1, <3>2, TurnFrame
    <2> QED
      BY <2>2, <2>3
  <1>13. CASE StampExit
    <2>1. Still /\ StampTerminal("exit", {})
      BY <1>0, <1>13 DEF StampExit, cliVars
    <2>2. /\ UNCHANGED <<state, activeGen, promptEchoed>> /\ rlPc' = "clear"
          /\ ~InWindow' /\ ~EchoRead'
      BY <1>6, <2>1
    <2> QED
      BY <1>8, <2>1, <2>2, TurnFrame
  <1>14. CASE Finish
    <2>1. Still /\ activeGen' = activeGen /\ rlPc' = "ended" /\ state' \in {"failed", "done"}
      BY <1>0, <1>14 DEF Finish, cliVars
    <2>2. ~InWindow' /\ ~EchoRead'
      BY <2>1 DEF InWindow, EchoRead
    <2> QED
      BY <2>1, <2>2, TurnFrame
  <1> QED
    BY <1>2, <1>3, <1>4, <1>5, <1>7, <1>9, <1>10, <1>11, <1>12, <1>13, <1>14 DEF ReadLoop

\* A query is asked from prepareQuery to its write.
LEMMA AskingEffects ==
  ASSUME SessionTypes, NEW c \in Callers, CallStep(c), call[c].op \in {"none", "QueryCtx"}
  PROVE  /\ call'[c].op \in {"none", "QueryCtx"}
         /\ Asking(call'[c]) => Asking(call[c]) \/ (PrepareQuery(c) /\ state = "idle")
         /\ Asking(call'[c]) /\ call[c].pc \notin {"prepare", "count", "arm", "store"} =>
              call'[c].pc \notin {"count", "arm", "store"} /\ call'[c].gen = call[c].gen
         /\ StoreGen(c) => /\ Asking(call[c]) /\ call[c].gen \in Queries
                           /\ call'[c].pc = "mark" /\ call'[c].gen = call[c].gen
         /\ PrepareQuery(c) => ~Asking(call[c]) /\ (state # "idle" => ~Asking(call'[c]))
         /\ WriteOk(c) \/ WriteFails(c) =>
              /\ Asking(call[c]) /\ ~Asking(call'[c])
              /\ call[c].gen # 0 /\ call[c].pc = "write"
         /\ FailState(c) => ~Asking(call'[c])
  <1> DEFINE k == call[c]
             n == call'[c]
  <1>0. CallTypes /\ CallOK(k) /\ k \in CallRecord
    BY CallParts DEF SessionTypes
  <1>1. k.pc # "idle"
    BY DEF CallStep, EnableRouting, CallStamp, CallSend, PrepareQuery, ValidateSendable, CountGen,
       ArmHandle, StoreGen, MarkQuery, WriteOk, WriteFails, FailGen, FailState, FailDetach
  <1>2. k.op = "QueryCtx" /\ IsQueryCtx(c)
    BY <1>0, <1>1 DEF CallOK, IsQueryCtx
  <1>3. ASSUME NEW new, Becomes(c, new)
        PROVE  n = new
    BY <1>0, <1>3 DEF Becomes, CallTypes
  <1>4. NoCall.op = "none" /\ ~Asking(NoCall)
    BY DEF NoCall, Asking, Marked
  <1>5. ASSUME NEW pc, NEW out, Becomes(c, Moved(c, pc, out))
        PROVE  n.pc = pc /\ n.op = k.op /\ n.gen = k.gen /\ n.out = out
    BY <1>3, <1>5, MovedFields
  <1>6. CASE EnableRouting(c)
    <2>1. \/ Becomes(c, Moved(c, "stamp", <<StampedAs("barrier", {}, 0)>>))
          \/ Becomes(c, Moved(c, "prepare", k.out))
      BY <1>6, CallForms
    <2>2. <<StampedAs("barrier", {}, 0)>>[1].ev.kind = "barrier"
      BY DEF StampedAs, Ev
    <2>3. n.op = k.op /\ ~Asking(n)
      BY <1>5, <2>1, <2>2 DEF Asking, Marked
    <2>4. k.pc = "enable"
      BY <1>6 DEF EnableRouting
    <2> QED
      BY <1>2, <2>3, <2>4 DEF StoreGen, PrepareQuery, WriteOk, WriteFails, FailState
  <1>7. CASE CallStamp(c) \/ CallSend(c)
    <2>1. k.pc \in {"stamp", "send"}
      BY <1>7 DEF CallStamp, CallSend
    <2>2. \/ Becomes(c, Moved(c, SentPc(c), << >>))
          \/ \E out : out[1].ev.kind = k.out[1].ev.kind /\ Becomes(c, Moved(c, "send", out))
      <3>1. \/ Becomes(c, Moved(c, SentPc(c), << >>))
            \/ \E out \in Seq(Router!Stamped) :
                 /\ out[1] = [ev |-> k.out[1].ev, gen |-> activeGen]
                 /\ Becomes(c, Moved(c, "send", out))
        BY <1>7, CallForms
      <3> QED
        BY <3>1
    <2>3. n.op = k.op /\ n.gen = k.gen /\ (Asking(n) => Asking(k))
          /\ n.pc \notin {"count", "arm", "store"}
      <3>1. CASE Becomes(c, Moved(c, SentPc(c), << >>))
        BY <1>5, <2>1, <3>1 DEF Asking, Marked, SentPc
      <3>2. ASSUME NEW out, out[1].ev.kind = k.out[1].ev.kind, Becomes(c, Moved(c, "send", out))
            PROVE  n.op = k.op /\ n.gen = k.gen /\ (Asking(n) => Asking(k))
                   /\ n.pc \notin {"count", "arm", "store"}
        BY <1>5, <2>1, <3>2 DEF Asking, Marked
      <3> QED
        BY <2>2, <3>1, <3>2
    <2> QED
      BY <1>2, <2>1, <2>3 DEF StoreGen, PrepareQuery, WriteOk, WriteFails, FailState
  <1>8. CASE PrepareQuery(c)
    <2>1. \/ state = "idle" /\ Becomes(c, Moved(c, "count", k.out))
          \/ state # "idle" /\ Becomes(c, NoCall)
      BY <1>2, <1>8, CallForms
    <2>2. k.pc = "prepare" /\ ~Asking(k)
      BY <1>8 DEF PrepareQuery, Asking, Marked
    <2>3. n.op \in {"none", "QueryCtx"} /\ (state # "idle" => ~Asking(n))
      BY <1>2, <1>3, <1>4, <1>5, <2>1
    <2> QED
      BY <1>8, <2>2, <2>3 DEF StoreGen, WriteOk, WriteFails, FailState
  <1>9. CASE ValidateSendable(c)
    BY <1>0, <1>2, <1>9, HoldingParts DEF ValidateSendable
  <1>10. CASE CountGen(c)
    <2>1. Becomes(c, [pc |-> "arm", op |-> k.op, gen |-> genCounter + 1, out |-> k.out])
      BY <1>10, CallForms
    <2>2. n.op = k.op
      BY <1>3, <2>1
    <2>3. k.pc = "count" /\ Asking(k)
      BY <1>10 DEF CountGen, Asking
    <2> QED
      BY <1>2, <2>2, <2>3 DEF StoreGen, PrepareQuery, WriteOk, WriteFails, FailState
  <1>11. CASE ArmHandle(c)
    <2>1. Becomes(c, Moved(c, IF shutdown THEN "mark" ELSE "store", k.out))
      BY <1>11, CallForms
    <2>2. n.op = k.op /\ k.pc = "arm" /\ Asking(k)
      BY <1>5, <1>11, <2>1 DEF ArmHandle, Asking
    <2> QED
      BY <1>2, <2>2 DEF StoreGen, PrepareQuery, WriteOk, WriteFails, FailState
  <1>12. CASE StoreGen(c)
    <2>1. Becomes(c, Moved(c, "mark", k.out))
      BY <1>12, CallForms
    <2>2. n.op = k.op /\ n.pc = "mark" /\ n.gen = k.gen /\ k.pc = "store" /\ Asking(k)
      BY <1>5, <1>12, <2>1 DEF StoreGen, Asking
    <2>3. k.gen \in Queries
      BY <1>0, <2>2, HoldingParts
    <2> QED
      BY <1>2, <2>2, <2>3 DEF PrepareQuery, WriteOk, WriteFails, FailState
  <1>13. CASE MarkQuery(c)
    <2>1. \/ Becomes(c, Moved(c, "stamp", <<StampedAs("thinking", {}, 0)>>))
          \/ Becomes(c, Moved(c, "write", k.out))
      BY <1>13, CallForms
    <2>2. /\ n.op = k.op /\ n.gen = k.gen /\ n.pc \in {"stamp", "write"}
          /\ k.pc = "mark" /\ Asking(k)
      BY <1>5, <1>13, <2>1 DEF MarkQuery, Asking
    <2> QED
      BY <1>2, <2>2 DEF StoreGen, PrepareQuery, WriteOk, WriteFails, FailState
  <1>14. CASE WriteOk(c) \/ WriteFails(c)
    <2>1. Becomes(c, NoCall) \/ Becomes(c, Moved(c, "fail", k.out))
      BY <1>14, CallForms
    <2>2. k.pc = "write" /\ Asking(k)
      BY <1>14 DEF WriteOk, WriteFails, Asking
    <2>3. n.op \in {"none", "QueryCtx"} /\ ~Asking(n)
      <3>1. CASE Becomes(c, NoCall)
        BY <1>3, <1>4, <3>1
      <3>2. CASE Becomes(c, Moved(c, "fail", k.out))
        BY <1>2, <1>5, <3>2 DEF Asking, Marked
      <3> QED
        BY <2>1, <3>1, <3>2
    <2>4. k.gen # 0
      BY <1>0, <1>2, <2>2, HoldingParts
    <2> QED
      BY <2>2, <2>3, <2>4 DEF StoreGen, PrepareQuery, FailState
  <1>15. CASE FailGen(c) \/ FailState(c)
    <2>1. Becomes(c, Moved(c, "failState", k.out)) \/ Becomes(c, Moved(c, "detach", k.out))
      BY <1>15, CallForms
    <2>2. n.op = k.op /\ ~Asking(n) /\ k.pc \in {"fail", "failState"}
      BY <1>5, <1>15, <2>1 DEF FailGen, FailState, Asking, Marked
    <2> QED
      BY <1>2, <2>2 DEF StoreGen, PrepareQuery, WriteOk, WriteFails
  <1>16. CASE FailDetach(c)
    <2>1. n = NoCall
      BY <1>3, <1>16, CallForms
    <2>2. k.pc = "detach"
      BY <1>16 DEF FailDetach
    <2> QED
      BY <1>4, <2>1, <2>2 DEF StoreGen, PrepareQuery, WriteOk, WriteFails, FailState
  <1> QED
    BY <1>6, <1>7, <1>8, <1>9, <1>10, <1>11, <1>12, <1>13, <1>14, <1>15, <1>16 DEF CallStep

LEMMA CallKeepsTurn ==
  ASSUME SessionTypes, TurnInv, NEW c \in Callers, CallStep(c)
  PROVE  TurnInv'
  <1> USE DEF TurnInv
  <1> DEFINE k == call[c]
             n == call'[c]
             first == PrepareQuery(c) /\ state = "idle"
             writes == WriteOk(c) \/ WriteFails(c)
  <1>0. /\ stdout' = stdout /\ turn' = turn /\ cli' = cli /\ rlPc' = rlPc /\ rlOut' = rlOut
        /\ \A d \in Callers : d # c => call'[d] = call[d]
        /\ k.op \in {"none", "QueryCtx"}
    <2>1. UNCHANGED <<stdout, turn, cli, rlPc, rlOut>>
      BY DEF CallStep, EnableRouting, CallStamp, CallSend, PrepareQuery, ValidateSendable, CountGen,
         ArmHandle, StoreGen, MarkQuery, WriteOk, WriteFails, FailGen, FailState, FailDetach,
         cliVars, loopState
    <2>2. k.op \in {"none", "QueryCtx"}
      BY DEF OnlyOne
    <2> QED
      BY <2>1, <2>2, CallEffects
  <1>1. /\ n.op \in {"none", "QueryCtx"}
        /\ Asking(n) => Asking(k) \/ first
        /\ Asking(n) /\ k.pc \notin {"prepare", "count", "arm", "store"} =>
             n.pc \notin {"count", "arm", "store"} /\ n.gen = k.gen
        /\ StoreGen(c) => /\ Asking(k) /\ k.gen \in Queries
                          /\ n.pc = "mark" /\ n.gen = k.gen
        /\ PrepareQuery(c) => ~Asking(k) /\ (state # "idle" => ~Asking(n))
        /\ writes => Asking(k) /\ ~Asking(n) /\ k.gen # 0 /\ k.pc = "write"
        /\ FailState(c) => ~Asking(n)
    BY <1>0, AskingEffects
  <1>2. /\ ~writes => stdin' = stdin
        /\ ~StoreGen(c) => activeGen' \in {0, activeGen}
        /\ ~StoreGen(c) /\ ~FailGen(c) => activeGen' = activeGen
        /\ ~first => state' \in {state, "failed"} /\ promptEchoed' = promptEchoed
        /\ first => state' = "running" /\ promptEchoed' = FALSE
    <2>1. ~writes => stdin' = stdin
      BY DEF CallStep, EnableRouting, CallStamp, CallSend, PrepareQuery, ValidateSendable, CountGen,
         ArmHandle, StoreGen, MarkQuery, FailGen, FailState, FailDetach, cliVars
    <2>2. ~StoreGen(c) /\ ~FailGen(c) => activeGen' = activeGen
      BY DEF CallStep, EnableRouting, CallStamp, CallSend, PrepareQuery, ValidateSendable, CountGen,
         ArmHandle, MarkQuery, WriteOk, WriteFails, FailState, FailDetach, queryState
    <2>3. FailGen(c) => activeGen' = 0
      BY DEF FailGen
    <2>4. ~PrepareQuery(c) => state' \in {state, "failed"} /\ promptEchoed' = promptEchoed
      BY DEF CallStep, EnableRouting, CallStamp, CallSend, ValidateSendable, CountGen,
         ArmHandle, StoreGen, MarkQuery, WriteOk, WriteFails, FailGen, FailState, FailDetach, queryState
    <2>5. PrepareQuery(c) => IF state = "idle" THEN state' = "running" /\ promptEchoed' = FALSE
                             ELSE state' = state /\ promptEchoed' = promptEchoed
      BY DEF PrepareQuery
    <2> QED
      BY <2>1, <2>2, <2>3, <2>4, <2>5
  <1> HIDE DEF first, writes
  <1>3. \A d \in Callers : Asking(call'[d]) => Asking(call[d]) \/ (d = c /\ first)
    BY <1>0, <1>1
  <1>4. /\ InTurn' <=> InTurn
        /\ InStdout' <=> InStdout
        /\ InWindow' <=> InWindow
    BY <1>0 DEF InTurn, InStdout, AnswerIn, InWindow
  <1>5. InCall' <=> \E d \in Callers : Asking(call'[d])
    BY DEF InCall, Asking, Marked
  <1>6. first => ~InStdin /\ ~InTurn /\ ~InStdout /\ ~InWindow /\ ~InCall /\ activeGen = 0
    BY DEF first, OneAtATime, ActiveIsAsked
  <1>7. ASSUME Asking(k)
        PROVE  /\ ~InStdin /\ ~InTurn /\ ~InStdout /\ ~InWindow /\ InCall /\ state # "idle"
               /\ \A d \in Callers : d # c => ~Asking(call'[d])
               /\ ~first
    <2>1. InCall
      BY <1>7 DEF InCall
    <2>2. \A d \in Callers : d # c => ~Asking(call[d])
      BY <1>7 DEF OnlyOne
    <2>3. ~first
      BY <1>1, <1>7 DEF first
    <2> QED
      BY <1>0, <2>1, <2>2, <2>3 DEF OneAtATime
  <1>8. writes => stdin' = stdin \/ \E m \in [q : {k.gen}, slash : BOOLEAN] : stdin' = Append(stdin, m)
    <2>1. \A slash : Receives([q |-> k.gen, slash |-> slash]) =>
            stdin' = stdin \/ stdin' = Append(stdin, [q |-> k.gen, slash |-> slash])
      BY DEF Receives
    <2>2. \A slash \in BOOLEAN : [q |-> k.gen, slash |-> slash] \in [q : {k.gen}, slash : BOOLEAN]
      OBVIOUS
    <2>3. WriteOk(c) => \E slash \in BOOLEAN : Receives([q |-> k.gen, slash |-> slash])
      BY CLIAssumption DEF WriteOk
    <2>4. WriteFails(c) => stdin' = stdin \/ Receives([q |-> k.gen, slash |-> FALSE])
      BY DEF WriteFails
    <2>5. FALSE \in BOOLEAN
      OBVIOUS
    <2> QED
      BY <2>1, <2>2, <2>3, <2>4, <2>5 DEF writes
  <1>9. /\ Len(stdin') <= 1
        /\ \A i \in DOMAIN stdin' :
             \/ stdin' = stdin
             \/ writes /\ stdin'[i].q = k.gen
    <2>1. CASE stdin' = stdin
      BY <2>1 DEF OnlyOne
    <2>2. ASSUME writes, NEW m \in [q : {k.gen}, slash : BOOLEAN], stdin' = Append(stdin, m)
          PROVE  Len(stdin') <= 1 /\ \A i \in DOMAIN stdin' : stdin'[i].q = k.gen
      <3>1. stdin = << >>
        BY <1>1, <1>7, <2>2 DEF InStdin
      <3>2. Len(Append(<< >>, m)) <= 1 /\ \A i \in DOMAIN Append(<< >>, m) : Append(<< >>, m)[i] = m
        OBVIOUS
      <3> QED
        BY <2>2, <3>1, <3>2
    <2> QED
      BY <1>2, <1>8, <2>1, <2>2
  <1>10. OneAtATime'
    <2>1. CASE first
      <3>1. stdin' = stdin /\ ~InStdin'
        BY <1>1, <1>2, <1>6, <1>7, <2>1 DEF InStdin
      <3> QED
        BY <1>2, <1>4, <1>6, <2>1, <3>1 DEF OneAtATime
    <2>2. CASE writes
      <3>1. ~InCall' /\ ~first
        BY <1>1, <1>5, <1>7, <2>2
      <3>2. ~InTurn /\ ~InStdout /\ ~InWindow /\ state' # "idle"
        BY <1>1, <1>2, <1>7, <2>2
      <3> QED
        BY <1>4, <3>1, <3>2 DEF OneAtATime
    <2>3. CASE ~first /\ ~writes
      <3>1. stdin' = stdin /\ (InStdin' <=> InStdin)
        BY <1>2, <2>3 DEF InStdin
      <3>2. InCall' => InCall
        BY <1>3, <1>5, <2>3 DEF InCall
      <3>3. state' = "idle" => state = "idle"
        BY <1>2, <2>3
      <3> QED
        BY <1>4, <3>1, <3>2, <3>3 DEF OneAtATime
    <2> QED
      BY <2>1, <2>2, <2>3
  <1>11. OnlyOne'
    <2>1. \A d, e \in Callers : Asking(call'[d]) /\ Asking(call'[e]) => d = e
      BY <1>3, <1>6 DEF OnlyOne, InCall
    <2>2. \A d \in Callers : call'[d].op \in {"none", "QueryCtx"}
      BY <1>0, <1>1 DEF OnlyOne
    <2> QED
      BY <1>0, <1>9, <2>1, <2>2 DEF OnlyOne, AnswerIn, Asking, Marked
  <1>12. TurnAsks'
    <2>1. \A i \in DOMAIN stdin' : stdin'[i].q # 0
      BY <1>1, <1>9 DEF TurnAsks
    <2> QED
      BY <1>0, <2>1 DEF TurnAsks
  <1>13. ActiveIsAsked'
    <2>1. CASE StoreGen(c)
      <3>1. /\ ~InStdin /\ ~InTurn /\ ~InStdout /\ ~InWindow /\ state' # "idle" /\ ~writes
            /\ \A d \in Callers : d # c => ~Asking(call'[d])
        BY <1>1, <1>2, <1>7, <2>1 DEF writes, StoreGen, WriteOk, WriteFails
      <3>2. activeGen' = n.gen /\ n.pc = "mark"
        BY <1>1, <2>1 DEF StoreGen
      <3>3. stdin' = << >> /\ \A i \in DOMAIN << >> : FALSE
        BY <1>2, <3>1 DEF InStdin
      <3>4. \A i \in DOMAIN stdin' : FALSE
        BY <3>3
      <3>5. turn'.of = {} /\ \A i \in DOMAIN stdout' : stdout'[i].kind = "result" => stdout'[i].of = {}
        BY <1>0, <3>1 DEF InTurn, InStdout, AnswerIn
      <3>6. ~(rlPc' = "track" /\ rlOut'[1].ev.kind = "result")
        BY <1>0, <3>1 DEF InWindow
      <3>7. \A d \in Callers : Asking(call'[d]) =>
              call'[d].pc \notin {"count", "arm", "store"} /\ activeGen' = call'[d].gen
        BY <3>1, <3>2
      <3> QED
        BY <3>1, <3>4, <3>5, <3>6, <3>7 DEF ActiveIsAsked, Asking, Marked
    <2>2. CASE ~StoreGen(c)
      <3>1. activeGen' \in {0, activeGen}
        BY <1>2, <2>2
      <3>2. \A d \in Callers : Asking(call'[d]) =>
              \/ activeGen' = 0
              \/ call'[d].pc \notin {"count", "arm", "store"} /\ activeGen' = call'[d].gen
        <4> SUFFICES ASSUME NEW d \in Callers, Asking(call'[d])
                     PROVE  \/ activeGen' = 0
                            \/ call'[d].pc \notin {"count", "arm", "store"} /\ activeGen' = call'[d].gen
          OBVIOUS
        <4>1. CASE d # c
          <5>1. Asking(call[d]) /\ call'[d] = call[d]
            BY <1>0, <4>1
          <5> QED
            BY <3>1, <5>1 DEF ActiveIsAsked
        <4>2. CASE d = c /\ first
          BY <1>6, <3>1, <4>2
        <4>3. CASE d = c /\ ~first
          <5>1. Asking(k)
            BY <1>1, <4>3
          <5>2. k.pc # "prepare"
            BY <5>1 DEF Asking, Marked
          <5>3. activeGen = 0 \/ (k.pc \notin {"count", "arm", "store"} /\ activeGen = k.gen)
            BY <5>1 DEF ActiveIsAsked
          <5> QED
            BY <1>1, <3>1, <4>3, <5>2, <5>3
        <4> QED
          BY <4>1, <4>2, <4>3
      <3>3. \A i \in DOMAIN stdin' : activeGen' \in {0, stdin'[i].q}
        <4>1. CASE stdin' = stdin
          BY <3>1, <4>1 DEF ActiveIsAsked
        <4>2. CASE stdin' # stdin
          <5>1. writes
            BY <1>2, <4>2
          <5>2. activeGen \in {0, k.gen}
            BY <1>1, <5>1 DEF ActiveIsAsked
          <5> QED
            BY <1>9, <3>1, <4>2, <5>2
        <4> QED
          BY <4>1, <4>2
      <3>4. state' = "idle" => activeGen' = 0
        <4>1. state' = "idle" => state = "idle"
          BY <1>2
        <4> QED
          BY <3>1, <4>1 DEF ActiveIsAsked
      <3>5. /\ \A h \in turn'.of : activeGen' \in {0, h}
            /\ \A i \in DOMAIN stdout' : stdout'[i].kind = "result" =>
                 \A h \in stdout'[i].of : activeGen' \in {0, h}
            /\ rlPc' = "track" /\ rlOut'[1].ev.kind = "result" => activeGen' = 0
        BY <1>0, <3>1 DEF ActiveIsAsked
      <3> QED
        BY <3>2, <3>3, <3>4, <3>5 DEF ActiveIsAsked, Asking, Marked
    <2> QED
      BY <2>1, <2>2
  <1>14. EchoBeforeAnswer'
    <2>1. EchoRead' => EchoRead
      BY <1>0, <1>2 DEF EchoRead, Ending
    <2> QED
      BY <1>0, <2>1 DEF EchoBeforeAnswer, EchoFirst, AnswerFollows, AnswerIn, TurnOver
  <1> QED
    BY <1>10, <1>11, <1>12, <1>13, <1>14

\* A call that starts asks nothing yet.
LEMMA StartKeepsTurn ==
  ASSUME SessionTypes, TurnInv, Ops = {"QueryCtx"}, NEW c \in Callers, StartCall(c)
  PROVE  TurnInv'
  <1> USE DEF TurnInv
  <1>0. /\ stdin' = stdin /\ stdout' = stdout /\ turn' = turn /\ cli' = cli
        /\ state' = state /\ promptEchoed' = promptEchoed /\ activeGen' = activeGen
        /\ rlPc' = rlPc /\ rlOut' = rlOut
    BY DEF StartCall, cliVars, queryState, loopState
  <1>1. /\ call'[c].op = "QueryCtx" /\ ~Asking(call'[c])
        /\ \A d \in Callers : d # c => call'[d] = call[d]
    <2>1. PICK op \in Ops : \E pc \in {"enable", "prepare", "validate"} :
            Becomes(c, [pc |-> pc, op |-> op, gen |-> 0, out |-> << >>])
      BY StartForm
    <2>2. PICK pc \in {"enable", "prepare", "validate"} :
            Becomes(c, [pc |-> pc, op |-> op, gen |-> 0, out |-> << >>])
      BY <2>1
    <2>3. call'[c].op = "QueryCtx" /\ call'[c].pc \in {"enable", "prepare", "validate"}
          /\ \A d \in Callers : d # c => call'[d] = call[d]
      BY <2>1, <2>2 DEF Becomes, SessionTypes, CallTypes
    <2> QED
      BY <2>3 DEF Asking, Marked
  <1>2. \A d \in Callers : Asking(call'[d]) => Asking(call[d]) /\ call'[d] = call[d]
    BY <1>1
  <1>3. /\ InStdin' <=> InStdin
        /\ InTurn' <=> InTurn
        /\ InStdout' <=> InStdout
        /\ InWindow' <=> InWindow
        /\ InCall' => InCall
    <2>1. InCall' <=> \E d \in Callers : Asking(call'[d])
      BY DEF InCall, Asking, Marked
    <2>2. InCall' => InCall
      BY <1>2, <2>1 DEF InCall
    <2> QED
      BY <1>0, <2>2 DEF InStdin, InTurn, InStdout, AnswerIn, InWindow
  <1>4. OneAtATime'
    BY <1>0, <1>3 DEF OneAtATime
  <1>5. OnlyOne'
    <2>1. \A d, e \in Callers : Asking(call'[d]) /\ Asking(call'[e]) => d = e
      BY <1>2 DEF OnlyOne
    <2>2. \A d \in Callers : call'[d].op \in {"none", "QueryCtx"}
      BY <1>1 DEF OnlyOne
    <2> QED
      BY <1>0, <2>1, <2>2 DEF OnlyOne, AnswerIn, Asking, Marked
  <1>6. ActiveIsAsked'
    <2>1. \A d \in Callers : Asking(call'[d]) =>
            \/ activeGen' = 0
            \/ call'[d].pc \notin {"count", "arm", "store"} /\ activeGen' = call'[d].gen
      BY <1>0, <1>2 DEF ActiveIsAsked
    <2> QED
      BY <1>0, <2>1 DEF ActiveIsAsked, Asking, Marked
  <1>7. TurnAsks'
    BY <1>0 DEF TurnAsks
  <1>8. EchoBeforeAnswer'
    BY <1>0 DEF EchoBeforeAnswer, EchoRead, Ending, EchoFirst, AnswerFollows, AnswerIn, TurnOver
  <1> QED
    BY <1>4, <1>5, <1>6, <1>7, <1>8

LEMMA NextKeepsTurn ==
  ASSUME SessionTypes, TurnInv, Ops = {"QueryCtx"}, [Next]_vars
  PROVE  TurnInv'
  <1>1. CASE Pump \/ Ticker \/ Consume \/ Cancel \/ UNCHANGED vars
    <2>1. /\ UNCHANGED <<stdin, stdout, turn, cli, call>>
          /\ UNCHANGED <<state, promptEchoed, activeGen, rlPc, rlOut>>
      BY <1>1 DEF Pump, PumpTake, PumpRoute, PumpUnrouted, PumpSend, PumpBarrier, PumpFlush,
         PumpFlushed, PumpStop, Evict, Ticker, TickRead, TickStamp, TickSend, Consume,
         DrainOrphans, ReadEvents, WaitReceive, WaitClosed, Abandon, Cancel, vars,
         cliVars, callState, queryState, loopState
    <2>2. (InWindow' <=> InWindow) /\ (EchoRead' <=> EchoRead)
      BY <2>1 DEF InWindow, EchoRead, Ending
    <2>3. /\ state' = "idle" => activeGen' = 0
          /\ rlPc' = "track" /\ rlOut'[1].ev.kind = "result" => activeGen' = 0
      BY <2>1 DEF TurnInv, ActiveIsAsked
    <2> QED
      BY <2>1, <2>2, <2>3, TurnFrame
  <1> QED
    BY <1>1, CLIKeepsTurn, ReadLoopKeepsTurn, StartKeepsTurn, CallKeepsTurn DEF Next, Terminated

LEMMA InitTurn ==
  ASSUME Init
  PROVE  OwnInv /\ TurnInv
  <1> USE DEF Init
  <1>0. /\ stdin = << >> /\ stdout = << >> /\ turn.of = {} /\ turn.kind = "none"
        /\ Len(<< >>) <= 1 /\ \A i \in DOMAIN << >> : FALSE
        /\ \A S : << >> \in Seq(S)
    BY NoTurnType, OwnKinds DEF CLIInit
  <1>1. /\ \A c \in Callers : call[c] = NoCall
        /\ ~Asking(NoCall) /\ NoCall.op = "none" /\ NoCall.out = << >>
    BY DEF NoCall, Asking, Marked
  <1>2. OwnInv
    <2>1. OwnPipe
      BY <1>0, <1>1 DEF OwnPipe
    <2>2. OwnRouter
      <3>1. active = 0 /\ \A g \in Queries : mailbox[g] = << >>
        BY RouterFacts DEF Router!RouterInit
      <3> QED
        BY <1>0, <3>1 DEF OwnRouter
    <2>3. OwnAnswers /\ HeldIsLast
      BY DEF OwnAnswers, HeldIsLast, Waiting, Answers
    <2> QED
      BY <2>1, <2>2, <2>3 DEF OwnInv
  <1>3. ~InStdin /\ ~InTurn /\ ~InStdout /\ ~InWindow /\ ~InCall
    BY <1>0, <1>1 DEF InStdin, InTurn, InStdout, InWindow, InCall
  <1>4. OneAtATime /\ OnlyOne /\ TurnAsks /\ ActiveIsAsked
    BY <1>0, <1>1, <1>3 DEF OneAtATime, OnlyOne, TurnAsks, ActiveIsAsked
  <1>5. EchoBeforeAnswer
    BY <1>0 DEF EchoBeforeAnswer, EchoRead
  <1> QED
    BY <1>2, <1>4, <1>5 DEF TurnInv

\* If the session is asked by QueryCtx only, a result that a handle yields, or
\* still holds, is the answer to its query: whatever is abandoned, late, lost,
\* failed or cancelled, and whichever turns the CLI runs of its own, no handle
\* gets the result of another query or of a notification turn.
THEOREM AnswersReachTheirQuery ==
  ASSUME Ops = {"QueryCtx"}
  PROVE  Spec => []AnswersOwnQuery
  <1>1. Init => SessionTypes /\ OwnInv /\ TurnInv
    BY InitTypes, InitTurn
  <1>2. SessionTypes /\ OwnInv /\ TurnInv /\ [Next]_vars => (SessionTypes /\ OwnInv /\ TurnInv)'
    <2> SUFFICES ASSUME SessionTypes, OwnInv, TurnInv, [Next]_vars
                 PROVE  (SessionTypes /\ OwnInv /\ TurnInv)'
      OBVIOUS
    <2>1. SessionTypes'
      BY NextKeepsTypes
    <2>2. OwnInv'
      BY ReadResultIsAnswer, NextKeepsOwn
    <2>3. TurnInv'
      BY NextKeepsTurn
    <2> QED
      BY <2>1, <2>2, <2>3
  <1>3. OwnInv => AnswersOwnQuery
    <2> SUFFICES ASSUME OwnInv, NEW g \in Queries
                 PROVE  /\ answer[g].by \in Answers => g \in answer[g].of
                        /\ \A i \in DOMAIN mailbox[g] :
                             mailbox[g][i].ev.kind \in Answers => g \in mailbox[g][i].ev.of
      BY DEF AnswersOwnQuery, Answers
    <2>1. mailbox[g] \in Seq(AnswersFor(g))
      BY DEF OwnInv, OwnRouter
    <2>2. \A i \in DOMAIN mailbox[g] : mailbox[g][i] \in AnswersFor(g)
      BY <2>1
    <2> QED
      BY <2>2 DEF OwnInv, OwnAnswers, AnswersFor
  <1> QED
    BY <1>1, <1>2, <1>3, PTL DEF Spec

-----------------------------------------------------------------------------
(* The late result of an abandoned query keeps its generation              *)

\* The queries that were counted and are not being asked any more.
Past == {g \in Queries : g <= genCounter /\ \A c \in Callers : Asking(call[c]) => call[c].gen # g}

\* A query that was written, and whose answer readLoop has not read.
Pending(g) ==
  \/ \E i \in DOMAIN stdin : stdin[i].q = g
  \/ g \in turn.of
  \/ \E i \in DOMAIN stdout : stdout[i].kind = "result" /\ g \in stdout[i].of

\* A call that has stored its generation and not written yet.
Armed(k) == Asking(k) /\ k.pc \notin {"count", "arm", "store"}

Plain == {line \in Line : line.kind # "apierror"}

\* A CLI that has ended answers nothing any more, and only then is the session
\* ended; until then the only terminal events are results.
Gone ==
  /\ waited => cli # "up" /\ stdout = << >>
  /\ cli # "up" => stdin = << >> /\ turn.of = {}
  /\ shutdown => waited
  /\ rlPc = "clear" /\ rlOut[1].ev.kind # "result" => waited
  /\ stdout \in Seq(Plain)

\* Before routing is on, no generation is counted.
Numbered ==
  /\ ~routed => genCounter = 0
  /\ \A c \in Callers : call[c].gen <= genCounter

\* A query that is waited for keeps the active generation until its answer is
\* read: nothing else is asked meanwhile, and it fails only if it was not written.
PendingOwn ==
  /\ given \subseteq Past
  /\ \A g \in Queries : Pending(g) => g \in Past /\ (g \in given => activeGen = g)
  /\ \A c \in Callers : call[c].pc = "fail" =>
       ~stdinOpen /\ \A g \in given : ~Pending(g)
  /\ \A c \in Callers : Armed(call[c]) /\ stdinOpen => activeGen = call[c].gen

\* A result on its way to the orphans, and one from before routing was on.
Late == {sev \in Router!Stamped : sev.ev.kind = "result" =>
           sev.ev.of \subseteq Past /\ \A g \in sev.ev.of \cap given : sev.gen = g}
Blank == {sev \in Router!Stamped : sev.ev.kind = "result" => sev.ev.of = {}}

LatePipe ==
  /\ rlOut \in Seq(Late) /\ pump \in Seq(Late) /\ pumpEv \in Seq(Late)
  /\ evicting \in Seq(Late) /\ orphans \in Seq(Late)
  /\ events \in Seq(Blank)
  /\ pumpPc = "events" => pumpEv[1] \in Blank

LateInv == Gone /\ Numbered /\ PendingOwn /\ LatePipe

\* A query that is pending is in the CLI's hands, and nowhere else.
LEMMA PendingPlace ==
  ASSUME SessionTypes, TurnInv, NEW g \in Queries, Pending(g)
  PROVE  (InStdin \/ InTurn \/ InStdout) /\ ~InWindow /\ ~InCall
  <1>1. (\E i \in DOMAIN stdin : stdin[i].q = g) => InStdin
    <2>1. DOMAIN << >> = {}
      OBVIOUS
    <2> QED
      BY <2>1 DEF InStdin
  <1>2. g \in turn.of => InTurn
    BY DEF InTurn
  <1>3. (\E i \in DOMAIN stdout : stdout[i].kind = "result" /\ g \in stdout[i].of) => InStdout
    BY DEF InStdout, AnswerIn
  <1> QED
    BY <1>1, <1>2, <1>3 DEF Pending, TurnInv, OneAtATime

\* Nothing is pending once the CLI has been waited for.
LEMMA NothingPends ==
  ASSUME SessionTypes, TurnInv, Gone, NEW g \in Queries, Pending(g)
  PROVE  ~waited /\ rlPc # "clear"
  <1>1. DOMAIN << >> = {}
    OBVIOUS
  <1>2. ~waited
    BY <1>1 DEF Gone, Pending
  <1>3. ~InWindow
    BY PendingPlace
  <1> QED
    BY <1>2, <1>3 DEF Gone, InWindow

\* What the CLI does makes no query pending.
LEMMA CLIPends ==
  ASSUME SessionTypes, CLIStep, NEW g \in Queries, Pending(g)'
  PROVE  Pending(g)
  <1>0. /\ stdin \in Seq(Message) /\ stdout \in Seq(Line)
        /\ turn \in Turns /\ turn.of \in SUBSET Queries /\ {} \in SUBSET Queries
    <2>1. turn \in Turns
      BY DEF SessionTypes, CLITypes, Turns
    <2>2. turn.of \in SUBSET Queries
      BY <2>1 DEF Turns
    <2> QED
      BY <2>1, <2>2 DEF SessionTypes, CLITypes
  <1>1. ASSUME stdin # << >>, stdin' = Tail(stdin), NEW lines \in Seq(Quiet), stdout' = stdout \o lines,
               turn'.of \subseteq turn.of \cup Asks(Head(stdin))
        PROVE  Pending(g)
    <2>1. Head(stdin) = stdin[1] /\ 1 \in DOMAIN stdin
      BY <1>0, <1>1
    <2>2. \A i \in DOMAIN Tail(stdin) : i + 1 \in DOMAIN stdin /\ Tail(stdin)[i] = stdin[i + 1]
      BY <1>0, <1>1
    <2>3. \A i \in DOMAIN (stdout \o lines) : (stdout \o lines)[i].kind = "result" =>
            i \in DOMAIN stdout /\ (stdout \o lines)[i] = stdout[i]
      BY <1>0, QuietLines
    <2>4. CASE \E i \in DOMAIN stdin' : stdin'[i].q = g
      BY <1>1, <2>2, <2>4 DEF Pending
    <2>5. CASE g \in turn'.of
      <3>1. g \in turn.of \/ stdin[1].q = g
        BY <1>1, <2>1, <2>5 DEF Asks
      <3> QED
        BY <2>1, <3>1 DEF Pending
    <2>6. CASE \E i \in DOMAIN stdout' : stdout'[i].kind = "result" /\ g \in stdout'[i].of
      BY <1>1, <2>3, <2>6 DEF Pending
    <2> QED
      BY <2>4, <2>5, <2>6 DEF Pending
  <1>2. ASSUME stdin' = stdin, NEW lines \in Seq(Quiet), stdout' = stdout \o lines,
               turn'.of \subseteq turn.of
        PROVE  Pending(g)
    <2>1. \A i \in DOMAIN (stdout \o lines) : (stdout \o lines)[i].kind = "result" =>
            i \in DOMAIN stdout /\ (stdout \o lines)[i] = stdout[i]
      BY <1>0, QuietLines
    <2> QED
      BY <1>2, <2>1 DEF Pending
  <1>3. CASE StartTurn
    <2>1. Head(stdin) \in Message
      BY <1>0, <1>3, HeadTypes DEF StartTurn
    <2>2. Written("init", {}) \o EchoOf(Head(stdin)) \in Seq(Quiet)
      BY <1>0, <2>1, QuietWritten, ConcatTypes
    <2>3. turn'.of = Asks(Head(stdin))
      <3>1. turn' = [NoTurn EXCEPT !.kind = "caller", !.of = Asks(Head(stdin))]
        BY <1>3 DEF StartTurn
      <3> QED
        BY <3>1 DEF NoTurn
    <2> QED
      BY <1>1, <1>3, <2>2, <2>3 DEF StartTurn, Emit
  <1>4. CASE Fold
    <2>1. Head(stdin) \in Message
      BY <1>0, <1>4, HeadTypes DEF Fold
    <2>2. EchoOf(Head(stdin)) \in Seq(Quiet)
      BY <1>0, <2>1, QuietWritten
    <2>3. turn'.of = turn.of \cup Asks(Head(stdin))
      <3>1. turn' = [turn EXCEPT !.of = @ \cup Asks(Head(stdin))]
        BY <1>4 DEF Fold
      <3> QED
        BY <1>0, <3>1 DEF Turns
    <2> QED
      BY <1>1, <1>4, <2>2, <2>3 DEF Fold, Emit
  <1>5. CASE StartNoteTurn
    <2>1. turn' = [NoTurn EXCEPT !.kind = "note"]
      BY <1>5 DEF StartNoteTurn
    <2>2. turn'.of = {}
      BY <2>1 DEF NoTurn
    <2>3. Written("init", {}) \in Seq(Quiet)
      BY <1>0, QuietWritten
    <2> QED
      BY <1>2, <1>5, <2>2, <2>3 DEF StartNoteTurn, Emit
  <1>6. CASE CallTool
    <2>1. turn'.of = turn.of
      BY <1>0, <1>6, TurnFlags DEF CallTool
    <2>2. Written("tool", turn.of) \in Seq(Quiet)
      BY <1>0, QuietWritten
    <2> QED
      BY <1>2, <1>6, <2>1, <2>2 DEF CallTool, Emit
  <1>7. CASE FailTurn
    <2>1. turn'.of = turn.of
      BY <1>0, <1>7, TurnFlags DEF FailTurn
    <2>2. <<[kind |-> "apierror", of |-> turn.of, note |-> FALSE]>> \in Seq(Quiet)
      BY <1>0, QuietWritten
    <2> QED
      BY <1>2, <1>7, <2>1, <2>2 DEF FailTurn, Emit
  <1>8. CASE EndTurn
    <2> DEFINE line == [kind |-> "result", of |-> turn.of, note |-> turn.kind = "note"]
    <2>1. line \in Line /\ line.kind = "result" /\ line.of = turn.of
      BY <1>0 DEF Line, Queries
    <2>2. turn'.of = {} /\ stdin' = stdin /\ stdout' = stdout \o <<line>>
      BY <1>8, NoTurnType DEF EndTurn, Emit
    <2> HIDE DEF line
    <2>3. \A i \in DOMAIN (stdout \o <<line>>) :
            \/ i \in DOMAIN stdout /\ (stdout \o <<line>>)[i] = stdout[i]
            \/ (stdout \o <<line>>)[i] = line
      BY <1>0, <2>1, ResultLine
    <2> QED
      BY <2>1, <2>2, <2>3 DEF Pending
  <1>9. CASE Exit
    <2>1. DOMAIN << >> = {}
      OBVIOUS
    <2> QED
      BY <1>9, <2>1, NoTurnType DEF Exit, Pending
  <1> QED
    BY <1>3, <1>4, <1>5, <1>6, <1>7, <1>8, <1>9 DEF CLIStep, CLINext

\* Without API errors, every line the CLI writes is plain.
LEMMA CLIWritesPlain ==
  ASSUME SessionTypes, CLIStep, ErrorTurns = {}, stdout \in Seq(Plain)
  PROVE  stdout' \in Seq(Plain)
  <1>0. /\ stdin \in Seq(Message) /\ {} \in SUBSET Queries
        /\ turn \in Turns /\ turn.of \in SUBSET Queries /\ << >> \in Seq(Plain)
    <2>1. turn \in Turns
      BY DEF SessionTypes, CLITypes, Turns
    <2>2. turn.of \in SUBSET Queries
      BY <2>1 DEF Turns
    <2> QED
      BY <2>1, <2>2, OwnKinds DEF SessionTypes, CLITypes
  <1>1. ASSUME NEW kind \in {"init", "tool"}, NEW of \in SUBSET Queries
        PROVE  Written(kind, of) \in Seq(Plain)
    <2> DEFINE line == [kind |-> kind, of |-> of, note |-> FALSE]
    <2>1. line \in Line /\ line.kind = kind
      BY DEF Line, Queries
    <2>2. line \in Plain
      BY <2>1 DEF Plain
    <2>3. Written(kind, of) \in {<<line>>, << >>}
      BY DEF Written
    <2> HIDE DEF line
    <2>4. <<line>> \in Seq(Plain)
      BY <2>2
    <2> QED
      BY <1>0, <2>3, <2>4
  <1>2. ASSUME NEW m \in Message
        PROVE  EchoOf(m) \in Seq(Plain)
    <2> DEFINE line == [kind |-> "echo", of |-> Asks(m), note |-> FALSE]
    <2>1. line \in Line /\ line.kind = "echo"
      BY EchoLines DEF Line, Queries
    <2>2. line \in Plain
      BY <2>1 DEF Plain
    <2>3. EchoOf(m) \in {<<line>>, << >>}
      BY DEF EchoOf
    <2> HIDE DEF line
    <2>4. <<line>> \in Seq(Plain)
      BY <2>2
    <2> QED
      BY <1>0, <2>3, <2>4
  <1>3. ASSUME NEW lines \in Seq(Plain), Emit(lines)
        PROVE  stdout' \in Seq(Plain)
    BY <1>3, ConcatTypes DEF Emit
  <1>4. CASE StartTurn
    <2>1. Written("init", {}) \in Seq(Plain) /\ EchoOf(Head(stdin)) \in Seq(Plain)
      BY <1>0, <1>1, <1>2, <1>4, HeadTypes DEF StartTurn
    <2>2. Written("init", {}) \o EchoOf(Head(stdin)) \in Seq(Plain)
      BY <2>1, ConcatTypes
    <2> QED
      BY <1>3, <1>4, <2>2 DEF StartTurn
  <1>5. CASE Fold
    <2>1. EchoOf(Head(stdin)) \in Seq(Plain)
      BY <1>0, <1>2, <1>5, HeadTypes DEF Fold
    <2> QED
      BY <1>3, <1>5, <2>1 DEF Fold
  <1>6. CASE StartNoteTurn
    BY <1>0, <1>1, <1>3, <1>6 DEF StartNoteTurn
  <1>7. CASE CallTool
    BY <1>0, <1>1, <1>3, <1>7 DEF CallTool
  <1>8. CASE EndTurn
    <2> DEFINE line == [kind |-> "result", of |-> turn.of, note |-> turn.kind = "note"]
    <2>1. line \in Line /\ line.kind = "result"
      BY <1>0 DEF Line, Queries
    <2>2. line \in Plain
      BY <2>1 DEF Plain
    <2>3. Emit(<<line>>)
      BY <1>8 DEF EndTurn
    <2> HIDE DEF line
    <2>4. <<line>> \in Seq(Plain)
      BY <2>2
    <2> QED
      BY <1>3, <2>3, <2>4
  <1> QED
    BY <1>4, <1>5, <1>6, <1>7, <1>8 DEF CLIStep, CLINext, FailTurn, Exit

\* The end of the session comes after the CLI's, in every step.
LEMMA NextKeepsGone ==
  ASSUME SessionTypes, EndInv, Gone, ErrorTurns = {}, [Next]_vars
  PROVE  Gone'
  <1> USE DEF Gone
  <1>1. CASE CLIStep
    <2>1. UNCHANGED <<waited, shutdown, rlPc, rlOut>>
      BY <1>1 DEF CLIStep, loopState, routerState
    <2>2. cli = "up" /\ (cli' # "up" => stdin' = << >> /\ turn'.of = {})
      BY <1>1, NoTurnType DEF CLIStep, CLINext, StartTurn, StartNoteTurn, Fold, CallTool, FailTurn, EndTurn, Exit
    <2>3. stdout' \in Seq(Plain)
      BY <1>1, CLIWritesPlain
    <2> QED
      BY <2>1, <2>2, <2>3
  <1>2. CASE ReadLoop
    <2>1. /\ UNCHANGED <<stdin, turn, cli>>
          /\ waited' = waited \/ WaitProcess
          /\ shutdown' = shutdown \/ Shutdown
          /\ stdout' = stdout \/ (stdout # << >> /\ stdout' = Tail(stdout) /\ ~WaitProcess)
      BY <1>2, RouterEnds DEF ReadLoop, ReadEcho, ReadInit, ReadTool, ReadHeldResult, StampHeld, ReadResult,
         ReadApiError, ClearGen, TrackState, ObserveTerminal, Push, WaitProcess, ClosePump,
         StampExit, DeliverExit, CheckRouted, Shutdown, Finish, StampTerminal, Reads, cliVars, loopState
    <2>2. WaitProcess => stdout = << >> /\ cli # "up" /\ waited'
      BY DEF WaitProcess
    <2>3. Shutdown => waited /\ waited'
      BY DEF Shutdown, EndInv, EndIsWaited, Ending, loopState
    <2>4. stdout' \in Seq(Plain)
      BY <2>1, HeadTypes
    <2>5. ~ReadApiError
      <3>1. stdout # << >> => Head(stdout) \in Plain
        BY HeadTypes
      <3> QED
        BY <3>1 DEF ReadApiError, Reads, Plain
    <2>6. rlPc' = "clear" /\ rlOut'[1].ev.kind # "result" => waited'
      <3>1. CASE ReadResult
        <4>1. rlOut'[1] = StampedAs("result", Head(stdout).of, activeGen)
          BY <3>1 DEF ReadResult, StampTerminal
        <4> QED
          BY <4>1, StampedFields
      <3>2. CASE StampExit
        BY <3>2 DEF StampExit, EndInv, EndIsWaited, Ending
      <3>3. CASE WaitProcess
        BY <3>3 DEF WaitProcess
      <3>4. CASE ReadEcho \/ ClosePump
        BY <3>4 DEF ReadEcho, Reads, ClosePump, loopState
      <3>5. CASE ReadInit \/ ReadTool \/ ReadHeldResult \/ StampHeld \/ ClearGen \/ TrackState
                 \/ ObserveTerminal \/ Push \/ DeliverExit \/ CheckRouted \/ Shutdown \/ Finish
        <4>1. rlPc' # "clear"
          BY <3>5 DEF ReadInit, ReadTool, ReadHeldResult, StampHeld, ClearGen, TrackState,
             ObserveTerminal, Push, DeliverExit, CheckRouted, Shutdown, Finish, WithTransition
        <4> QED
          BY <4>1
      <3> QED
        BY <1>2, <2>5, <3>1, <3>2, <3>3, <3>4, <3>5 DEF ReadLoop
    <2> QED
      BY <2>1, <2>2, <2>3, <2>4, <2>6
  <1>3. ASSUME NEW c \in Callers, CallStep(c)
        PROVE  Gone'
    <2>1. UNCHANGED <<stdout, turn, cli, waited, rlPc, rlOut>>
      BY <1>3 DEF CallStep, EnableRouting, CallStamp, CallSend, PrepareQuery, ValidateSendable, CountGen,
         ArmHandle, StoreGen, MarkQuery, WriteOk, WriteFails, FailGen, FailState, FailDetach,
         cliVars, loopState
    <2>2. shutdown' = shutdown
      BY <1>3, RouterEnds DEF CallStep, EnableRouting, CallStamp, CallSend, PrepareQuery, ValidateSendable,
         CountGen, ArmHandle, StoreGen, MarkQuery, WriteOk, WriteFails, FailGen, FailState, FailDetach,
         Router!Arm, Router!Detach
    <2>3. cli # "up" => stdin' = stdin
      BY <1>3 DEF CallStep, EnableRouting, CallStamp, CallSend, PrepareQuery, ValidateSendable, CountGen,
         ArmHandle, StoreGen, MarkQuery, WriteOk, WriteFails, FailGen, FailState, FailDetach,
         cliVars, Receives
    <2> QED
      BY <2>1, <2>2, <2>3
  <1>4. ASSUME UNCHANGED <<stdin, stdout, turn, cli, waited, rlPc, rlOut>>, shutdown' = shutdown
        PROVE  Gone'
    BY <1>4
  <1>5. CASE Pump
    <2>1. UNCHANGED <<stdin, stdout, turn, cli, waited, rlPc, rlOut>>
      BY <1>5 DEF Pump, PumpTake, PumpRoute, PumpUnrouted, PumpSend, PumpBarrier, PumpFlush,
         PumpFlushed, PumpStop, Evict, cliVars, loopState
    <2>2. shutdown' = shutdown
      BY <1>5, RouterEnds DEF Pump, PumpTake, PumpRoute, PumpUnrouted, PumpSend, PumpBarrier, PumpFlush,
         PumpFlushed, PumpStop, Evict
    <2> QED
      BY <1>4, <2>1, <2>2
  <1>6. CASE Consume
    <2>1. UNCHANGED <<stdin, stdout, turn, cli, waited, rlPc, rlOut>>
      BY <1>6 DEF Consume, DrainOrphans, ReadEvents, WaitReceive, WaitClosed, Abandon, cliVars, loopState
    <2>2. shutdown' = shutdown
      BY <1>6, RouterEnds DEF Consume, DrainOrphans, ReadEvents, WaitReceive, WaitClosed, Abandon,
         Router!Detach
    <2> QED
      BY <1>4, <2>1, <2>2
  <1>7. CASE Ticker \/ Cancel \/ UNCHANGED vars
    <2>1. UNCHANGED <<stdin, stdout, turn, cli, waited, rlPc, rlOut>> /\ shutdown' = shutdown
      BY <1>7 DEF Ticker, TickRead, TickStamp, TickSend, Cancel, vars, cliVars, loopState, routerState
    <2> QED
      BY <1>4, <2>1
  <1>8. ASSUME NEW c \in Callers, StartCall(c)
        PROVE  Gone'
    <2>1. UNCHANGED <<stdin, stdout, turn, cli, waited, rlPc, rlOut>> /\ shutdown' = shutdown
      BY <1>8 DEF StartCall, cliVars, loopState, routerState
    <2> QED
      BY <1>4, <2>1
  <1> QED
    BY <1>1, <1>2, <1>3, <1>5, <1>6, <1>7, <1>8 DEF Next, Terminated

\* A call asks for the generation it has, for one it counts, or for none yet.
LEMMA AskedGens ==
  ASSUME SessionTypes, TurnInv, NEW c \in Callers, CallStep(c)
  PROVE  /\ \A d \in Callers : d # c => call'[d] = call[d]
         /\ Asking(call'[c]) => \/ Asking(call[c]) /\ call'[c].gen = call[c].gen
                                \/ call'[c].gen = 0
                                \/ CountGen(c)
         /\ call'[c].gen \in {call[c].gen, 0} \/ CountGen(c)
         /\ CountGen(c) => /\ call'[c].gen = genCounter + 1 /\ genCounter' = genCounter + 1
                           /\ call[c].op = "QueryCtx" /\ call[c].pc # "enable"
         /\ ~CountGen(c) => genCounter' = genCounter
         /\ given' = given \/ (WriteOk(c) /\ given' = given \cup {call[c].gen})
         /\ WriteOk(c) \/ WriteFails(c) =>
              Asking(call[c]) /\ ~Asking(call'[c]) /\ call[c].gen \in Queries
  <1> DEFINE k == call[c]
             n == call'[c]
  <1>0. /\ CallTypes /\ CallOK(k) /\ k \in CallRecord /\ k.op \in {"none", "QueryCtx"}
        /\ CallTypes' /\ CallOK(n)
    <2>1. CallTypes'
      BY CallKeepsTypes DEF SessionTypes
    <2>2. CallOK(n)
      BY <2>1 DEF CallTypes, CallOK, Marked, Holding
    <2> QED
      BY <2>1, <2>2, CallParts DEF SessionTypes, TurnInv, OnlyOne
  <1>1. /\ \A d \in Callers : d # c => call'[d] = call[d]
        /\ n.op = "QueryCtx" => n.gen = k.gen \/ CountGen(c)
        /\ n.op \in {"none", "QueryCtx"}
        /\ Asking(n) => Asking(k) \/ (PrepareQuery(c) /\ state = "idle")
        /\ WriteOk(c) \/ WriteFails(c) => Asking(k) /\ ~Asking(n) /\ k.pc = "write"
    BY <1>0, CallEffects, AskingEffects
  <1>2. n.op = "none" => n.gen = 0 /\ ~Asking(n)
    BY <1>0 DEF CallOK, Asking, Marked
  <1>3. PrepareQuery(c) => k.gen = 0
    BY <1>0, HoldingParts DEF PrepareQuery, CallOK
  <1>4. CountGen(c) => n.gen = genCounter + 1 /\ genCounter' = genCounter + 1
                       /\ k.op = "QueryCtx" /\ k.pc # "enable"
    <2>1. CountGen(c) => Becomes(c, [pc |-> "arm", op |-> k.op, gen |-> genCounter + 1, out |-> k.out])
      BY CallForms
    <2>2. CountGen(c) => n.gen = genCounter + 1
      BY <1>0, <2>1 DEF Becomes, CallTypes
    <2>3. CountGen(c) => k.op = "QueryCtx" /\ k.pc # "enable" /\ genCounter' = genCounter + 1
      BY <1>0, HoldingParts DEF CountGen
    <2> QED
      BY <2>2, <2>3
  <1>5. ~CountGen(c) => genCounter' = genCounter
    BY DEF CallStep, EnableRouting, CallStamp, CallSend, PrepareQuery, ValidateSendable,
       ArmHandle, StoreGen, MarkQuery, WriteOk, WriteFails, FailGen, FailState, FailDetach, queryState
  <1>6. given' = given \/ (WriteOk(c) /\ given' = given \cup {k.gen})
    BY DEF CallStep, EnableRouting, CallStamp, CallSend, PrepareQuery, ValidateSendable, CountGen,
       ArmHandle, StoreGen, MarkQuery, WriteOk, WriteFails, FailGen, FailState, FailDetach,
       userState, IsQueryCtx
  <1>7. WriteOk(c) \/ WriteFails(c) => k.gen \in Queries
    <2>1. k.pc = "write" => k.gen \in Queries
      BY <1>0, HoldingParts
    <2> QED
      BY <1>1, <2>1
  <1> QED
    BY <1>1, <1>2, <1>3, <1>4, <1>5, <1>6, <1>7

\* What is past stays past, and only a query that was being asked is handed out.
PastGrows ==
  Past \subseteq Past' /\ given' \cap Past \subseteq given /\ given' \subseteq Past'

\* Generations are counted by QueryCtx calls only, one at a time.
LEMMA NextCounts ==
  ASSUME SessionTypes, EndInv, TurnInv, Numbered, given \subseteq Past, Ops = {"QueryCtx"}, [Next]_vars
  PROVE  PastGrows /\ Numbered'
  <1> USE DEF Numbered
  <1>0. /\ genCounter \in Nat /\ MaxGen \in Nat /\ \A g \in Queries : g \in Nat /\ g # 0
        /\ Past = {g \in Queries : g <= genCounter /\ \A c \in Callers : Asking(call[c]) => call[c].gen # g}
    BY CLIAssumption DEF SessionTypes, Counting, Queries, Past
  <1>1. ASSUME UNCHANGED <<call, genCounter, given, routed>>
        PROVE  PastGrows /\ Numbered'
    <2>1. Past' = Past
      BY <1>1 DEF Past, Asking, Marked
    <2> QED
      BY <1>1, <2>1 DEF PastGrows
  <1>2. ASSUME NEW c \in Callers, CallStep(c)
        PROVE  PastGrows /\ Numbered'
    <2>1. /\ \A d \in Callers : d # c => call'[d] = call[d]
          /\ Asking(call'[c]) => \/ Asking(call[c]) /\ call'[c].gen = call[c].gen
                                 \/ call'[c].gen = 0
                                 \/ CountGen(c)
          /\ call'[c].gen \in {call[c].gen, 0} \/ CountGen(c)
          /\ CountGen(c) => /\ call'[c].gen = genCounter + 1 /\ genCounter' = genCounter + 1
                            /\ call[c].op = "QueryCtx" /\ call[c].pc # "enable"
          /\ ~CountGen(c) => genCounter' = genCounter
          /\ given' = given \/ (WriteOk(c) /\ given' = given \cup {call[c].gen})
          /\ WriteOk(c) => Asking(call[c]) /\ ~Asking(call'[c]) /\ call[c].gen \in Queries
      BY <1>2, AskedGens
    <2>2. genCounter' \in Nat /\ genCounter <= genCounter'
      BY <1>0, <2>1
    <2>3. ASSUME NEW g \in Queries, g <= genCounter'
          PROVE  g \in Past' <=> \A d \in Callers : Asking(call'[d]) => call'[d].gen # g
      BY <2>3 DEF Past, Asking, Marked
    <2>4. Past \subseteq Past'
      <3> SUFFICES ASSUME NEW g \in Past, NEW d \in Callers, Asking(call'[d]), call'[d].gen = g
                   PROVE  FALSE
        <4>1. \A g \in Past : g \in Queries /\ g <= genCounter'
          BY <1>0, <2>2
        <4> QED
          BY <2>3, <4>1
      <3>1. Asking(call[d]) => call[d].gen # g
        BY <1>0
      <3>2. d = c /\ ~(Asking(call[c]) /\ call'[c].gen = call[c].gen)
        BY <2>1, <3>1
      <3>3. g # 0 /\ g # genCounter + 1
        BY <1>0
      <3> QED
        BY <2>1, <3>2, <3>3
    <2>5. WriteOk(c) => call[c].gen \notin Past /\ call[c].gen \in Past'
      <3> SUFFICES ASSUME WriteOk(c)
                   PROVE  call[c].gen \notin Past /\ call[c].gen \in Past'
        OBVIOUS
      <3>1. call[c].gen \notin Past
        BY <1>0, <2>1
      <3>2. call[c].gen \in Queries /\ call[c].gen <= genCounter'
        BY <2>1 DEF CountGen, WriteOk
      <3>3. \A d \in Callers : ~Asking(call'[d])
        BY <2>1 DEF TurnInv, OnlyOne
      <3> QED
        BY <2>3, <3>1, <3>2, <3>3
    <2>6. PastGrows
      BY <2>1, <2>4, <2>5 DEF PastGrows
    <2>7. routed => routed'
      BY <1>2 DEF CallStep, EnableRouting, CallStamp, CallSend, PrepareQuery, ValidateSendable, CountGen,
         ArmHandle, StoreGen, MarkQuery, WriteOk, WriteFails, FailGen, FailState, FailDetach, modeState
    <2>8. ~routed' => genCounter' = 0
      BY <2>1, <2>7 DEF EndInv, RoutedFirst
    <2>9. \A d \in Callers : call'[d].gen <= genCounter'
      <3> SUFFICES ASSUME NEW d \in Callers
                   PROVE  call'[d].gen <= genCounter'
        OBVIOUS
      <3>0. \A e \in Callers : call[e].gen \in 0..MaxGen
        BY DEF SessionTypes, CallTypes, CallOK, CallRecord
      <3>1. call[d].gen \in Nat /\ call[d].gen <= genCounter /\ call[c].gen \in Nat
        BY <1>0, <3>0
      <3> QED
        BY <1>0, <2>1, <2>2, <3>1
    <2> QED
      BY <2>6, <2>8, <2>9
  <1>3. ASSUME NEW c \in Callers, StartCall(c)
        PROVE  PastGrows /\ Numbered'
    <2>1. UNCHANGED <<genCounter, given, routed>>
      BY <1>3 DEF StartCall, queryState, userState, modeState
    <2>2. PICK op \in Ops : \E pc \in {"enable", "prepare", "validate"} :
            Becomes(c, [pc |-> pc, op |-> op, gen |-> 0, out |-> << >>])
      BY <1>3, StartForm
    <2>3. PICK pc \in {"enable", "prepare", "validate"} :
            Becomes(c, [pc |-> pc, op |-> op, gen |-> 0, out |-> << >>])
      BY <2>2
    <2>4. /\ call'[c].gen = 0 /\ ~Asking(call'[c])
          /\ \A d \in Callers : d # c => call'[d] = call[d]
      BY <2>3 DEF Becomes, SessionTypes, CallTypes, Asking, Marked
    <2>5. Past \subseteq Past'
      BY <1>0, <2>1, <2>4 DEF Past, Asking, Marked
    <2> QED
      BY <1>0, <2>1, <2>4, <2>5 DEF PastGrows
  <1>4. CASE CLIStep \/ Cancel \/ Ticker \/ UNCHANGED vars
    <2>1. UNCHANGED <<call, genCounter, given, routed>>
      BY <1>4 DEF CLIStep, Cancel, Ticker, TickRead, TickStamp, TickSend, vars,
         callState, queryState, userState, modeState
    <2> QED
      BY <1>1, <2>1
  <1>5. CASE ReadLoop
    <2>1. UNCHANGED <<call, genCounter, given, routed>>
      BY <1>5 DEF ReadLoop, ReadEcho, ReadInit, ReadTool, ReadHeldResult, StampHeld, ReadResult,
         ReadApiError, ClearGen, TrackState, ObserveTerminal, Push, WaitProcess, ClosePump,
         StampExit, DeliverExit, CheckRouted, Shutdown, Finish, StampTerminal,
         callState, queryState, userState, modeState
    <2> QED
      BY <1>1, <2>1
  <1>6. CASE Pump
    <2>1. UNCHANGED <<call, genCounter, given, routed>>
      BY <1>6 DEF Pump, PumpTake, PumpRoute, PumpUnrouted, PumpSend, PumpBarrier, PumpFlush,
         PumpFlushed, PumpStop, Evict, callState, queryState, userState, modeState
    <2> QED
      BY <1>1, <2>1
  <1>7. CASE Consume
    <2>1. UNCHANGED <<call, genCounter, given, routed>>
      BY <1>7 DEF Consume, DrainOrphans, ReadEvents, WaitReceive, WaitClosed, Abandon,
         callState, queryState, userState, modeState
    <2> QED
      BY <1>1, <2>1
  <1> QED
    BY <1>2, <1>3, <1>4, <1>5, <1>6, <1>7 DEF Next, Terminated

\* A call is armed by storing its generation, or by a router that was shut down.
LEMMA ArmedEffects ==
  ASSUME SessionTypes, TurnInv, NEW c \in Callers, CallStep(c)
  PROVE  /\ Armed(call'[c]) => \/ Armed(call[c]) /\ call'[c].gen = call[c].gen
                               \/ StoreGen(c)
                               \/ ArmHandle(c) /\ shutdown
         /\ call'[c].pc = "fail" => WriteFails(c)
  <1> DEFINE k == call[c]
             n == call'[c]
  <1>0. CallTypes /\ k.op \in {"none", "QueryCtx"}
    BY DEF SessionTypes, TurnInv, OnlyOne
  <1>1. ASSUME NEW new, Becomes(c, new)
        PROVE  n = new
    BY <1>0, <1>1 DEF Becomes, CallTypes
  <1>2. NoCall.pc = "idle" /\ ~Armed(NoCall)
    BY DEF NoCall, Armed, Asking, Marked
  <1>3. ASSUME NEW pc, NEW out, Becomes(c, Moved(c, pc, out))
        PROVE  n.pc = pc
    BY <1>1, <1>3, MovedFields
  <1>4. CASE EnableRouting(c) \/ CallStamp(c) \/ CallSend(c) \/ MarkQuery(c)
    <2>1. \/ Becomes(c, Moved(c, "stamp", <<StampedAs("barrier", {}, 0)>>))
          \/ Becomes(c, Moved(c, "stamp", <<StampedAs("thinking", {}, 0)>>))
          \/ Becomes(c, Moved(c, "prepare", k.out)) \/ Becomes(c, Moved(c, "write", k.out))
          \/ Becomes(c, Moved(c, SentPc(c), << >>)) \/ \E out : Becomes(c, Moved(c, "send", out))
      <3>1. CallStamp(c) => \/ Becomes(c, Moved(c, SentPc(c), << >>))
                            \/ \E out \in Seq(Router!Stamped) : Becomes(c, Moved(c, "send", out))
        BY CallForms
      <3> QED
        BY <1>4, <3>1, CallForms
    <2>2. n.pc \in {"stamp", "prepare", "write", "send"}
      BY <1>3, <2>1 DEF SentPc
    <2>3. k.pc \in {"enable", "stamp", "send", "mark"}
      BY <1>4 DEF EnableRouting, CallStamp, CallSend, MarkQuery
    <2>4. /\ Asking(n) => Asking(k) \/ PrepareQuery(c)
          /\ Asking(n) /\ k.pc \notin {"prepare", "count", "arm", "store"} =>
               n.pc \notin {"count", "arm", "store"} /\ n.gen = k.gen
      BY <1>0, AskingEffects
    <2> QED
      BY <2>2, <2>3, <2>4 DEF Armed, PrepareQuery
  <1>5. CASE PrepareQuery(c) \/ CountGen(c)
    <2>1. k.pc # "idle" /\ k.op = "QueryCtx"
      BY <1>0, <1>5, CallParts DEF PrepareQuery, CountGen, CallOK
    <2>2. \/ Becomes(c, Moved(c, "count", k.out)) \/ Becomes(c, NoCall)
          \/ Becomes(c, [pc |-> "arm", op |-> k.op, gen |-> genCounter + 1, out |-> k.out])
      BY <1>5, <2>1, CallForms DEF IsQueryCtx
    <2>3. n.pc \in {"count", "arm"} \/ n = NoCall
      BY <1>1, <1>3, <2>2
    <2> QED
      BY <1>2, <2>3 DEF Armed
  <1>6. CASE ValidateSendable(c)
    BY <1>0, <1>6, HoldingParts, CallParts DEF ValidateSendable, CallOK
  <1>7. CASE ArmHandle(c)
    <2>1. Becomes(c, Moved(c, IF shutdown THEN "mark" ELSE "store", k.out))
      BY <1>7, CallForms
    <2>2. n.pc = IF shutdown THEN "mark" ELSE "store"
      BY <1>3, <2>1
    <2> QED
      BY <1>7, <2>2 DEF Armed
  <1>8. CASE StoreGen(c)
    <2>1. n.pc = "mark"
      BY <1>3, <1>8, CallForms
    <2> QED
      BY <1>8, <2>1
  <1>9. CASE WriteOk(c) \/ FailGen(c) \/ FailState(c) \/ FailDetach(c)
    <2>1. \/ Becomes(c, NoCall)
          \/ Becomes(c, Moved(c, "failState", k.out)) \/ Becomes(c, Moved(c, "detach", k.out))
      BY <1>9, CallForms
    <2>2. n = NoCall \/ n.pc \in {"failState", "detach"}
      BY <1>1, <1>3, <2>1
    <2> QED
      BY <1>2, <2>2 DEF Armed, Asking, Marked
  <1>10. CASE WriteFails(c)
    <2>1. Becomes(c, NoCall) \/ Becomes(c, Moved(c, "fail", k.out))
      BY <1>10, CallForms
    <2>2. n = NoCall \/ n.pc = "fail"
      BY <1>1, <1>3, <2>1
    <2> QED
      BY <1>2, <1>10, <2>2 DEF Armed, Asking, Marked
  <1> QED
    BY <1>4, <1>5, <1>6, <1>7, <1>8, <1>9, <1>10 DEF CallStep

\* A step that makes nothing pending and hands nothing out.
LEMMA PendingFrame ==
  ASSUME PendingOwn, PastGrows, given' = given, stdinOpen' => stdinOpen,
         \A g \in Queries : Pending(g)' => Pending(g),
         \A c \in Callers : call'[c].pc = "fail" => call[c].pc = "fail",
         \/ activeGen' = activeGen
         \/ \A g \in given : ~Pending(g),
         \A c \in Callers : Armed(call'[c]) /\ stdinOpen' => activeGen' = call'[c].gen
  PROVE  PendingOwn'
  <1> USE DEF PendingOwn, PastGrows
  <1>1. \A g \in Queries : Pending(g)' => g \in Past' /\ (g \in given' => activeGen' = g)
    OBVIOUS
  <1>2. \A c \in Callers : call'[c].pc = "fail" => ~stdinOpen' /\ \A g \in given' : ~Pending(g)'
    <2>1. \A g \in given : g \in Queries
      BY DEF Past
    <2> QED
      BY <2>1
  <1>3. \A c \in Callers : Armed(call'[c]) /\ stdinOpen' => activeGen' = call'[c].gen
    OBVIOUS
  <1> QED
    BY <1>1, <1>2, <1>3 DEF Armed, Asking, Marked

\* A call asks only while nothing is pending, so no step of it takes the active
\* generation from a query that is.
LEMMA CallKeepsPending ==
  ASSUME SessionTypes, EndInv, TurnInv, Gone, Numbered, PendingOwn, PastGrows,
         NEW c \in Callers, CallStep(c)
  PROVE  PendingOwn'
  <1> DEFINE k == call[c]
             n == call'[c]
  <1>0. /\ \A d \in Callers : d # c => call'[d] = call[d]
        /\ given' = given \/ (WriteOk(c) /\ given' = given \cup {k.gen})
        /\ WriteOk(c) \/ WriteFails(c) => Asking(k) /\ ~Asking(n) /\ k.gen \in Queries
        /\ Armed(n) => \/ Armed(k) /\ n.gen = k.gen
                       \/ StoreGen(c)
                       \/ ArmHandle(c) /\ shutdown
        /\ n.pc = "fail" => WriteFails(c)
        /\ k.op \in {"none", "QueryCtx"}
    BY AskedGens, ArmedEffects DEF TurnInv, OnlyOne
  <1>1. /\ UNCHANGED <<stdout, turn>>
        /\ stdinOpen' = stdinOpen \/ WriteFails(c)
        /\ stdin' = stdin \/ WriteOk(c) \/ WriteFails(c)
        /\ activeGen' = activeGen \/ StoreGen(c) \/ FailGen(c)
    BY DEF CallStep, EnableRouting, CallStamp, CallSend, PrepareQuery, ValidateSendable, CountGen,
       ArmHandle, StoreGen, MarkQuery, WriteOk, WriteFails, FailGen, FailState, FailDetach,
       cliVars, endState, queryState
  <1>2. Asking(k) => /\ \A g \in Queries : ~Pending(g)
                     /\ \A d \in Callers : d # c => ~Asking(call'[d])
    <2>1. Asking(k) => InCall
      BY DEF InCall
    <2>2. Asking(k) => \A d \in Callers : d # c => ~Asking(call[d])
      BY DEF TurnInv, OnlyOne
    <2> QED
      BY <1>0, <2>1, <2>2, PendingPlace
  <1>3. CASE WriteOk(c) \/ WriteFails(c)
    <2>1. Asking(k) /\ ~Asking(n) /\ k.gen \in Queries /\ k.pc = "write"
          /\ (\A g \in Queries : ~Pending(g)) /\ (\A d \in Callers : ~Asking(call'[d]))
          /\ activeGen' = activeGen /\ UNCHANGED genCounter
      BY <1>0, <1>2, <1>3 DEF WriteOk, WriteFails, queryState
    <2>2. k.gen \notin Past /\ k.gen \notin given
      BY <2>1 DEF Past, PendingOwn
    <2>3. k.gen \in Past'
      BY <2>1 DEF Past, Numbered, Asking, Marked
    <2>4. \A i \in DOMAIN stdin' :
            (i \in DOMAIN stdin /\ stdin'[i] = stdin[i]) \/ stdin'[i].q = k.gen
      <3>1. stdin \in Seq(Message)
        BY DEF SessionTypes, CLITypes
      <3>2. ASSUME NEW m, m.q = k.gen, stdin' = Append(stdin, m)
            PROVE  \A i \in DOMAIN stdin' :
            (i \in DOMAIN stdin /\ stdin'[i] = stdin[i]) \/ stdin'[i].q = k.gen
        BY <3>1, <3>2
      <3>3. stdin' = stdin \/ \E m : m.q = k.gen /\ stdin' = Append(stdin, m)
        BY <1>3 DEF WriteOk, WriteFails, Receives
      <3> QED
        BY <3>2, <3>3
    <2>5. \A g \in Queries : Pending(g)' => g = k.gen
      <3> SUFFICES ASSUME NEW g \in Queries, Pending(g)', g # k.gen
                   PROVE  Pending(g)
        BY <2>1
      <3> QED
        BY <1>1, <2>4 DEF Pending
    <2>6. CASE WriteOk(c)
      <3>1. stdinOpen /\ stdinOpen' /\ Armed(k) /\ activeGen = k.gen
        BY <2>1, <2>6 DEF WriteOk, Armed, PendingOwn, endState
      <3>2. \A d \in Callers : call'[d].pc # "fail"
        BY <1>0, <2>6, <3>1 DEF PendingOwn, WriteOk, WriteFails, endState
      <3>3. \A d \in Callers : ~Armed(call'[d])
        BY <2>1 DEF Armed
      <3>4. \A g \in Queries : Pending(g)' => g \in Past' /\ (g \in given' => activeGen' = g)
        BY <2>1, <2>3, <2>5, <3>1
      <3> QED
        BY <3>2, <3>3, <3>4 DEF PendingOwn, PastGrows, Armed, Asking, Marked
    <2>7. CASE WriteFails(c)
      <3>1. ~stdinOpen' /\ given' = given
        BY <2>7 DEF WriteFails, userState
      <3>2. \A g \in Queries : Pending(g)' => g \in Past' /\ g \notin given'
        BY <2>2, <2>3, <2>5, <3>1
      <3>3. \A g \in given' : g \in Queries
        BY <3>1 DEF PendingOwn, Past
      <3> QED
        BY <3>1, <3>2, <3>3 DEF PendingOwn, PastGrows, Armed, Asking, Marked
    <2> QED
      BY <1>3, <2>6, <2>7
  <1>4. CASE ~WriteOk(c) /\ ~WriteFails(c)
    <2>1. /\ given' = given /\ stdinOpen' = stdinOpen
          /\ UNCHANGED <<stdin, stdout, turn>>
      BY <1>0, <1>1, <1>4
    <2>2. \A g \in Queries : Pending(g)' => Pending(g)
      BY <2>1 DEF Pending
    <2>3. \A d \in Callers : call'[d].pc = "fail" => call[d].pc = "fail"
      BY <1>0, <1>4
    <2>4. activeGen' = activeGen \/ \A g \in given : ~Pending(g)
      <3>1. StoreGen(c) => Asking(k)
        BY DEF StoreGen, Asking
      <3>2. FailGen(c) => \A g \in given : ~Pending(g)
        BY DEF FailGen, PendingOwn
      <3>3. given \subseteq Queries
        BY DEF PendingOwn, Past
      <3> QED
        BY <1>1, <1>2, <3>1, <3>2, <3>3
    <2>5. \A d \in Callers : Armed(call'[d]) /\ stdinOpen' => activeGen' = call'[d].gen
      <3> SUFFICES ASSUME NEW d \in Callers, Armed(call'[d]), stdinOpen
                   PROVE  activeGen' = call'[d].gen
        BY <2>1
      <3>1. ~FailGen(c)
        BY DEF FailGen, PendingOwn
      <3>2. CASE StoreGen(c)
        <4>1. Asking(k) /\ activeGen' = k.gen /\ n.gen = k.gen
          BY <1>0, <3>2, AskingEffects DEF StoreGen
        <4> QED
          BY <1>2, <4>1 DEF Armed
      <3>3. CASE ~StoreGen(c)
        <4>1. activeGen' = activeGen
          BY <1>1, <3>1, <3>3
        <4>2. ~(ArmHandle(c) /\ shutdown)
          BY DEF Gone, EndInv, EndIsWaited
        <4>3. Armed(call[d]) /\ call'[d].gen = call[d].gen
          BY <1>0, <3>3, <4>2
        <4> QED
          BY <4>1, <4>3 DEF PendingOwn
      <3> QED
        BY <3>2, <3>3
    <2> QED
      BY <2>1, <2>2, <2>3, <2>4, <2>5, PendingFrame
  <1> QED
    BY <1>3, <1>4

\* The active generation is cleared only after the answer was read, by readLoop,
\* or was never asked for, by a call whose write failed.
LEMMA NextKeepsPending ==
  ASSUME SessionTypes, EndInv, TurnInv, Gone, Numbered, PendingOwn, PastGrows, [Next]_vars
  PROVE  PendingOwn'
  <1>1. ASSUME UNCHANGED <<given, stdinOpen, call, activeGen>>,
               \A g \in Queries : Pending(g)' => Pending(g)
        PROVE  PendingOwn'
    BY <1>1, PendingFrame DEF PendingOwn
  <1>2. ASSUME UNCHANGED <<stdin, stdout, turn>>
        PROVE  \A g \in Queries : Pending(g)' => Pending(g)
    BY <1>2 DEF Pending
  <1>3. CASE CLIStep
    <2>1. UNCHANGED <<given, stdinOpen, call, activeGen>>
      BY <1>3 DEF CLIStep, callState, queryState, endState, userState
    <2> QED
      BY <1>1, <1>3, <2>1, CLIPends
  <1>4. CASE ReadLoop
    <2>1. /\ UNCHANGED <<given, call, stdin, turn>>
          /\ stdout' = stdout \/ (stdout # << >> /\ stdout' = Tail(stdout))
          /\ activeGen' = activeGen \/ ClearGen
          /\ stdinOpen' => stdinOpen
      <3>1. UNCHANGED <<given, call>>
        BY <1>4 DEF ReadLoop, ReadEcho, ReadInit, ReadTool, ReadHeldResult, StampHeld, ReadResult,
           ReadApiError, ClearGen, TrackState, ObserveTerminal, Push, WaitProcess, ClosePump,
           StampExit, DeliverExit, CheckRouted, Shutdown, Finish, StampTerminal,
           callState, userState
      <3>2. UNCHANGED <<stdin, turn>>
        BY <1>4 DEF ReadLoop, ReadEcho, ReadInit, ReadTool, ReadHeldResult, StampHeld, ReadResult,
           ReadApiError, ClearGen, TrackState, ObserveTerminal, Push, WaitProcess, ClosePump,
           StampExit, DeliverExit, CheckRouted, Shutdown, Finish, StampTerminal,
           Reads, cliVars
      <3>3. stdout' = stdout \/ (stdout # << >> /\ stdout' = Tail(stdout))
        BY <1>4 DEF ReadLoop, ReadEcho, ReadInit, ReadTool, ReadHeldResult, StampHeld, ReadResult,
           ReadApiError, ClearGen, TrackState, ObserveTerminal, Push, WaitProcess, ClosePump,
           StampExit, DeliverExit, CheckRouted, Shutdown, Finish, StampTerminal,
           Reads, cliVars
      <3>4. activeGen' = activeGen \/ ClearGen
        BY <1>4 DEF ReadLoop, ReadEcho, ReadInit, ReadTool, ReadHeldResult, StampHeld, ReadResult,
           ReadApiError, ClearGen, TrackState, ObserveTerminal, Push, WaitProcess, ClosePump,
           StampExit, DeliverExit, CheckRouted, Shutdown, Finish, StampTerminal,
           WithTransition, queryState
      <3>5. stdinOpen' => stdinOpen
        BY <1>4 DEF ReadLoop, ReadEcho, ReadInit, ReadTool, ReadHeldResult, StampHeld, ReadResult,
           ReadApiError, ClearGen, TrackState, ObserveTerminal, Push, WaitProcess, ClosePump,
           StampExit, DeliverExit, CheckRouted, Shutdown, Finish, StampTerminal,
           endState
      <3> QED
        BY <3>1, <3>2, <3>3, <3>4, <3>5
    <2>2. \A g \in Queries : Pending(g)' => Pending(g)
      <3>1. stdout \in Seq(Line)
        BY DEF SessionTypes, CLITypes
      <3>2. stdout # << >> => \A i \in DOMAIN Tail(stdout) :
              i + 1 \in DOMAIN stdout /\ Tail(stdout)[i] = stdout[i + 1]
        BY <3>1, TailLines
      <3> QED
        BY <2>1, <3>2 DEF Pending
    <2>3. ClearGen => \A g \in given : ~Pending(g)
      <3>1. given \subseteq Queries
        BY DEF PendingOwn, Past
      <3> QED
        BY <3>1, NothingPends DEF ClearGen
    <2>4. ClearGen => \A c \in Callers : ~(Armed(call[c]) /\ stdinOpen')
      <3>1. ClearGen /\ InWindow => \A c \in Callers : ~Asking(call[c])
        BY DEF TurnInv, OneAtATime, InCall
      <3>2. ClearGen /\ ~InWindow => ~stdinOpen
        BY DEF ClearGen, InWindow, Gone, EndInv, EndIsWaited
      <3> QED
        BY <2>1, <3>1, <3>2 DEF Armed
    <2>5. \A c \in Callers : Armed(call'[c]) /\ stdinOpen' => activeGen' = call'[c].gen
      BY <2>1, <2>4 DEF PendingOwn
    <2> QED
      BY <2>1, <2>2, <2>3, <2>5, PendingFrame
  <1>5. ASSUME NEW c \in Callers, StartCall(c)
        PROVE  PendingOwn'
    <2>1. UNCHANGED <<given, stdinOpen, activeGen, stdin, stdout, turn>>
      BY <1>5 DEF StartCall, cliVars, queryState, endState, userState
    <2>2. PICK op \in Ops : \E pc \in {"enable", "prepare", "validate"} :
            Becomes(c, [pc |-> pc, op |-> op, gen |-> 0, out |-> << >>])
      BY <1>5, StartForm
    <2>3. PICK pc \in {"enable", "prepare", "validate"} :
            Becomes(c, [pc |-> pc, op |-> op, gen |-> 0, out |-> << >>])
      BY <2>2
    <2>4. /\ ~Armed(call'[c]) /\ call'[c].pc # "fail"
          /\ \A d \in Callers : d # c => call'[d] = call[d]
      BY <2>3 DEF Becomes, SessionTypes, CallTypes, Armed, Asking, Marked
    <2>5. \A d \in Callers : Armed(call'[d]) /\ stdinOpen' => activeGen' = call'[d].gen
      BY <2>1, <2>4 DEF PendingOwn
    <2> QED
      BY <1>2, <2>1, <2>4, <2>5, PendingFrame
  <1>6. CASE Pump \/ Ticker \/ Consume \/ Cancel \/ UNCHANGED vars
    <2>1. UNCHANGED <<given, stdinOpen, call, activeGen, stdin, stdout, turn>>
      BY <1>6 DEF Pump, PumpTake, PumpRoute, PumpUnrouted, PumpSend, PumpBarrier, PumpFlush,
         PumpFlushed, PumpStop, Evict, Ticker, TickRead, TickStamp, TickSend, Consume,
         DrainOrphans, ReadEvents, WaitReceive, WaitClosed, Abandon, Cancel, vars,
         cliVars, callState, queryState, endState, userState
    <2> QED
      BY <1>1, <1>2, <2>1
  <1> QED
    BY <1>3, <1>4, <1>5, <1>6, CallKeepsPending DEF Next, Terminated

\* Routing hands on the event it is given, to the orphans or to the eviction.
LEMMA RouteHandsOn ==
  ASSUME NEW S, orphans \in Seq(S), evicting \in Seq(S), NEW sev \in S, Router!RouteStamped(sev)
  PROVE  orphans' \in Seq(S) /\ evicting' \in Seq(S)
  <1>1. CASE Router!DropAfterShutdown(sev)
    BY <1>1 DEF Router!DropAfterShutdown, Router!routerVars
  <1>2. CASE Router!Deliver(sev)
    BY <1>2 DEF Router!Deliver
  <1>3. CASE Router!FindFull(sev)
    <2>1. <<sev>> \in Seq(S)
      OBVIOUS
    <2> QED
      BY <1>3, <2>1 DEF Router!FindFull
  <1>4. CASE Router!Orphan(sev)
    BY <1>4, AddOrphanTypes DEF Router!Orphan
  <1> QED
    BY <1>1, <1>2, <1>3, <1>4 DEF Router!RouteStamped

\* Before routing is on no result answers a query, and an event that is flushed
\* with no generation is no late result.
LEMMA LateSets ==
  /\ Late \subseteq Router!Stamped /\ Notices \subseteq Late
  /\ \A sev \in Blank : [ev |-> sev.ev, gen |-> 0] \in Late
  /\ Numbered /\ SessionTypes /\ ~routed => Late \subseteq Blank
  <1>1. Late \subseteq Router!Stamped /\ Notices \subseteq Late
    BY DEF Late, Notices, Answers
  <1>2. ASSUME NEW sev \in Blank
        PROVE  [ev |-> sev.ev, gen |-> 0] \in Late
    <2>1. 0 \in 0..MaxGen
      BY CLIAssumption
    <2>2. [ev |-> sev.ev, gen |-> 0] \in Router!Stamped
      BY <2>1, StampedParts DEF Blank, Router!Stamped
    <2> QED
      BY <2>2 DEF Blank, Late
  <1>3. Numbered /\ SessionTypes /\ ~routed => Past = {}
    BY CLIAssumption DEF Numbered, Past, Queries
  <1>4. Numbered /\ SessionTypes /\ ~routed => Late \subseteq Blank
    BY <1>3 DEF Late, Blank
  <1> QED
    BY <1>1, <1>2, <1>4

\* What was stamped for a past query stays so stamped.
LEMMA LateGrows ==
  ASSUME PastGrows
  PROVE  Late \subseteq Late' /\ Blank' = Blank
  BY DEF PastGrows, Late, Blank

\* The result that readLoop stamps answers the active query, if it answers one
\* that was handed out.
LEMMA StampsLate ==
  ASSUME SessionTypes, PendingOwn
  PROVE  Stamps(Late)
  <1>1. activeGen \in 0..MaxGen /\ 0 \in 0..MaxGen /\ CLITypes
    BY CLIAssumption DEF SessionTypes, QueryTypes
  <1>2. \A of \in SUBSET Queries : StampedAs("unsolicited", of, 0) \in Late
    BY <1>1, StampedType, StampedFields DEF Late, Kinds
  <1>3. ASSUME ReadResult
        PROVE  StampedAs("result", Head(stdout).of, activeGen) \in Late
    <2>1. Head(stdout).of \in SUBSET Queries
      BY <1>1, <1>3, ReadsTypes DEF ReadResult
    <2>2. StampedAs("result", Head(stdout).of, activeGen) \in Router!Stamped
      BY <1>1, <2>1, StampedType DEF Kinds
    <2>3. Head(stdout) = stdout[1] /\ 1 \in DOMAIN stdout /\ Head(stdout).kind = "result"
      BY <1>1, <1>3 DEF ReadResult, Reads, CLITypes
    <2>4. \A g \in Head(stdout).of : g \in Past /\ (g \in given => activeGen = g)
      BY <2>1, <2>3 DEF Pending, PendingOwn
    <2> QED
      BY <2>2, <2>4, StampedFields DEF Late
  <1>4. Notices \subseteq Late /\ Late \subseteq Router!Stamped
    BY LateSets
  <1> QED
    BY <1>2, <1>3, <1>4 DEF Stamps

\* Every goroutine hands a stamped result on as it is.
LEMMA NextKeepsLate ==
  ASSUME SessionTypes, OwnInv, Numbered, PendingOwn, LatePipe, PastGrows, [Next]_vars
  PROVE  LatePipe'
  <1> USE DEF LatePipe
  <1>0. << >> \in Seq(Late) /\ << >> \in Seq(Blank)
    BY OwnKinds
  <1>1. ASSUME rlOut' \in Seq(Late), pump' \in Seq(Late), pumpEv' \in Seq(Late),
               evicting' \in Seq(Late), orphans' \in Seq(Late), events' \in Seq(Blank),
               pumpPc' = "events" => pumpEv'[1] \in Blank
        PROVE  LatePipe'
    <2>1. \A seq \in Seq(Late) : seq \in Seq(Late')
      BY LateGrows
    <2>2. Blank' = Blank
      BY LateGrows
    <2> QED
      BY <1>1, <2>1, <2>2
  <1>2. CASE ReadLoop
    <2>1. rlOut' \in Seq(Late) /\ pump' \in Seq(Late)
      BY <1>2, StampsLate, LoopStamps DEF OwnInv
    <2>2. UNCHANGED <<pumpEv, pumpPc>>
      BY <1>2 DEF ReadLoop, ReadEcho, ReadInit, ReadTool, ReadHeldResult, StampHeld, ReadResult,
         ReadApiError, ClearGen, TrackState, ObserveTerminal, Push, WaitProcess, ClosePump,
         StampExit, DeliverExit, CheckRouted, Shutdown, Finish, StampTerminal,
         pumpState
    <2>3. CASE DeliverExit
      <3>1. rlOut[1] \in Late
        BY <2>3, HeadTypes DEF DeliverExit, SessionTypes, LoopTypes
      <3>2. CASE routed
        BY <1>1, <2>1, <2>2, <2>3, <3>1, <3>2, RouteHandsOn DEF DeliverExit
      <3>3. CASE ~routed
        <4>1. Append(events, rlOut[1]) \in Seq(Blank)
          BY <3>1, <3>3, LateSets, SequenceTypes
        <4>2. events' \in Seq(Blank) /\ UNCHANGED routerState
          BY <2>3, <3>3, <4>1 DEF DeliverExit
        <4> QED
          BY <1>1, <2>1, <2>2, <4>2 DEF routerState
      <3> QED
        BY <3>2, <3>3
    <2>4. CASE ~DeliverExit
      <3>1. events' = events
        BY <1>2, <2>4 DEF ReadLoop, ReadEcho, ReadInit, ReadTool, ReadHeldResult, StampHeld, ReadResult,
           ReadApiError, ClearGen, TrackState, ObserveTerminal, Push, WaitProcess, ClosePump,
           StampExit, CheckRouted, Shutdown, Finish, StampTerminal,
           pumpState
      <3>2. UNCHANGED <<orphans, evicting>>
        BY <1>2, <2>4 DEF ReadLoop, ReadEcho, ReadInit, ReadTool, ReadHeldResult, StampHeld, ReadResult,
           ReadApiError, ClearGen, TrackState, ObserveTerminal, Push, WaitProcess, ClosePump,
           StampExit, CheckRouted, Shutdown, Finish, StampTerminal,
           routerState, Router!ShutdownRouter
      <3> QED
        BY <1>1, <2>1, <2>2, <3>1, <3>2
    <2> QED
      BY <2>3, <2>4
  <1>3. CASE Pump
    <2>1. pump' \in Seq(Late) /\ pumpEv' \in Seq(Late)
      BY <1>3, PumpTakes
    <2>2. rlOut' = rlOut
      BY <1>3 DEF Pump, PumpTake, PumpRoute, PumpUnrouted, PumpSend, PumpBarrier, PumpFlush,
         PumpFlushed, PumpStop, Evict, loopState
    <2>3. pumpPc \in {"have", "events"} => pumpEv[1] \in Late
      BY HeadTypes DEF SessionTypes, PumpTypes
    <2>4. CASE PumpRoute
      <3>1. orphans' \in Seq(Late) /\ evicting' \in Seq(Late)
        BY <2>3, <2>4, RouteHandsOn DEF PumpRoute
      <3>2. events' = events /\ pumpPc' # "events"
        BY <2>4 DEF PumpRoute
      <3> QED
        BY <1>1, <2>1, <2>2, <3>1, <3>2
    <2>5. CASE PumpUnrouted
      <3>1. pumpEv'[1] \in Blank /\ events' = events /\ UNCHANGED <<orphans, evicting>>
        BY <2>3, <2>5, LateSets DEF PumpUnrouted, routerState
      <3> QED
        BY <1>1, <2>1, <2>2, <3>1
    <2>6. CASE PumpSend
      <3>1. Append(events, pumpEv[1]) \in Seq(Blank)
        BY <2>6, SequenceTypes DEF PumpSend
      <3>2. events' \in Seq(Blank) /\ pumpPc' # "events" /\ UNCHANGED <<orphans, evicting>>
        BY <2>6, <3>1 DEF PumpSend, routerState
      <3> QED
        BY <1>1, <2>1, <2>2, <3>2
    <2>7. CASE PumpFlush
      <3>1. Head(events) \in Blank /\ Tail(events) \in Seq(Blank)
        BY <2>7, HeadTypes DEF PumpFlush
      <3> DEFINE sev == [ev |-> Head(events).ev, gen |-> Router!NoQuery]
      <3>2. sev \in Late
        BY <3>1, LateSets, RouterFacts
      <3>3. Router!AddOrphan(sev) /\ evicting' = evicting
        BY <2>7 DEF PumpFlush, Router!Flush
      <3> HIDE DEF sev
      <3>4. orphans' \in Seq(Late)
        BY <3>2, <3>3, AddOrphanTypes
      <3>5. events' \in Seq(Blank) /\ pumpPc' # "events"
        BY <2>7, <3>1 DEF PumpFlush
      <3> QED
        BY <1>1, <2>1, <2>2, <3>3, <3>4, <3>5
    <2>8. CASE Evict
      <3>1. evicting' = << >> /\ UNCHANGED <<orphans, events, pumpPc, pumpEv>>
        BY <2>8 DEF Evict, Router!Evict, pumpState
      <3> QED
        BY <1>0, <1>1, <2>1, <2>2, <3>1
    <2>9. CASE PumpTake \/ PumpBarrier \/ PumpFlushed \/ PumpStop
      <3>1. pumpPc' # "events" /\ UNCHANGED <<orphans, evicting, events>>
        BY <2>9 DEF PumpTake, PumpBarrier, PumpFlushed, PumpStop, routerState
      <3> QED
        BY <1>1, <2>1, <2>2, <3>1
    <2> QED
      BY <1>3, <2>4, <2>5, <2>6, <2>7, <2>8, <2>9 DEF Pump
  <1>4. CASE Ticker
    <2>1. pump' \in Seq(Late)
      <3>1. CASE TickSend
        <4>1. tickOut[1] \in Notices
          BY <3>1, HeadTypes DEF TickSend, SessionTypes, TickTypes, OwnInv, OwnPipe
        <4> QED
          BY <3>1, <4>1, LateSets, SendEnqueues DEF TickSend
      <3>2. CASE TickRead \/ TickStamp
        BY <3>2 DEF TickRead, TickStamp, pumpState
      <3> QED
        BY <1>4, <3>1, <3>2 DEF Ticker
    <2>2. UNCHANGED <<rlOut, pumpEv, pumpPc, events, orphans, evicting>>
      BY <1>4 DEF Ticker, TickRead, TickStamp, TickSend, loopState, pumpState, routerState
    <2> QED
      BY <1>1, <2>1, <2>2
  <1>5. ASSUME NEW c \in Callers, CallStep(c)
        PROVE  LatePipe'
    <2>1. pump' \in Seq(Late)
      <3>1. CASE CallSend(c)
        <4>1. /\ CallTypes /\ call[c].out \in Seq(Notices)
              /\ call[c].out \in Seq(Router!Stamped)
          BY CallParts DEF SessionTypes, OwnInv, OwnPipe
        <4>2. call[c].out[1] \in Notices
          BY <3>1, <4>1, SendingParts, HeadTypes DEF CallSend
        <4> QED
          BY <3>1, <4>2, LateSets, SendEnqueues DEF CallSend
      <3>2. CASE ~CallSend(c)
        BY <1>5, <3>2 DEF CallStep, EnableRouting, CallStamp, PrepareQuery, ValidateSendable, CountGen,
           ArmHandle, StoreGen, MarkQuery, WriteOk, WriteFails, FailGen, FailState, FailDetach,
           pumpState
      <3> QED
        BY <3>1, <3>2
    <2>2. UNCHANGED <<rlOut, pumpEv, pumpPc, events>>
      BY <1>5 DEF CallStep, EnableRouting, CallStamp, CallSend, PrepareQuery, ValidateSendable, CountGen,
         ArmHandle, StoreGen, MarkQuery, WriteOk, WriteFails, FailGen, FailState, FailDetach,
         loopState, pumpState
    <2>3. UNCHANGED <<orphans, evicting>>
      BY <1>5 DEF CallStep, EnableRouting, CallStamp, CallSend, PrepareQuery, ValidateSendable, CountGen,
         ArmHandle, StoreGen, MarkQuery, WriteOk, WriteFails, FailGen, FailState, FailDetach,
         routerState, Router!Arm, Router!Detach
    <2> QED
      BY <1>1, <2>1, <2>2, <2>3
  <1>6. CASE Consume
    <2>1. UNCHANGED <<rlOut, pump, pumpEv, pumpPc>>
      BY <1>6 DEF Consume, DrainOrphans, ReadEvents, WaitReceive, WaitClosed, Abandon,
         loopState, pumpState
    <2>2. orphans' \in Seq(Late) /\ evicting' = evicting
      BY <1>0, <1>6 DEF Consume, DrainOrphans, ReadEvents, WaitReceive, WaitClosed, Abandon,
         routerState, Router!DrainOrphans, Router!Receive, Router!Detach
    <2>3. events' \in Seq(Blank)
      <3>1. events # << >> => Tail(events) \in Seq(Blank)
        BY HeadTypes
      <3> QED
        BY <1>6, <3>1 DEF Consume, DrainOrphans, ReadEvents, WaitReceive, WaitClosed, Abandon, pumpState
    <2> QED
      BY <1>1, <2>1, <2>2, <2>3
  <1>7. ASSUME NEW c \in Callers, StartCall(c)
        PROVE  LatePipe'
    <2>1. UNCHANGED <<rlOut, pump, pumpEv, pumpPc, events, orphans, evicting>>
      BY <1>7 DEF StartCall, loopState, pumpState, routerState
    <2> QED
      BY <1>1, <2>1
  <1>8. CASE CLIStep \/ Cancel \/ UNCHANGED vars
    <2>1. UNCHANGED <<rlOut, pump, pumpEv, pumpPc, events, orphans, evicting>>
      BY <1>8 DEF CLIStep, Cancel, vars, loopState, pumpState, routerState
    <2> QED
      BY <1>1, <2>1
  <1> QED
    BY <1>2, <1>3, <1>4, <1>5, <1>6, <1>7, <1>8 DEF Next, Terminated

\* Nothing has been asked yet.
LEMMA InitLate ==
  ASSUME Init
  PROVE  LateInv
  <1> USE DEF Init
  <1>0. /\ stdin = << >> /\ stdout = << >> /\ turn.of = {} /\ cli = "up" /\ DOMAIN << >> = {}
        /\ \A S : << >> \in Seq(S)
    BY NoTurnType, OwnKinds DEF CLIInit
  <1>1. \A c \in Callers : call[c] = NoCall /\ NoCall.pc = "idle" /\ NoCall.gen = 0
    BY DEF NoCall
  <1>2. Gone /\ Numbered
    BY <1>0, <1>1 DEF Gone, Numbered, Router!RouterInit
  <1>3. PendingOwn
    <2>1. \A g \in Queries : ~Pending(g)
      BY <1>0 DEF Pending
    <2>2. \A c \in Callers : ~Armed(call[c]) /\ call[c].pc # "fail"
      BY <1>1 DEF Armed, Asking, Marked
    <2> QED
      BY <2>1, <2>2 DEF PendingOwn
  <1>4. LatePipe
    BY <1>0 DEF LatePipe, Router!RouterInit
  <1> QED
    BY <1>2, <1>3, <1>4 DEF LateInv

\* What the answers, the turns and the late results rest on.
Settled == SessionTypes /\ EndInv /\ OwnInv /\ TurnInv /\ LateInv

LEMMA InitSettled == Init => Settled
  <1>1. Init => EndInv
    BY RouterFacts DEF Init, EndInv, OpenIsHeld, RoutedFirst, EndIsWaited, EndIsShutdown, Ending,
       Router!RouterInit, NoCall
  <1> QED
    BY <1>1, InitTypes, InitTurn, InitLate DEF Settled

LEMMA NextSettles ==
  ASSUME Ops = {"QueryCtx"}, ErrorTurns = {}, Settled, [Next]_vars
  PROVE  Settled'
  <1> USE DEF Settled
  <1>1. SessionTypes' /\ EndInv'
    BY NextKeepsTypes, NextKeepsEnd
  <1>2. OwnInv'
    BY ReadResultIsAnswer, NextKeepsOwn
  <1>3. TurnInv'
    BY NextKeepsTurn
  <1>4. Gone'
    BY NextKeepsGone DEF LateInv
  <1>5. PastGrows /\ Numbered'
    BY NextCounts DEF LateInv, PendingOwn
  <1>6. PendingOwn'
    BY <1>5, NextKeepsPending DEF LateInv
  <1>7. LatePipe'
    BY <1>5, NextKeepsLate DEF LateInv
  <1> QED
    BY <1>1, <1>2, <1>3, <1>4, <1>5, <1>6, <1>7 DEF LateInv

\* If the session is asked by QueryCtx only and the CLI reports no API error,
\* the late result of an abandoned query reaches the orphans stamped with that
\* query's generation, whatever was asked, flushed or cancelled meanwhile.
THEOREM LateResultsKeepTheirGeneration ==
  ASSUME Ops = {"QueryCtx"}, ErrorTurns = {}
  PROVE  Spec => []LateResultKeepsGeneration
  <1>1. Settled => LateResultKeepsGeneration
    <2> SUFFICES ASSUME Settled, NEW i \in DOMAIN orphans, orphans[i].ev.kind = "result",
                        NEW g \in orphans[i].ev.of \cap given
                 PROVE  orphans[i].gen = g
      BY DEF LateResultKeepsGeneration
    <2>1. orphans[i] \in Late
      BY DEF Settled, LateInv, LatePipe
    <2> QED
      BY <2>1 DEF Late
  <1> QED
    BY <1>1, InitSettled, NextSettles, PTL DEF Spec

-----------------------------------------------------------------------------
(* Who waits is waiting for the active query, or for what is on its way    *)

\* A call that holds a handle has detached every handle that was given out; it
\* gives its own up only after stdin was closed.
Alone ==
  \A c \in Callers :
    /\ Holding(call[c]) => \A g \in given : handle[g] # "open"
    /\ call[c].pc \in {"fail", "failState", "detach"} => ~stdinOpen

\* A handle is opened by the call that arms it, and stdin is never opened again.
LEMMA NextOpens ==
  ASSUME SessionTypes, SessionTypes', [Next]_vars
  PROVE  /\ \A g \in Queries : handle'[g] = "open" =>
              \/ handle[g] = "open"
              \/ \E c \in Callers : ArmHandle(c) /\ call[c].gen = g /\ ~shutdown
         /\ stdinOpen' => stdinOpen
         /\ ctxDone => ctxDone'
  <1>0. RouterTypes /\ CallTypes
    BY DEF SessionTypes
  <1>1. CASE ReadLoop
    <2>1. (stdinOpen' => stdinOpen) /\ ctxDone' = ctxDone
      <3>1. CASE WaitProcess
        BY <3>1 DEF WaitProcess
      <3>2. CASE ~WaitProcess
        <4>1. UNCHANGED endState
          BY <1>1, <3>2 DEF ReadLoop, ReadEcho, ReadInit, ReadTool, ReadHeldResult, StampHeld, ReadResult,
             ReadApiError, ClearGen, TrackState, ObserveTerminal, Push, ClosePump,
             StampExit, DeliverExit, CheckRouted, Shutdown, Finish, StampTerminal
        <4> QED
          BY <4>1 DEF endState
      <3> QED
        BY <3>1, <3>2
    <2>2. CASE Shutdown
      <3>1. \A g \in Queries : handle'[g] = "open" => handle[g] = "open"
        BY <2>2, RouterFacts DEF Shutdown, Router!ShutdownRouter
      <3> QED
        BY <2>1, <3>1
    <2>3. CASE ~Shutdown
      <3>1. handle' = handle
        BY <1>1, <2>3, RouterEnds DEF ReadLoop, ReadEcho, ReadInit, ReadTool, ReadHeldResult,
           StampHeld, ReadResult, ReadApiError, ClearGen, TrackState, ObserveTerminal, Push,
           WaitProcess, ClosePump, StampExit, DeliverExit, CheckRouted, Finish, StampTerminal
      <3> QED
        BY <2>1, <3>1
    <2> QED
      BY <2>2, <2>3
  <1>2. CASE Pump
    <2>1. handle' = handle /\ UNCHANGED endState
      BY <1>2, RouterEnds DEF Pump, PumpTake, PumpRoute, PumpUnrouted, PumpSend, PumpBarrier, PumpFlush,
         PumpFlushed, PumpStop, Evict
    <2> QED
      BY <2>1 DEF endState
  <1>3. ASSUME NEW c \in Callers, CallStep(c)
        PROVE  /\ \A g \in Queries : handle'[g] = "open" =>
                    handle[g] = "open" \/ (ArmHandle(c) /\ call[c].gen = g /\ ~shutdown)
               /\ (stdinOpen' => stdinOpen) /\ ctxDone' = ctxDone
    <2>1. (stdinOpen' => stdinOpen) /\ ctxDone' = ctxDone
      BY <1>3 DEF CallStep, EnableRouting, CallStamp, CallSend, PrepareQuery, ValidateSendable, CountGen,
         ArmHandle, StoreGen, MarkQuery, WriteOk, WriteFails, FailGen, FailState, FailDetach, endState
    <2>2. CASE ArmHandle(c)
      <3>1. Router!Arm(call[c].gen)
        BY <2>2 DEF ArmHandle
      <3>2. \A g \in Queries : handle'[g] = "open" =>
              handle[g] = "open" \/ (call[c].gen = g /\ ~shutdown)
        BY <3>1, RouterFacts, <1>0 DEF Router!Arm, RouterTypes, Router!RouterTypeOK
      <3> QED
        BY <2>1, <2>2, <3>2
    <2>3. CASE FailDetach(c)
      <3>1. call[c].gen \in Queries
        BY <1>0, <2>3, HoldingParts DEF FailDetach
      <3>2. \A g \in Queries : handle'[g] = "open" => handle[g] = "open"
        BY <1>0, <2>3, <3>1, DetachEnds DEF FailDetach
      <3> QED
        BY <2>1, <3>2
    <2>4. CASE ~ArmHandle(c) /\ ~FailDetach(c)
      <3>1. handle' = handle
        BY <1>3, <2>4, RouterEnds DEF CallStep, EnableRouting, CallStamp, CallSend, PrepareQuery,
           ValidateSendable, CountGen, StoreGen, MarkQuery, WriteOk, WriteFails, FailGen, FailState
      <3> QED
        BY <2>1, <3>1
    <2> QED
      BY <2>2, <2>3, <2>4
  <1>4. CASE Consume
    <2>1. UNCHANGED endState
      BY <1>4 DEF Consume, DrainOrphans, ReadEvents, WaitReceive, WaitClosed, Abandon
    <2>2. CASE \E g \in Queries : Abandon(g)
      <3>1. \A g \in Queries : handle'[g] = "open" => handle[g] = "open"
        BY <1>0, <2>2, DetachEnds DEF Abandon
      <3> QED
        BY <2>1, <3>1 DEF endState
    <2>3. CASE ~(\E g \in Queries : Abandon(g))
      <3>1. handle' = handle
        BY <1>4, <2>3, RouterEnds DEF Consume, DrainOrphans, ReadEvents, WaitReceive, WaitClosed
      <3> QED
        BY <2>1, <3>1 DEF endState
    <2> QED
      BY <2>2, <2>3
  <1>5. ASSUME NEW c \in Callers, StartCall(c)
        PROVE  handle' = handle /\ UNCHANGED endState
    BY <1>5 DEF StartCall, routerState
  <1>6. CASE CLIStep \/ Ticker \/ Cancel \/ UNCHANGED vars
    <2>1. handle' = handle /\ (stdinOpen' => stdinOpen) /\ (ctxDone => ctxDone')
      BY <1>6 DEF CLIStep, Ticker, TickRead, TickStamp, TickSend, Cancel, vars, routerState, endState
    <2> QED
      BY <2>1
  <1> QED
    BY <1>1, <1>2, <1>3, <1>4, <1>5, <1>6 DEF Next, Terminated, endState

\* A step that is not a caller's leaves the calls and the handles given out.
LEMMA OthersLeaveCalls ==
  ASSUME [Next]_vars, \A c \in Callers : ~CallStep(c) /\ ~StartCall(c)
  PROVE  UNCHANGED <<call, calls, given, genCounter, routed, enabling>>
  <1>1. CASE ReadLoop
    BY <1>1 DEF ReadLoop, ReadEcho, ReadInit, ReadTool, ReadHeldResult, StampHeld, ReadResult,
         ReadApiError, ClearGen, TrackState, ObserveTerminal, Push, WaitProcess, ClosePump,
         StampExit, DeliverExit, CheckRouted, Shutdown, Finish, StampTerminal,
         callState, userState, queryState, modeState
  <1>2. CASE Pump \/ Ticker
    BY <1>2 DEF Pump, PumpTake, PumpRoute, PumpUnrouted, PumpSend, PumpBarrier, PumpFlush,
         PumpFlushed, PumpStop, Evict, Ticker, TickRead, TickStamp, TickSend,
         callState, userState, queryState, modeState
  <1>3. CASE Consume \/ CLIStep \/ Cancel \/ UNCHANGED vars
    BY <1>3 DEF Consume, DrainOrphans, ReadEvents, WaitReceive, WaitClosed, Abandon, CLIStep, Cancel, vars,
         callState, userState, queryState, modeState
  <1> QED
    BY <1>1, <1>2, <1>3 DEF Next, Terminated

\* What a started call and the other calls are after a call's step.
LEMMA StartsIdle ==
  ASSUME CallTypes, NEW c \in Callers, StartCall(c)
  PROVE  /\ call'[c].pc \in {"enable", "prepare", "validate"}
         /\ \A d \in Callers : d # c => call'[d] = call[d]
         /\ ~Holding(call'[c]) /\ ~Asking(call'[c]) /\ given' = given
  <1>1. PICK op \in Ops : \E pc \in {"enable", "prepare", "validate"} :
          Becomes(c, [pc |-> pc, op |-> op, gen |-> 0, out |-> << >>])
    BY StartForm
  <1>2. PICK pc \in {"enable", "prepare", "validate"} :
          Becomes(c, [pc |-> pc, op |-> op, gen |-> 0, out |-> << >>])
    BY <1>1
  <1>3. /\ call'[c].pc \in {"enable", "prepare", "validate"}
        /\ \A d \in Callers : d # c => call'[d] = call[d]
    BY <1>2 DEF Becomes, CallTypes
  <1>4. given' = given
    BY DEF StartCall, userState
  <1> QED
    BY <1>3, <1>4 DEF Holding, Asking, Marked

\* What a call has become.
LEMMA BecomesIs ==
  ASSUME SessionTypes, NEW c \in Callers
  PROVE  /\ \A k : Becomes(c, k) => call'[c] = k /\ \A d \in Callers : d # c => call'[d] = call[d]
         /\ ArmHandle(c) => call'[c].pc \in {"mark", "store"} /\ call'[c].gen = call[c].gen
         /\ WriteOk(c) => call'[c] = NoCall
  <1>1. ASSUME NEW k, Becomes(c, k)
        PROVE  call'[c] = k /\ \A d \in Callers : d # c => call'[d] = call[d]
    BY <1>1 DEF Becomes, SessionTypes, CallTypes
  <1>2. ASSUME ArmHandle(c)
        PROVE  call'[c].pc \in {"mark", "store"} /\ call'[c].gen = call[c].gen
    <2>1. Becomes(c, Moved(c, IF shutdown THEN "mark" ELSE "store", call[c].out))
      BY <1>2, CallForms
    <2> QED
      BY <1>1, <2>1, MovedFields
  <1>3. ASSUME WriteOk(c)
        PROVE  call'[c] = NoCall
    <2>1. Becomes(c, NoCall)
      BY <1>3, CallForms
    <2> QED
      BY <1>1, <2>1
  <1> QED
    BY <1>1, <1>2, <1>3

\* A call comes to a failure by its write, and goes on with it.
LEMMA FailSteps ==
  ASSUME SessionTypes, TurnInv, NEW c \in Callers, CallStep(c), ~WriteFails(c),
         call'[c].pc \in {"fail", "failState", "detach"}
  PROVE  call[c].pc \in {"fail", "failState", "detach"}
  <1>1. CASE FailGen(c) \/ FailState(c)
    BY <1>1 DEF FailGen, FailState
  <1>2. CASE ~FailGen(c) /\ ~FailState(c)
    <2>0. CallTypes
      BY DEF SessionTypes
    <2>1. ASSUME NEW k, Becomes(c, k) PROVE call'[c] = k
      BY <2>0, <2>1 DEF Becomes, CallTypes
    <2>2. CASE EnableRouting(c) \/ MarkQuery(c)
      <3>1. \/ \E out : Becomes(c, Moved(c, "stamp", out))
            \/ Becomes(c, Moved(c, "prepare", call[c].out))
            \/ Becomes(c, Moved(c, "write", call[c].out))
        BY <2>2, CallForms
      <3> QED
        BY <2>1, <3>1, MovedFields
    <2>3. CASE CallStamp(c) \/ CallSend(c)
      <3>1. \/ \E out : Becomes(c, Moved(c, "send", out))
            \/ Becomes(c, Moved(c, SentPc(c), << >>))
        BY <2>3, CallForms
      <3> QED
        BY <2>1, <3>1, MovedFields DEF SentPc
    <2>4. CASE PrepareQuery(c) \/ ValidateSendable(c) \/ WriteOk(c) \/ FailDetach(c)
      <3>1. \/ \E pc \in {"count", "mark"} : Becomes(c, Moved(c, pc, call[c].out))
            \/ Becomes(c, NoCall)
        BY <2>4, CallForms
      <3> QED
        BY <2>1, <3>1, MovedFields DEF NoCall
    <2>5. CASE CountGen(c) \/ ArmHandle(c) \/ StoreGen(c)
      <3>1. \/ Becomes(c, [pc |-> "arm", op |-> call[c].op, gen |-> genCounter + 1, out |-> call[c].out])
            \/ \E pc \in {"mark", "store"} : Becomes(c, Moved(c, pc, call[c].out))
        BY <2>5, CallForms
      <3> QED
        BY <2>1, <3>1, MovedFields
    <2> QED
      BY <1>2, <2>2, <2>3, <2>4, <2>5 DEF CallStep
  <1> QED
    BY <1>1, <1>2

\* A call that arms its handle closes those that were given out.
LEMMA ArmDetaches ==
  ASSUME SessionTypes, SessionTypes', PendingOwn, NEW c \in Callers, ArmHandle(c), NEW g \in given
  PROVE  handle'[g] # "open" /\ given' = given /\ g # call[c].gen
  <1>0. RouterTypes /\ RouterTypes' /\ g \in Queries
    BY DEF SessionTypes, UserTypes
  <1>1. given' = given /\ Asking(call[c]) /\ Router!Arm(call[c].gen)
    BY DEF ArmHandle, userState, Asking
  <1>2. g # call[c].gen
    BY <1>1 DEF PendingOwn, Past
  <1>3. CASE shutdown
    BY <1>0, <1>1, <1>2, <1>3, RouterFacts
       DEF Router!Arm, RouterTypes, Router!OnlyActiveOpen, Router!RouterTypeOK
  <1>4. CASE ~shutdown
    <2>1. active' = call[c].gen
      BY <1>1, <1>4 DEF Router!Arm
    <2> QED
      BY <1>0, <1>1, <1>2, <2>1, RouterFacts DEF RouterTypes, Router!OnlyActiveOpen
  <1> QED
    BY <1>1, <1>2, <1>3, <1>4

\* Nothing was given out, or nothing that is open, while a call holds a handle.
LEMMA NextKeepsAlone ==
  ASSUME Settled, Settled', Alone, [Next]_vars
  PROVE  Alone'
  <1> USE DEF Settled
  <1>0. CallTypes /\ CallTypes' /\ RouterTypes /\ RouterTypes' /\ TurnInv /\ TurnInv' /\ PendingOwn
    BY DEF SessionTypes, LateInv
  <1>1. \A c \in Callers : Asking(call[c]) => call[c].gen \notin given
    BY <1>0 DEF PendingOwn, Past
  <1>2. \A g \in Queries : handle'[g] = "open" =>
          \/ handle[g] = "open"
          \/ \E c \in Callers : ArmHandle(c) /\ call[c].gen = g /\ ~shutdown
    BY NextOpens
  <1>3. stdinOpen' => stdinOpen
    BY NextOpens
  <1>4. ASSUME UNCHANGED <<call, given>>
        PROVE  Alone'
    <2>1. ASSUME NEW c \in Callers PROVE ~ArmHandle(c)
      <3>1. SUFFICES ASSUME ArmHandle(c) PROVE FALSE
        OBVIOUS
      <3>2. call[c].pc = "arm" /\ call'[c].pc = "arm"
        BY <1>4, <3>1 DEF ArmHandle
      <3>3. call'[c].pc \in {"mark", "store"}
        BY <3>1, BecomesIs
      <3> QED
        BY <3>2, <3>3
    <2> QED
      BY <1>2, <1>3, <1>4, <2>1, RouterFacts DEF Alone, SessionTypes, UserTypes
  <1>5. ASSUME NEW c \in Callers, StartCall(c)
        PROVE  Alone'
    <2>1. handle' = handle
      BY <1>5 DEF StartCall, routerState
    <2> QED
      BY <1>0, <1>3, <1>5, <2>1, StartsIdle DEF Alone
  <1>6. ASSUME NEW c \in Callers, CallStep(c)
        PROVE  Alone'
    <2>1. \A d \in Callers : d # c => call'[d] = call[d]
      BY <1>6, CallEffects
    <2>2. ASSUME call'[c].pc \in {"fail", "failState", "detach"}
          PROVE  ~stdinOpen'
      <3>1. CASE WriteFails(c)
        BY <3>1 DEF WriteFails
      <3>2. CASE ~WriteFails(c)
        <4>1. call[c].pc \in {"fail", "failState", "detach"}
          BY <1>0, <1>6, <2>2, <3>2, FailSteps
        <4> QED
          BY <1>3, <4>1 DEF Alone
      <3> QED
        BY <3>1, <3>2
    <2>3. ASSUME NEW d \in Callers, Holding(call'[d]), NEW g \in given', handle'[g] = "open"
          PROVE  FALSE
      <3>0. g \in Queries
        BY DEF SessionTypes, UserTypes
      <3>1. given' = given \/ (WriteOk(c) /\ given' = given \cup {call[c].gen})
        BY <1>0, <1>6, AskedGens
      <3>2. CASE Holding(call[d])
        <4>1. \A e \in Callers : ArmHandle(e) => g # call[e].gen
          <5>1. ASSUME NEW e \in Callers, ArmHandle(e) PROVE g # call[e].gen
            <6>1. given' = given
              BY <5>1 DEF ArmHandle, userState
            <6> QED
              BY <1>0, <5>1, <6>1, ArmDetaches
          <5> QED
            BY <5>1
        <4>2. handle[g] = "open"
          BY <1>2, <2>3, <3>0, <4>1
        <4>3. g \notin given
          BY <3>2, <4>2 DEF Alone
        <4>4. WriteOk(c) /\ g = call[c].gen
          BY <3>1, <4>3
        <4>5. ~Holding(call'[c]) /\ stdinOpen /\ Asking(call[c])
          <5>1. call'[c] = NoCall
            BY <4>4, BecomesIs
          <5> QED
            BY <4>4, <5>1 DEF NoCall, Holding, Marked, WriteOk, Asking
        <4>6. d # c
          BY <2>3, <4>5
        <4>7. Asking(call[d])
          BY <3>2, <4>5 DEF Alone, Holding, Asking
        <4> QED
          BY <1>0, <4>5, <4>6, <4>7 DEF TurnInv, OnlyOne
      <3>3. CASE ~Holding(call[d])
        <4>1. d = c
          BY <2>1, <2>3, <3>3
        <4>2. call'[c].op = "QueryCtx"
          <5>1. CallOK(call'[c])
            BY <1>0 DEF CallTypes
          <5>2. call'[c].pc # "idle"
            BY <2>3, <4>1 DEF Holding, Marked
          <5> QED
            BY <1>0, <5>1, <5>2 DEF CallOK, TurnInv, OnlyOne
        <4>3. ArmHandle(c)
          BY <1>6, <2>3, <3>3, <4>1, <4>2, CallEffects
        <4>4. given' = given
          BY <4>3 DEF ArmHandle, userState
        <4> QED
          BY <1>0, <2>3, <4>3, <4>4, ArmDetaches
      <3> QED
        BY <3>2, <3>3
    <2>4. ASSUME NEW d \in Callers, call'[d].pc \in {"fail", "failState", "detach"}
          PROVE  ~stdinOpen'
      BY <1>3, <2>1, <2>2, <2>4 DEF Alone
    <2> QED
      BY <2>3, <2>4 DEF Alone
  <1> QED
    BY <1>4, <1>5, <1>6, OthersLeaveCalls

\* What a call sends is stamped with its own generation, if any; nothing ticks.
Sent ==
  /\ \A c \in Callers : call[c].pc \in {"stamp", "send"} =>
       call[c].out[1].ev.kind = "barrier" \/ call[c].out[1].gen \in {0, call[c].gen}
  /\ tickPc = "none" /\ ticks = 0

\* A call that sends has taken what it sends, and its stamp when it stamped it.
LEMMA NextKeepsSent ==
  ASSUME SessionTypes, TurnInv, Sent, MaxTicks = 0, [Next]_vars
  PROVE  Sent'
  <1>0. CallTypes
    BY DEF SessionTypes
  <1>1. ~Ticker
    BY DEF Sent, Ticker, TickRead, TickStamp, TickSend
  <1>2. tickPc' = "none" /\ ticks' = 0
    <2>1. UNCHANGED <<tickPc, ticks>>
      <3>1. CASE ReadLoop
        BY <3>1 DEF ReadLoop, ReadEcho, ReadInit, ReadTool, ReadHeldResult, StampHeld, ReadResult,
           ReadApiError, ClearGen, TrackState, ObserveTerminal, Push, WaitProcess, ClosePump,
           StampExit, DeliverExit, CheckRouted, Shutdown, Finish, StampTerminal, tickState
      <3>2. CASE Pump \/ Consume \/ CLIStep \/ Cancel \/ UNCHANGED vars
        BY <3>2 DEF Pump, PumpTake, PumpRoute, PumpUnrouted, PumpSend, PumpBarrier, PumpFlush,
           PumpFlushed, PumpStop, Evict, Consume, DrainOrphans, ReadEvents, WaitReceive, WaitClosed,
           Abandon, CLIStep, Cancel, vars, tickState
      <3>3. ASSUME NEW c \in Callers, StartCall(c) \/ CallStep(c)
            PROVE  UNCHANGED <<tickPc, ticks>>
        <4>1. CASE StartCall(c)
          BY <4>1 DEF StartCall, tickState
        <4>2. CASE CallStep(c)
          BY <4>2 DEF CallStep, EnableRouting, CallStamp, CallSend, PrepareQuery, ValidateSendable,
             CountGen, ArmHandle, StoreGen, MarkQuery, WriteOk, WriteFails, FailGen, FailState, FailDetach,
             tickState
        <4> QED
          BY <3>3, <4>1, <4>2
      <3> QED
        BY <1>1, <3>1, <3>2, <3>3 DEF Next, Terminated
    <2> QED
      BY <2>1 DEF Sent
  <1> DEFINE Fine(k) == k.pc \in {"stamp", "send"} =>
                          k.out[1].ev.kind = "barrier" \/ k.out[1].gen \in {0, k.gen}
  <1>3. ASSUME NEW c \in Callers, CallStep(c)
        PROVE  Fine(call'[c]) /\ \A d \in Callers : d # c => call'[d] = call[d]
    <2>1. \A k : Becomes(c, k) => call'[c] = k /\ \A d \in Callers : d # c => call'[d] = call[d]
      BY BecomesIs
    <2>2. \A d \in Callers : d # c => call'[d] = call[d]
      BY <1>3, CallEffects
    <2>3. CASE EnableRouting(c) \/ MarkQuery(c)
      <3>1. \/ Becomes(c, Moved(c, "stamp", <<StampedAs("barrier", {}, 0)>>))
            \/ Becomes(c, Moved(c, "stamp", <<StampedAs("thinking", {}, 0)>>))
            \/ Becomes(c, Moved(c, "prepare", call[c].out))
            \/ Becomes(c, Moved(c, "write", call[c].out))
        BY <2>3, CallForms
      <3>2. /\ <<StampedAs("barrier", {}, 0)>>[1].ev.kind = "barrier"
            /\ <<StampedAs("thinking", {}, 0)>>[1].gen = 0
        BY DEF StampedAs, Ev
      <3>3. Fine(call'[c])
        BY <2>1, <3>1, <3>2, MovedFields
      <3> QED
        BY <2>2, <3>3
    <2>4. CASE CallStamp(c)
      <3>1. CASE Becomes(c, Moved(c, SentPc(c), << >>))
        BY <2>1, <2>2, <3>1, MovedFields DEF SentPc
      <3>2. ASSUME NEW out, out[1] = [ev |-> call[c].out[1].ev, gen |-> activeGen],
                   Becomes(c, Moved(c, "send", out))
            PROVE  Fine(call'[c])
        <4>1. call[c].out[1].ev.kind # "barrier" => activeGen \in {0, call[c].gen}
          BY <2>4 DEF CallStamp, TurnInv, ActiveIsAsked, Asking, Marked
        <4> QED
          BY <2>1, <3>2, <4>1, MovedFields
      <3> QED
        BY <2>2, <2>4, <3>1, <3>2, CallForms
    <2>5. CASE ~EnableRouting(c) /\ ~MarkQuery(c) /\ ~CallStamp(c)
      <3>1. \/ Becomes(c, Moved(c, SentPc(c), << >>))
            \/ \E pc \in {"count", "mark", "store", "fail", "failState", "detach"} :
                 Becomes(c, Moved(c, pc, call[c].out))
            \/ Becomes(c, NoCall)
            \/ Becomes(c, [pc |-> "arm", op |-> call[c].op, gen |-> genCounter + 1, out |-> call[c].out])
        BY <1>3, <2>5, CallForms DEF CallStep
      <3>2. call'[c].pc \notin {"stamp", "send"}
        BY <2>1, <3>1, MovedFields DEF SentPc, NoCall
      <3> QED
        BY <2>2, <3>2
    <2> QED
      BY <2>3, <2>4, <2>5
  <1>4. ASSUME NEW c \in Callers, StartCall(c)
        PROVE  Fine(call'[c]) /\ \A d \in Callers : d # c => call'[d] = call[d]
    BY <1>0, <1>4, StartsIdle
  <1>5. \A c \in Callers : Fine(call'[c])
    <2>1. CASE \A c \in Callers : ~CallStep(c) /\ ~StartCall(c)
      BY <2>1, OthersLeaveCalls DEF Sent
    <2> QED
      BY <1>3, <1>4, <2>1 DEF Sent
  <1> QED
    BY <1>2, <1>5 DEF Sent

\* An event that ends the wait for query g, one that is not stamped for it, and
\* one that is not delivered to its handle: the pump keeps the barrier.
Ends(sev, g) == sev.gen = g /\ sev.ev.kind \in Terminal
NotOf(g) == {sev \in Router!Stamped : sev.gen # g}
Behind(g) == {sev \in Router!Stamped : sev.gen # g \/ sev.ev.kind = "barrier"}
Unstamped == {sev \in Router!Stamped : sev.gen = 0}

\* readLoop is about to enqueue the exit event.
Exiting == rlPc = "exit" \/ (rlPc = "clear" /\ rlOut[1].ev.kind = "exit")

\* The pump stops when readLoop is past its last event but the exit, and what
\* is enqueued afterwards is for no handle that was given out.
Stopped ==
  /\ rlPc \in {"clear", "track", "observe", "exit"} => Len(rlOut) = 1
  /\ pumpClosed => rlPc \in Ending \/ Exiting
  /\ Exiting => pumpPc = "done"
  /\ pumpPc = "done" => pumpClosed /\ \A g \in given : pump \in Seq(Behind(g))

\* The transition that a call sends is not for a handle that was given out.
LEMMA SendsBehind ==
  ASSUME Settled, Sent, NEW c \in Callers, call[c].pc = "send", NEW g \in given
  PROVE  call[c].out[1] \in Behind(g)
  <1>1. call[c].out[1] \in Router!Stamped
    BY SendingParts DEF Settled, SessionTypes
  <1>2. CASE call[c].out[1].ev.kind # "barrier"
    <2>1. Asking(call[c])
      BY <1>2 DEF Asking, Marked
    <2>2. call[c].gen # g /\ g # 0
      BY <2>1, RouterFacts DEF Settled, LateInv, PendingOwn, Past
    <2> QED
      BY <1>1, <1>2, <2>2 DEF Sent, Behind
  <1> QED
    BY <1>1, <1>2 DEF Behind

\* Once stdin is closed no handle is given out, nor once the pump was closed.
LEMMA ClosedGivesNone ==
  ASSUME Settled, Stopped, [Next]_vars
  PROVE  /\ ~stdinOpen => given' = given
         /\ pumpClosed => given' = given
  <1> USE DEF Settled
  <1>1. pumpClosed => ~stdinOpen
    BY DEF Stopped, EndInv, EndIsWaited, Exiting, Ending
  <1>2. ASSUME ~stdinOpen
        PROVE  given' = given
    <2>1. CASE \A c \in Callers : ~CallStep(c) /\ ~StartCall(c)
      BY <2>1, OthersLeaveCalls
    <2>2. ASSUME NEW c \in Callers, CallStep(c)
          PROVE  given' = given
      BY <1>2, <2>2, AskedGens DEF WriteOk
    <2>3. ASSUME NEW c \in Callers, StartCall(c)
          PROVE  given' = given
      BY <2>3 DEF StartCall, userState
    <2> QED
      BY <2>1, <2>2, <2>3
  <1> QED
    BY <1>1, <1>2

\* readLoop holds one event while it stamps, tracks and observes its end.
LEMMA LoopKeepsStopped ==
  ASSUME Settled, Stopped, ReadLoop
  PROVE  /\ rlPc' \in {"clear", "track", "observe", "exit"} => Len(rlOut') = 1
         /\ pumpClosed' => rlPc' \in Ending \/ Exiting'
         /\ Exiting' => pumpPc' = "done"
         /\ pumpPc' = pumpPc /\ (pumpClosed => pumpClosed') /\ given' = given
         /\ pumpClosed => pump' = pump
  <1> USE DEF Stopped, Exiting, Ending
  <1>0. /\ pumpPc' = pumpPc /\ (pumpClosed => pumpClosed') /\ given' = given
        /\ pumpClosed' = pumpClosed \/ (rlPc' = "join" /\ rlPc = "scan")
        /\ pump' = pump \/ rlPc = "push"
    <2>1. CASE ClosePump
      BY <2>1 DEF ClosePump, userState
    <2>2. CASE ~ClosePump
      BY <2>2 DEF ReadLoop, ReadEcho, ReadInit, ReadTool, ReadHeldResult, StampHeld, ReadResult,
         ReadApiError, ClearGen, TrackState, ObserveTerminal, Push, WaitProcess,
         StampExit, DeliverExit, CheckRouted, Shutdown, Finish, StampTerminal,
         pumpState, userState
    <2> QED
      BY <2>1, <2>2
  <1>1. pumpClosed => pump' = pump
    BY <1>0
  <1>2. CASE ReadEcho \/ ReadInit \/ ReadTool \/ ReadHeldResult \/ StampHeld \/ ObserveTerminal \/ Push
    <2>1. /\ rlPc' \in {"scan", "push", "held"}
          /\ rlPc \in {"scan", "held", "observe", "push"}
      BY <1>2 DEF ReadEcho, ReadInit, ReadTool, ReadHeldResult, StampHeld, ObserveTerminal, Push, Reads,
         WithTransition, loopState
    <2>2. ~pumpClosed /\ rlPc' # "join"
      BY <2>1
    <2> QED
      BY <1>0, <1>1, <2>1, <2>2
  <1>3. ASSUME NEW kind, NEW of, StampTerminal(kind, of), rlPc \in {"scan", "join"},
               rlPc = "join" => pumpPc = "done", kind = "exit" <=> rlPc = "join"
        PROVE  /\ rlPc' \in {"clear", "track", "observe", "exit"} => Len(rlOut') = 1
               /\ pumpClosed' => rlPc' \in Ending \/ Exiting'
               /\ Exiting' => pumpPc' = "done"
    <2>1. rlPc' = "clear" /\ rlOut' = <<StampedAs(kind, of, activeGen)>>
      BY <1>3 DEF StampTerminal
    <2>2. Len(rlOut') = 1 /\ rlOut'[1].ev.kind = kind
      BY <2>1 DEF StampedAs, Ev
    <2> QED
      BY <1>0, <1>3, <2>1, <2>2
  <1>4. CASE ReadResult \/ ReadApiError
    <2>1. \/ StampTerminal("result", Head(stdout).of)
          \/ StampTerminal("fatal", Head(stdout).of)
      BY <1>4 DEF ReadResult, ReadApiError
    <2>2. rlPc = "scan"
      BY <1>4 DEF ReadResult, ReadApiError, Reads
    <2> QED
      BY <1>0, <1>1, <1>3, <2>1, <2>2
  <1>5. CASE WaitProcess
    <2>1. rlPc = "scan" /\ (StampTerminal("fatal", {}) \/ UNCHANGED <<rlPc, rlOut>>)
      BY <1>5 DEF WaitProcess
    <2> QED
      BY <1>0, <1>1, <1>3, <2>1
  <1>6. CASE StampExit
    <2>1. rlPc = "join" /\ pumpPc = "done" /\ StampTerminal("exit", {})
      BY <1>6 DEF StampExit
    <2> QED
      BY <1>0, <1>1, <1>3, <2>1
  <1>7. CASE ClearGen \/ TrackState
    <2>1. /\ rlOut' = rlOut /\ rlPc \in {"clear", "track"}
          /\ rlPc' \in {"exit", "track", "observe"}
          /\ rlPc = "clear" => rlPc' = IF rlOut[1].ev.kind = "exit" THEN "exit" ELSE "track"
          /\ rlPc = "track" => rlPc' = "observe"
      BY <1>7 DEF ClearGen, TrackState
    <2> QED
      BY <1>0, <1>1, <2>1
  <1>8. CASE ClosePump \/ DeliverExit \/ CheckRouted \/ Shutdown \/ Finish
    <2>1. rlPc' \in {"join", "shut", "shutdown", "finish", "ended"}
      BY <1>8 DEF ClosePump, DeliverExit, CheckRouted, Shutdown, Finish
    <2> QED
      BY <1>0, <1>1, <2>1
  <1> QED
    BY <1>2, <1>4, <1>5, <1>6, <1>7, <1>8 DEF ReadLoop

\* After the pump has stopped only calls enqueue, and nothing is given out.
LEMMA NextKeepsStopped ==
  ASSUME Settled, Sent, Stopped, [Next]_vars
  PROVE  Stopped'
  <1> USE DEF Settled
  <1>0. pumpClosed => given' = given
    BY ClosedGivesNone
  <1>1. \A g : \A seq \in Seq(Behind(g)) : \A sev \in Behind(g) : Append(seq, sev) \in Seq(Behind(g))
    BY SequenceTypes
  <1>2. CASE ReadLoop
    BY <1>2, LoopKeepsStopped DEF Stopped
  <1>3. ASSUME UNCHANGED <<rlPc, rlOut, pumpClosed, pumpPc>>,
               pumpPc = "done" => \A g \in given : pump' \in Seq(Behind(g))
        PROVE  Stopped'
    BY <1>0, <1>3 DEF Stopped, Exiting
  <1>4. CASE Pump
    <2>1. UNCHANGED <<rlPc, rlOut, pumpClosed, given>>
      BY <1>4 DEF Pump, PumpTake, PumpRoute, PumpUnrouted, PumpSend, PumpBarrier, PumpFlush,
         PumpFlushed, PumpStop, Evict, loopState, pumpState, userState
    <2>2. CASE PumpStop
      <3>1. pumpClosed /\ pump' = << >> /\ pumpPc' = "done"
        BY <2>2 DEF PumpStop
      <3>2. \A g : << >> \in Seq(Behind(g))
        BY OwnKinds
      <3> QED
        BY <2>1, <3>1, <3>2 DEF Stopped, Exiting
    <2>3. CASE Evict
      BY <1>3, <2>3 DEF Evict, pumpState, loopState, Stopped
    <2>4. CASE ~PumpStop /\ ~Evict
      <3>1. pumpPc # "done" /\ pumpPc' # "done"
        BY <1>4, <2>4 DEF Pump, PumpTake, PumpRoute, PumpUnrouted, PumpSend, PumpBarrier, PumpFlush,
           PumpFlushed
      <3> QED
        BY <2>1, <3>1 DEF Stopped, Exiting
    <2> QED
      BY <2>2, <2>3, <2>4
  <1>5. ASSUME NEW c \in Callers, CallStep(c)
        PROVE  Stopped'
    <2>1. UNCHANGED <<rlPc, rlOut, pumpClosed, pumpPc>>
      BY <1>5 DEF CallStep, EnableRouting, CallStamp, CallSend, PrepareQuery, ValidateSendable, CountGen,
         ArmHandle, StoreGen, MarkQuery, WriteOk, WriteFails, FailGen, FailState, FailDetach,
         loopState, pumpState
    <2>2. ASSUME pumpPc = "done", NEW g \in given
          PROVE  pump' \in Seq(Behind(g))
      <3>1. CASE CallSend(c)
        <4>1. call[c].out[1] \in Behind(g) /\ SendSelect(call[c].out[1])
          BY <3>1, SendsBehind DEF CallSend
        <4> QED
          BY <2>2, <4>1, SendEnqueues DEF Stopped
      <3>2. CASE ~CallSend(c)
        <4>1. pump' = pump
          BY <1>5, <3>2 DEF CallStep, EnableRouting, CallStamp, PrepareQuery, ValidateSendable, CountGen,
             ArmHandle, StoreGen, MarkQuery, WriteOk, WriteFails, FailGen, FailState, FailDetach, pumpState
        <4> QED
          BY <2>2, <4>1 DEF Stopped
      <3> QED
        BY <3>1, <3>2
    <2> QED
      BY <1>3, <2>1, <2>2
  <1>6. CASE Ticker
    BY <1>6 DEF Sent, Ticker, TickRead, TickStamp, TickSend, Stopped, Exiting, loopState, pumpState, userState
  <1>7. ASSUME NEW c \in Callers, StartCall(c)
        PROVE  Stopped'
    BY <1>3, <1>7 DEF StartCall, loopState, pumpState, Stopped
  <1>8. CASE Consume \/ CLIStep \/ Cancel \/ UNCHANGED vars
    <2>1. UNCHANGED <<rlPc, rlOut, pumpClosed, pumpPc, pump>>
      BY <1>8 DEF Consume, DrainOrphans, ReadEvents, WaitReceive, WaitClosed, Abandon, CLIStep, Cancel, vars,
         loopState, pumpState
    <2> QED
      BY <1>3, <2>1 DEF Stopped
  <1> QED
    BY <1>2, <1>4, <1>5, <1>6, <1>7, <1>8 DEF Next, Terminated

\* Before routing is on nothing is stamped.
Unrouted ==
  /\ ~routed => /\ activeGen = 0 /\ rlOut \in Seq(Unstamped)
                /\ pump \in Seq(Unstamped) /\ pumpEv \in Seq(Unstamped)
  /\ pumpPc = "events" => pumpEv[1].gen = 0

\* Nothing is stamped while no generation is active, and only a call of QueryCtx,
\* which turns routing on first, makes one active.
LEMMA NextKeepsUnrouted ==
  ASSUME Settled, Unrouted, MaxTicks = 0, Sent, [Next]_vars
  PROVE  Unrouted'
  <1> USE DEF Settled
  <1>0. ~routed => \A c \in Callers : call[c].pc \in {"idle", "enable"}
    BY DEF EndInv, RoutedFirst, TurnInv, OnlyOne, SessionTypes, CallTypes, CallOK
  <1>1. ASSUME ~routed
        PROVE  Stamps(Unstamped)
    <2>1. activeGen = 0 /\ 0 \in 0..MaxGen
      BY <1>1, CLIAssumption DEF Unrouted
    <2>2. \A of \in SUBSET Queries :
            \A kind \in {"unsolicited", "result"} : StampedAs(kind, of, 0) \in Unstamped
      BY <2>1, StampedType, StampedFields DEF Unstamped, Kinds
    <2>3. ReadResult => Head(stdout).of \in SUBSET Queries
      BY ReadsTypes DEF ReadResult, SessionTypes
    <2> QED
      BY <2>1, <2>2, <2>3 DEF Stamps, Unstamped, Notices
  <1>2. CASE ReadLoop
    <2>1. UNCHANGED <<routed, pumpEv, pumpPc>> /\ activeGen' \in {activeGen, 0}
      BY <1>2 DEF ReadLoop, ReadEcho, ReadInit, ReadTool, ReadHeldResult, StampHeld, ReadResult,
         ReadApiError, ClearGen, TrackState, ObserveTerminal, Push, WaitProcess, ClosePump,
         StampExit, DeliverExit, CheckRouted, Shutdown, Finish, StampTerminal,
         pumpState, modeState, queryState
    <2>2. ~routed => rlOut' \in Seq(Unstamped) /\ pump' \in Seq(Unstamped)
      BY <1>1, <1>2, LoopStamps DEF Unrouted, OwnInv
    <2> QED
      BY <2>1, <2>2 DEF Unrouted
  <1>3. CASE Pump
    <2>1. UNCHANGED <<routed, activeGen, rlOut>>
      BY <1>3 DEF Pump, PumpTake, PumpRoute, PumpUnrouted, PumpSend, PumpBarrier, PumpFlush,
         PumpFlushed, PumpStop, Evict, modeState, queryState, loopState
    <2>2. ~routed => pump' \in Seq(Unstamped) /\ pumpEv' \in Seq(Unstamped)
      BY <1>3, PumpTakes DEF Unrouted
    <2>3. pumpPc' = "events" => pumpEv'[1].gen = 0
      <3>1. CASE PumpUnrouted
        <4>1. pumpEv' = pumpEv /\ pumpEv \in Seq(Unstamped) /\ pumpEv # << >>
          BY <3>1 DEF PumpUnrouted, Unrouted, SessionTypes, PumpTypes
        <4>2. pumpEv[1] \in Unstamped
          BY <4>1, HeadTypes
        <4> QED
          BY <4>1, <4>2 DEF Unstamped
      <3>2. CASE Evict
        BY <3>2 DEF Evict, pumpState, Unrouted
      <3>3. CASE ~PumpUnrouted /\ ~Evict
        BY <1>3, <3>3 DEF Pump, PumpTake, PumpRoute, PumpSend, PumpBarrier, PumpFlush,
           PumpFlushed, PumpStop
      <3> QED
        BY <3>1, <3>2, <3>3
    <2> QED
      BY <2>1, <2>2, <2>3 DEF Unrouted
  <1>4. ASSUME NEW c \in Callers, CallStep(c)
        PROVE  Unrouted'
    <2>1. UNCHANGED <<rlOut, pumpEv, pumpPc>> /\ (~routed' => ~routed)
      <3>1. UNCHANGED <<rlOut, pumpEv, pumpPc>>
        BY <1>4 DEF CallStep, EnableRouting, CallStamp, CallSend, PrepareQuery, ValidateSendable, CountGen,
           ArmHandle, StoreGen, MarkQuery, WriteOk, WriteFails, FailGen, FailState, FailDetach,
           loopState, pumpState
      <3>2. CASE EnableRouting(c)
        BY <3>1, <3>2 DEF EnableRouting, modeState
      <3>3. CASE ~EnableRouting(c)
        <4>1. routed' = routed
          BY <1>4, <3>3 DEF CallStep, CallStamp, CallSend, PrepareQuery, ValidateSendable, CountGen,
             ArmHandle, StoreGen, MarkQuery, WriteOk, WriteFails, FailGen, FailState, FailDetach, modeState
        <4> QED
          BY <3>1, <4>1
      <3> QED
        BY <3>2, <3>3
    <2>2. ASSUME ~routed
          PROVE  UNCHANGED <<pump, activeGen>>
      <3>1. call[c].pc \in {"idle", "enable"}
        BY <1>0, <2>2
      <3>2. EnableRouting(c)
        BY <1>4, <3>1 DEF CallStep, CallStamp, CallSend, PrepareQuery, ValidateSendable, CountGen,
           ArmHandle, StoreGen, MarkQuery, WriteOk, WriteFails, FailGen, FailState, FailDetach
      <3> QED
        BY <3>2 DEF EnableRouting, pumpState, queryState
    <2> QED
      BY <2>1, <2>2 DEF Unrouted
  <1>5. CASE Ticker
    BY <1>5 DEF Sent, Ticker, TickRead, TickStamp, TickSend
  <1>6. ASSUME NEW c \in Callers, StartCall(c)
        PROVE  Unrouted'
    BY <1>6 DEF StartCall, loopState, pumpState, modeState, queryState, Unrouted
  <1>7. CASE Consume \/ CLIStep \/ Cancel \/ UNCHANGED vars
    <2>1. UNCHANGED <<routed, activeGen, rlOut, pump, pumpEv, pumpPc>>
      BY <1>7 DEF Consume, DrainOrphans, ReadEvents, WaitReceive, WaitClosed, Abandon, CLIStep, Cancel, vars,
         loopState, pumpState, modeState, queryState
    <2> QED
      BY <2>1 DEF Unrouted
  <1> QED
    BY <1>2, <1>3, <1>4, <1>5, <1>6, <1>7 DEF Next, Terminated

\* The generation of g is active, ...
Asked(g) == activeGen = g /\ (rlPc = "clear" => Ends(rlOut[1], g))

\* ... or readLoop has its terminal event, ...
InLoop(g) ==
  /\ activeGen # g
  /\ rlPc \in {"track", "observe", "push", "exit"}
  /\ rlOut # << >> /\ Ends(rlOut[Len(rlOut)], g)

\* ... or has enqueued it.  What is behind it is not for the handle of g, so
\* that nothing makes the mailbox drop it.
Passed(g) == activeGen # g /\ rlOut \in Seq(NotOf(g))
Drained(g) == Passed(g) /\ pump \in Seq(Behind(g))
Emptied(g) == Drained(g) /\ (pumpPc \in {"have", "events"} => pumpEv[1] \in Behind(g))

InPump(g) ==
  /\ Passed(g)
  /\ \E i \in DOMAIN pump : /\ Ends(pump[i], g)
                            /\ \A j \in DOMAIN pump : j > i => pump[j] \in Behind(g)
InHand(g) == Drained(g) /\ pumpPc = "have" /\ Ends(pumpEv[1], g)
InEvict(g) == Emptied(g) /\ evicting # << >> /\ Ends(evicting[1], g)
InMail(g) ==
  Emptied(g) /\ evicting = << >> /\ \E i \in DOMAIN mailbox[g] : Ends(mailbox[g][i], g)

AfterLoop(g) == InPump(g) \/ InHand(g) \/ InEvict(g) \/ InMail(g)
OnItsWay(g) == Asked(g) \/ InLoop(g) \/ AfterLoop(g)

Watched(g) == g \in given /\ handle[g] = "open" /\ answer[g] = Waiting /\ ~ctxDone

Tracked == \A g \in Queries : Watched(g) => OnItsWay(g)

\* A place to which only events behind the terminal one are added keeps it.
LEMMA AppendsBehind ==
  ASSUME SessionTypes, NEW g \in Queries,
         pump' = pump \/ \E sev \in Behind(g) : pump' = Append(pump, sev)
  PROVE  /\ pump \in Seq(Behind(g)) => pump' \in Seq(Behind(g))
         /\ \A i \in DOMAIN pump :
              (\A j \in DOMAIN pump : j > i => pump[j] \in Behind(g)) =>
                /\ i \in DOMAIN pump' /\ pump'[i] = pump[i]
                /\ \A j \in DOMAIN pump' : j > i => pump'[j] \in Behind(g)
  <1>0. pump \in Seq(Router!Stamped)
    BY DEF SessionTypes, PumpTypes
  <1>1. CASE pump' = pump
    BY <1>1
  <1>2. ASSUME NEW sev \in Behind(g), pump' = Append(pump, sev)
        PROVE  /\ pump \in Seq(Behind(g)) => pump' \in Seq(Behind(g))
               /\ \A i \in DOMAIN pump :
                    (\A j \in DOMAIN pump : j > i => pump[j] \in Behind(g)) =>
                      /\ i \in DOMAIN pump' /\ pump'[i] = pump[i]
                      /\ \A j \in DOMAIN pump' : j > i => pump'[j] \in Behind(g)
    <2>1. /\ DOMAIN pump = 1..Len(pump) /\ Len(pump) \in Nat /\ DOMAIN pump' = 1..(Len(pump) + 1)
          /\ pump'[Len(pump) + 1] = sev /\ \A i \in DOMAIN pump : pump'[i] = pump[i]
      BY <1>0, <1>2
    <2>2. pump \in Seq(Behind(g)) => pump' \in Seq(Behind(g))
      BY <1>2, SequenceTypes
    <2> HIDE <1>2
    <2> QED
      BY <2>1, <2>2
  <1> QED
    BY <1>1, <1>2

\* What a terminal event on its way rests on.
LEMMA WayFrame ==
  ASSUME SessionTypes, NEW g \in Queries, AfterLoop(g), Passed(g)',
         pump' = pump \/ \E sev \in Behind(g) : pump' = Append(pump, sev),
         UNCHANGED <<pumpPc, pumpEv, evicting>>,
         InMail(g) => \E i \in DOMAIN mailbox'[g] : Ends(mailbox'[g][i], g)
  PROVE  AfterLoop(g)'
  <1>0. pump \in Seq(Behind(g)) => pump' \in Seq(Behind(g))
    BY AppendsBehind
  <1>1. CASE InPump(g)
    <2>1. PICK i \in DOMAIN pump : /\ Ends(pump[i], g)
                                   /\ \A j \in DOMAIN pump : j > i => pump[j] \in Behind(g)
      BY <1>1 DEF InPump
    <2>2. /\ i \in DOMAIN pump' /\ pump'[i] = pump[i]
          /\ \A j \in DOMAIN pump' : j > i => pump'[j] \in Behind(g)
      BY <2>1, AppendsBehind
    <2> QED
      BY <2>1, <2>2 DEF InPump, AfterLoop, Ends, Behind
  <1>2. CASE InHand(g)
    BY <1>0, <1>2 DEF InHand, Drained, AfterLoop, Ends, Behind
  <1>3. CASE InEvict(g)
    BY <1>0, <1>3 DEF InEvict, Emptied, Drained, AfterLoop, Ends, Behind
  <1>4. CASE InMail(g)
    BY <1>0, <1>4 DEF InMail, Emptied, Drained, AfterLoop, Ends, Behind
  <1> QED
    BY <1>1, <1>2, <1>3, <1>4 DEF AfterLoop

LEMMA AfterPasses ==
  ASSUME NEW g, AfterLoop(g)
  PROVE  Passed(g)
  BY DEF AfterLoop, InPump, InHand, InEvict, InMail, Emptied, Drained

\* An event that is not for an open handle leaves it alone, one that is for it
\* is delivered.
LEMMA RouteOpen ==
  ASSUME RouterTypes, NEW g \in Queries, handle[g] = "open", NEW sev, Router!RouteStamped(sev)
  PROVE  /\ evicting = << >>
         /\ sev.gen # g => UNCHANGED <<mailbox, evicting>>
         /\ sev.gen = g => \/ evicting' = <<sev>>
                           \/ evicting' = << >> /\ mailbox'[g] = Append(mailbox[g], sev)
  <1>1. active = g /\ active # 0 /\ ~shutdown
    BY RouterFacts DEF RouterTypes, Router!OnlyActiveOpen
  <1>2. evicting = << >>
    BY DEF Router!RouteStamped, Router!Unlocked
  <1>3. sev.gen # g => Router!Orphan(sev)
    BY <1>1 DEF Router!RouteStamped, Router!DropAfterShutdown, Router!Deliver, Router!FindFull, Router!Addressed
  <1>4. sev.gen = g => Router!Deliver(sev) \/ Router!FindFull(sev)
    BY <1>1, RouterFacts DEF Router!RouteStamped, Router!DropAfterShutdown, Router!Orphan, Router!Addressed
  <1>5. Router!Deliver(sev) => evicting' = evicting /\ mailbox'[g] = Append(mailbox[g], sev)
    BY <1>1, RouterFacts DEF Router!Deliver, RouterTypes, Router!RouterTypeOK
  <1> QED
    BY <1>2, <1>3, <1>4, <1>5 DEF Router!Orphan, Router!FindFull

LEMMA SeqOf ==
  ASSUME NEW S, NEW T, NEW seq \in Seq(S), \A i \in DOMAIN seq : seq[i] \in T
  PROVE  seq \in Seq(T)
  <1>1. seq \in [1..Len(seq) -> T] /\ Len(seq) \in Nat
    OBVIOUS
  <1> QED
    BY <1>1, SeqDef

\* The last event of a mailbox is the one it took.
LEMMA LastTaken ==
  ASSUME NEW seq \in Seq(Router!Stamped), NEW sev \in Router!Stamped, NEW g, Ends(sev, g)
  PROVE  \E i \in DOMAIN Append(seq, sev) : Ends(Append(seq, sev)[i], g)
  <1>1. Len(seq) + 1 \in DOMAIN Append(seq, sev) /\ Append(seq, sev)[Len(seq) + 1] = sev
    OBVIOUS
  <1> QED
    BY <1>1

\* The pump takes the terminal event out of its channel and gives it to the
\* router, which delivers it.
LEMMA PumpKeepsWay ==
  ASSUME Settled, Unrouted, Pump, NEW g \in Queries, Watched(g), AfterLoop(g)
  PROVE  AfterLoop(g)'
  <1> USE DEF Settled
  <1>0. /\ pump \in Seq(Router!Stamped) /\ RouterTypes /\ g # 0 /\ routed
        /\ handle[g] = "open" /\ mailbox[g] \in Seq(Router!Stamped)
    BY RouterFacts DEF SessionTypes, PumpTypes, RouterTypes, Router!RouterTypeOK, Watched, EndInv, RoutedFirst
  <1>1. UNCHANGED <<activeGen, rlOut>>
    BY DEF Pump, PumpTake, PumpRoute, PumpUnrouted, PumpSend, PumpBarrier, PumpFlush,
       PumpFlushed, PumpStop, Evict, queryState, loopState
  <1>2. Passed(g)'
    BY <1>1, AfterPasses DEF Passed, NotOf
  <1>3. pumpPc \in {"have", "events"} => pumpEv[1] \in Router!Stamped
    BY HeadTypes DEF SessionTypes, PumpTypes
  <1>4. CASE PumpTake
    <2>1. /\ pumpPc = "idle" /\ evicting = << >> /\ pump # << >> /\ pumpPc' = "have"
          /\ pump' = Tail(pump) /\ pumpEv' = <<Head(pump)>> /\ UNCHANGED routerState
      BY <1>4 DEF PumpTake
    <2>2. /\ DOMAIN pump = 1..Len(pump) /\ Len(pump) \in Nat \ {0} /\ Head(pump) = pump[1]
          /\ DOMAIN Tail(pump) = 1..(Len(pump) - 1)
          /\ \A j \in DOMAIN Tail(pump) : j + 1 \in DOMAIN pump /\ Tail(pump)[j] = pump[j + 1]
      BY <1>0, <2>1
    <2>3. pumpEv'[1] = pump[1]
      BY <2>1, <2>2
    <2>4. UNCHANGED <<mailbox, evicting>>
      BY <2>1 DEF routerState
    <2>5. CASE InPump(g)
      <3>1. PICK i \in DOMAIN pump : /\ Ends(pump[i], g)
                                     /\ \A j \in DOMAIN pump : j > i => pump[j] \in Behind(g)
        BY <2>5 DEF InPump
      <3>2. CASE i = 1
        <4>1. Tail(pump) \in Seq(Router!Stamped) /\ \A j \in DOMAIN Tail(pump) : Tail(pump)[j] \in Behind(g)
          BY <1>0, <2>1, <2>2, <3>1, <3>2, HeadTypes
        <4>2. Tail(pump) \in Seq(Behind(g))
          BY <4>1, SeqOf
        <4>3. InHand(g)'
          BY <1>2, <2>1, <2>3, <3>1, <3>2, <4>2 DEF InHand, Drained, Ends, Behind
        <4> QED
          BY <4>3 DEF AfterLoop
      <3>3. CASE i # 1
        <4>1. /\ i - 1 \in DOMAIN Tail(pump) /\ Tail(pump)[i - 1] = pump[i]
              /\ \A j \in DOMAIN Tail(pump) : j > i - 1 => Tail(pump)[j] \in Behind(g)
          BY <2>2, <3>1, <3>3
        <4>2. InPump(g)'
          BY <1>2, <2>1, <3>1, <4>1 DEF InPump, Ends, Behind
        <4> QED
          BY <4>2 DEF AfterLoop
      <3> QED
        BY <3>2, <3>3
    <2>6. CASE InMail(g)
      <3>1. pump \in Seq(Behind(g))
        BY <2>6 DEF InMail, Emptied, Drained
      <3>2. pump[1] \in Behind(g) /\ Tail(pump) \in Seq(Behind(g))
        BY <2>1, <3>1, HeadTypes
      <3>3. InMail(g)'
        BY <1>2, <2>1, <2>3, <2>4, <2>6, <3>2 DEF InMail, Emptied, Drained, Ends, Behind
      <3> QED
        BY <3>3 DEF AfterLoop
    <2> QED
      BY <2>1, <2>5, <2>6 DEF AfterLoop, InHand, InEvict
  <1>5. ASSUME pump' = pump, pumpPc' \notin {"have", "events"} \/ UNCHANGED <<pumpPc, pumpEv>> \/
                 (pumpPc = "have" /\ pumpPc' = "events" /\ pumpEv' = pumpEv),
               UNCHANGED <<mailbox, evicting>>, ~InHand(g) \/ UNCHANGED <<pumpPc, pumpEv>>
        PROVE  AfterLoop(g)'
    <2>1. CASE InPump(g)
      BY <1>2, <1>5, <2>1 DEF AfterLoop, InPump, Ends, Behind
    <2>2. CASE InHand(g)
      BY <1>2, <1>5, <2>2 DEF AfterLoop, InHand, Drained, Ends, Behind
    <2>3. CASE InEvict(g)
      BY <1>2, <1>5, <2>3 DEF AfterLoop, InEvict, Emptied, Drained, Ends, Behind
    <2>4. CASE InMail(g)
      BY <1>2, <1>5, <2>4 DEF AfterLoop, InMail, Emptied, Drained, Ends, Behind
    <2> QED
      BY <2>1, <2>2, <2>3, <2>4 DEF AfterLoop
  <1>6. CASE PumpRoute
    <2>1. /\ Router!RouteStamped(pumpEv[1]) /\ pumpPc' = "idle" /\ pump' = pump
          /\ pumpPc \in {"have", "events"} /\ (pumpPc = "have" => ~IsBarrier)
      BY <1>6 DEF PumpRoute
    <2>2. CASE InHand(g)
      <3>1. pumpEv[1].gen = g /\ pump \in Seq(Behind(g)) /\ Ends(pumpEv[1], g)
        BY <2>2 DEF InHand, Drained, Ends
      <3>2. \/ evicting' = <<pumpEv[1]>>
            \/ evicting' = << >> /\ mailbox'[g] = Append(mailbox[g], pumpEv[1])
        BY <1>0, <2>1, <3>1, RouteOpen
      <3>3. Emptied(g)'
        BY <1>2, <2>1, <3>1 DEF Emptied, Drained, Behind
      <3>4. CASE evicting' = <<pumpEv[1]>>
        <4>1. evicting' # << >> /\ evicting'[1] = pumpEv[1]
          BY <3>4, SequenceTypes
        <4>2. InEvict(g)'
          BY <3>1, <3>3, <4>1 DEF InEvict, Ends
        <4> QED
          BY <4>2 DEF AfterLoop
      <3>5. CASE evicting' = << >> /\ mailbox'[g] = Append(mailbox[g], pumpEv[1])
        <4>1. \E i \in DOMAIN mailbox'[g] : Ends(mailbox'[g][i], g)
          BY <1>0, <1>3, <2>1, <3>1, <3>5, LastTaken
        <4>2. InMail(g)'
          BY <3>3, <3>5, <4>1 DEF InMail, Ends
        <4> QED
          BY <4>2 DEF AfterLoop
      <3> QED
        BY <3>2, <3>4, <3>5
    <2>3. CASE InPump(g)
      BY <1>2, <2>1, <2>3 DEF AfterLoop, InPump, Ends, Behind
    <2>4. CASE InEvict(g)
      <3>1. evicting = << >>
        BY <1>0, <2>1, RouteOpen
      <3> QED
        BY <2>4, <3>1 DEF InEvict
    <2>5. CASE InMail(g)
      <3>1. pumpEv[1].gen # g
        <4>1. pumpEv[1] \in Behind(g)
          BY <2>1, <2>5 DEF InMail, Emptied
        <4> QED
          BY <1>0, <2>1, <4>1 DEF Behind, IsBarrier, Unrouted
      <3>2. UNCHANGED <<mailbox, evicting>>
        BY <1>0, <2>1, <3>1, RouteOpen
      <3> QED
        BY <1>2, <2>1, <2>5, <3>2 DEF AfterLoop, InMail, Emptied, Drained, Ends, Behind
    <2> QED
      BY <2>2, <2>3, <2>4, <2>5 DEF AfterLoop
  <1>7. CASE Evict
    <2>1. Router!Evict /\ UNCHANGED <<pump, pumpPc, pumpEv>>
      BY <1>7 DEF Evict, pumpState
    <2>2. active = g /\ evicting # << >> /\ evicting[1] \in Router!Stamped /\ evicting' = << >>
      BY <1>0, <2>1, RouterFacts, HeadTypes DEF Router!Evict, RouterTypes, Router!OnlyActiveOpen, Router!RouterTypeOK
    <2>3. CASE InEvict(g)
      <3> DEFINE kept == IF mailbox[g] = << >> THEN mailbox[g] ELSE Tail(mailbox[g])
      <3>1. kept \in Seq(Router!Stamped)
        BY <1>0, HeadTypes
      <3>2. mailbox'[g] = Append(kept, evicting[1])
        BY <1>0, <2>1, <2>2, RouterFacts DEF Router!Evict, RouterTypes, Router!RouterTypeOK
      <3> HIDE DEF kept
      <3>3. \E i \in DOMAIN mailbox'[g] : Ends(mailbox'[g][i], g)
        BY <2>2, <2>3, <3>1, <3>2, LastTaken DEF InEvict
      <3>4. InMail(g)'
        BY <1>2, <2>1, <2>2, <2>3, <3>3 DEF InEvict, InMail, Emptied, Drained, Ends, Behind
      <3> QED
        BY <3>4 DEF AfterLoop
    <2>4. CASE InPump(g)
      BY <1>2, <2>1, <2>4 DEF AfterLoop, InPump, Ends, Behind
    <2>5. CASE InHand(g)
      BY <1>2, <2>1, <2>5 DEF AfterLoop, InHand, Drained, Ends, Behind
    <2> QED
      BY <2>2, <2>3, <2>4, <2>5 DEF AfterLoop, InMail
  <1>8. CASE PumpUnrouted \/ PumpSend \/ PumpBarrier \/ PumpFlush \/ PumpFlushed \/ PumpStop
    <2>1. /\ pump' = pump
          /\ \/ pumpPc' \notin {"have", "events"}
             \/ UNCHANGED <<pumpPc, pumpEv>>
             \/ pumpPc = "have" /\ pumpPc' = "events" /\ pumpEv' = pumpEv
          /\ UNCHANGED <<mailbox, evicting>>
      BY <1>8 DEF PumpUnrouted, PumpSend, PumpBarrier, PumpFlush, PumpFlushed, PumpStop,
         Router!Flush, routerState
    <2>2. ~InHand(g)
      BY <1>0, <1>8 DEF PumpUnrouted, PumpSend, PumpBarrier, PumpFlush, PumpFlushed, PumpStop, IsBarrier,
         InHand, Ends, Terminal
    <2> QED
      BY <1>5, <2>1, <2>2
  <1> QED
    BY <1>4, <1>6, <1>7, <1>8 DEF Pump

\* readLoop stamps nothing with a generation that is not active.
LEMMA StampsOthers ==
  ASSUME SessionTypes, NEW g \in Queries, activeGen # g
  PROVE  Stamps(NotOf(g))
  <1>1. activeGen \in 0..MaxGen /\ 0 \in 0..MaxGen /\ g # 0
    BY CLIAssumption, RouterFacts DEF SessionTypes, QueryTypes
  <1>2. \A of \in SUBSET Queries : StampedAs("unsolicited", of, 0) \in NotOf(g)
    BY <1>1, StampedType, StampedFields DEF NotOf, Kinds
  <1>3. ASSUME ReadResult
        PROVE  StampedAs("result", Head(stdout).of, activeGen) \in NotOf(g)
    <2>1. Head(stdout).of \in SUBSET Queries
      BY <1>3, ReadsTypes DEF ReadResult, SessionTypes
    <2> QED
      BY <1>1, <2>1, StampedType, StampedFields DEF NotOf, Kinds
  <1>4. NotOf(g) \subseteq Router!Stamped /\ Notices \subseteq Router!Stamped
    BY DEF NotOf, Notices
  <1> QED
    BY <1>2, <1>3, <1>4 DEF Stamps, NotOf

\* While the generation of g is active readLoop stamps its end with it, and
\* then it holds the event that ends g.
LEMMA LoopKeepsAsked ==
  ASSUME Settled, Stopped, ReadLoop, NEW g \in Queries, Asked(g)
  PROVE  Asked(g)' \/ InLoop(g)'
  <1>0. g # 0
    BY RouterFacts
  <1>1. CASE ClearGen
    <2>1. /\ activeGen' = 0 /\ rlOut' = rlOut /\ rlPc = "clear" /\ rlPc' \in {"track", "exit"}
          /\ Len(rlOut) = 1 /\ rlOut # << >> /\ Ends(rlOut[1], g)
      BY <1>1 DEF ClearGen, Asked, Stopped, Settled, SessionTypes, LoopTypes
    <2>2. Ends(rlOut'[Len(rlOut')], g)
      BY <2>1 DEF Ends
    <2> QED
      BY <1>0, <2>1, <2>2 DEF InLoop, Ends
  <1>2. ASSUME NEW kind \in Terminal, NEW of, StampTerminal(kind, of)
        PROVE  Asked(g)'
    <2>1. activeGen' = activeGen /\ rlOut' = <<StampedAs(kind, of, activeGen)>>
      BY <1>2 DEF StampTerminal, queryState
    <2>2. rlOut'[1].gen = g /\ rlOut'[1].ev.kind = kind
      BY <2>1, StampedFields DEF Asked
    <2> QED
      BY <2>1, <2>2 DEF Asked, Ends
  <1>3. CASE ReadResult \/ ReadApiError \/ StampExit
    <2>1. \E kind \in Terminal : \E of : StampTerminal(kind, of)
      BY <1>3 DEF ReadResult, ReadApiError, StampExit, Terminal
    <2> QED
      BY <1>2, <2>1
  <1>4. CASE WaitProcess
    <2>1. \/ StampTerminal("fatal", {})
          \/ rlPc' = "scan" /\ activeGen' = activeGen
      BY <1>4 DEF WaitProcess, queryState
    <2> QED
      BY <1>2, <2>1 DEF Asked, Terminal
  <1>5. CASE ~(ClearGen \/ ReadResult \/ ReadApiError \/ StampExit \/ WaitProcess)
    <2>1. activeGen' = activeGen
      BY <1>5 DEF ReadLoop, ReadEcho, ReadInit, ReadTool, ReadHeldResult, StampHeld,
         TrackState, ObserveTerminal, Push, ClosePump, DeliverExit, CheckRouted, Shutdown, Finish, queryState
    <2>2. rlPc' # "clear"
      BY <1>5 DEF ReadLoop, ReadEcho, ReadInit, ReadTool, ReadHeldResult, StampHeld, Reads, WithTransition,
         TrackState, ObserveTerminal, Push, ClosePump, DeliverExit, CheckRouted, Shutdown, Finish, loopState
    <2> QED
      BY <2>1, <2>2 DEF Asked
  <1> QED
    BY <1>1, <1>3, <1>4, <1>5

\* What readLoop holds last it enqueues last.
LEMMA LoopKeepsLast ==
  ASSUME Settled, Stopped, ReadLoop, NEW g \in Queries, Watched(g), InLoop(g)
  PROVE  InLoop(g)' \/ AfterLoop(g)'
  <1> USE DEF Settled
  <1>0. /\ rlOut \in Seq(Router!Stamped) /\ rlOut # << >> /\ Ends(rlOut[Len(rlOut)], g) /\ activeGen # g
        /\ g # 0 /\ rlPc \in {"track", "observe", "push", "exit"} /\ rlOut[1] \in Router!Stamped
        /\ Len(rlOut) \in Nat \ {0}
    BY RouterFacts, HeadTypes DEF InLoop, SessionTypes, LoopTypes
  <1>1. CASE TrackState
    <2>1. UNCHANGED <<rlOut, activeGen>> /\ rlPc' = "observe"
      BY <1>1 DEF TrackState
    <2> QED
      BY <1>0, <2>1 DEF InLoop, Ends
  <1>2. CASE ObserveTerminal
    <2>1. Len(rlOut) = 1 /\ activeGen' = activeGen /\ WithTransition("idle", rlOut[1], "push")
      BY <1>2 DEF ObserveTerminal, Stopped
    <2>2. /\ rlPc' = "push" /\ rlOut' # << >>
          /\ \/ rlOut' = <<rlOut[1]>>
             \/ rlOut' = <<StampedAs("idle", rlOut[1].ev.of, rlOut[1].gen), rlOut[1]>>
      BY <1>0, <2>1, WithTransitionTypes DEF Activities
    <2>3. rlOut'[Len(rlOut')] = rlOut[1]
      <3>1. \A x, y : <<x>>[Len(<<x>>)] = x /\ <<x, y>>[Len(<<x, y>>)] = y
        OBVIOUS
      <3> QED
        BY <2>2, <3>1
    <2> QED
      BY <1>0, <2>1, <2>2, <2>3 DEF InLoop, Ends
  <1>3. CASE Push
    <2>1. /\ pump' = Append(pump, Head(rlOut)) /\ rlOut' = Tail(rlOut) /\ activeGen' = activeGen
          /\ rlPc' = IF Tail(rlOut) = << >> THEN "scan" ELSE "push"
      BY <1>3 DEF Push, Watched, queryState
    <2>2. CASE Tail(rlOut) = << >>
      <3>0. Len(Tail(rlOut)) = Len(rlOut) - 1 /\ Len(<< >>) = 0 /\ Head(rlOut) = rlOut[1]
        BY <1>0
      <3>1. Len(rlOut) = 1 /\ Head(rlOut) = rlOut[1]
        <4>1. Len(Tail(rlOut)) = 0
          BY <2>2, <3>0, Zenon
        <4>2. Len(rlOut) \in Nat
          BY <1>0
        <4>3. \A n \in Nat : n - 1 = 0 => n = 1
          OBVIOUS
        <4>4. Len(rlOut) = 1
          BY <3>0, <4>1, <4>2, <4>3, Zenon
        <4> QED
          BY <3>0, <4>4
      <3>2. pump \in Seq(Router!Stamped) /\ DOMAIN pump' = 1..(Len(pump) + 1) /\ Len(pump) \in Nat
            /\ pump'[Len(pump) + 1] = Head(rlOut)
        BY <1>0, <2>1, <3>1 DEF SessionTypes, PumpTypes
      <3>3. Passed(g)'
        <4>1. << >> \in Seq(NotOf(g))
          BY OwnKinds
        <4> QED
          BY <1>0, <2>1, <2>2, <4>1 DEF Passed, NotOf
      <3>4. InPump(g)'
        BY <1>0, <3>1, <3>2, <3>3 DEF InPump, Ends
      <3> QED
        BY <3>4 DEF AfterLoop
    <2>3. CASE Tail(rlOut) # << >>
      <3>1. Tail(rlOut)[Len(Tail(rlOut))] = rlOut[Len(rlOut)]
        BY <1>0, <2>3
      <3> QED
        BY <1>0, <2>1, <2>3, <3>1 DEF InLoop, Ends
    <2> QED
      BY <2>2, <2>3
  <1>4. CASE DeliverExit
    <2>1. /\ rlPc = "exit" /\ rlOut' = << >> /\ UNCHANGED <<pump, pumpPc, pumpEv, activeGen>>
          /\ Len(rlOut) = 1 /\ pumpPc = "done" /\ pump \in Seq(Behind(g))
      BY <1>4 DEF DeliverExit, Stopped, Exiting, Watched, queryState
    <2>2. Router!RouteStamped(rlOut[1]) /\ rlOut[1].gen = g
      <3>1. routed
        BY DEF Watched, EndInv, RoutedFirst
      <3> QED
        BY <1>0, <1>4, <2>1, <3>1 DEF DeliverExit, Ends
    <2>3. \/ evicting' = <<rlOut[1]>>
          \/ evicting' = << >> /\ mailbox'[g] = Append(mailbox[g], rlOut[1])
      BY <2>2, RouteOpen DEF Watched, SessionTypes
    <2>4. Emptied(g)'
      <3>1. << >> \in Seq(NotOf(g))
        BY OwnKinds
      <3> QED
        BY <1>0, <2>1, <3>1 DEF Emptied, Drained, Passed, NotOf, Behind
    <2>5. CASE evicting' = <<rlOut[1]>>
      <3>1. evicting' # << >> /\ evicting'[1] = rlOut[1]
        BY <1>0, <2>5, SequenceTypes
      <3>2. InEvict(g)'
        BY <1>0, <2>1, <2>4, <3>1 DEF InEvict, Ends
      <3> QED
        BY <3>2 DEF AfterLoop
    <2>6. CASE evicting' = << >> /\ mailbox'[g] = Append(mailbox[g], rlOut[1])
      <3>1. mailbox[g] \in Seq(Router!Stamped)
        BY RouterFacts DEF SessionTypes, RouterTypes, Router!RouterTypeOK
      <3>2. \E i \in DOMAIN mailbox'[g] : Ends(mailbox'[g][i], g)
        BY <1>0, <2>1, <2>6, <3>1, LastTaken
      <3>3. InMail(g)'
        BY <2>4, <2>6, <3>2 DEF InMail, Ends
      <3> QED
        BY <3>3 DEF AfterLoop
    <2> QED
      BY <2>3, <2>5, <2>6
  <1>5. TrackState \/ ObserveTerminal \/ Push \/ DeliverExit
    BY <1>0 DEF ReadLoop, ReadEcho, ReadInit, ReadTool, ReadHeldResult, StampHeld, ReadResult, Reads,
       ReadApiError, ClearGen, WaitProcess, ClosePump, StampExit, CheckRouted, Shutdown, Finish
  <1> QED
    BY <1>1, <1>2, <1>3, <1>4, <1>5

\* What it enqueues after the terminal event is for no handle, or for another.
LEMMA LoopKeepsWay ==
  ASSUME Settled, Stopped, ReadLoop, NEW g \in Queries, Watched(g), AfterLoop(g)
  PROVE  AfterLoop(g)'
  <1> USE DEF Settled
  <1>0. Passed(g) /\ activeGen # g /\ rlOut \in Seq(NotOf(g)) /\ g # 0 /\ handle[g] = "open"
    BY AfterPasses, RouterFacts DEF Passed, Watched
  <1>1. UNCHANGED <<pumpPc, pumpEv>> /\ activeGen' \in {activeGen, 0}
    BY DEF ReadLoop, ReadEcho, ReadInit, ReadTool, ReadHeldResult, StampHeld, ReadResult,
       ReadApiError, ClearGen, TrackState, ObserveTerminal, Push, WaitProcess, ClosePump,
       StampExit, DeliverExit, CheckRouted, Shutdown, Finish, StampTerminal,
       pumpState, queryState
  <1>2. Passed(g)'
    <2>1. pump \in Seq(Router!Stamped) /\ NotOf(g) \subseteq Router!Stamped
      BY DEF SessionTypes, PumpTypes, NotOf
    <2>2. Stamps(NotOf(g)) /\ HeldIsLast
      BY <1>0, StampsOthers DEF OwnInv
    <2>3. rlOut' \in Seq(NotOf(g))
      BY <1>0, <2>1, <2>2, LoopStamps
    <2> QED
      BY <1>0, <1>1, <2>3 DEF Passed, NotOf
  <1>3. pump' = pump \/ \E sev \in Behind(g) : pump' = Append(pump, sev)
    <2>1. CASE Push
      <3>1. rlOut # << >>
        BY <2>1 DEF Push, SessionTypes, LoopTypes
      <3>2. Head(rlOut) \in NotOf(g)
        BY <1>0, <3>1, HeadTypes
      <3>3. Head(rlOut) \in Behind(g)
        BY <3>2 DEF NotOf, Behind
      <3> QED
        BY <2>1, <3>3 DEF Push
    <2>2. CASE ~Push
      BY <2>2 DEF ReadLoop, ReadEcho, ReadInit, ReadTool, ReadHeldResult, StampHeld, ReadResult,
         ReadApiError, ClearGen, TrackState, ObserveTerminal, WaitProcess, ClosePump,
         StampExit, DeliverExit, CheckRouted, Shutdown, Finish, StampTerminal, pumpState
    <2> QED
      BY <2>1, <2>2
  <1>4. UNCHANGED <<mailbox, evicting>>
    <2>1. CASE DeliverExit
      <3>1. rlOut[1] \in NotOf(g)
        BY <1>0, <2>1, HeadTypes DEF DeliverExit, SessionTypes, LoopTypes
      <3>2. rlOut[1].gen # g
        BY <3>1 DEF NotOf
      <3>3. UNCHANGED routerState \/ Router!RouteStamped(rlOut[1])
        BY <2>1 DEF DeliverExit
      <3>4. RouterTypes
        BY DEF SessionTypes
      <3>5. Router!RouteStamped(rlOut[1]) => UNCHANGED <<mailbox, evicting>>
        BY <1>0, <3>2, <3>4, RouteOpen
      <3> QED
        BY <3>3, <3>5 DEF routerState
    <2>2. CASE ~DeliverExit
      BY <2>2 DEF ReadLoop, ReadEcho, ReadInit, ReadTool, ReadHeldResult, StampHeld, ReadResult,
         ReadApiError, ClearGen, TrackState, ObserveTerminal, Push, WaitProcess, ClosePump,
         StampExit, CheckRouted, Shutdown, Finish, StampTerminal, routerState, Router!ShutdownRouter
    <2> QED
      BY <2>1, <2>2
  <1>5. InMail(g) => \E i \in DOMAIN mailbox'[g] : Ends(mailbox'[g][i], g)
    BY <1>4 DEF InMail
  <1> QED
    BY <1>1, <1>2, <1>3, <1>4, <1>5, WayFrame

\* What another goroutine than readLoop and the pump leaves on its way.
LEMMA StillOnItsWay ==
  ASSUME SessionTypes, NEW g \in Queries, OnItsWay(g),
         UNCHANGED <<activeGen, rlPc, rlOut, pumpPc, pumpEv, evicting>>,
         pump' = pump \/ \E sev \in Behind(g) : pump' = Append(pump, sev),
         InMail(g) => \E i \in DOMAIN mailbox'[g] : Ends(mailbox'[g][i], g)
  PROVE  OnItsWay(g)'
  <1>1. CASE Asked(g)
    BY <1>1 DEF OnItsWay, Asked, Ends
  <1>2. CASE InLoop(g)
    BY <1>2 DEF OnItsWay, InLoop, Ends
  <1>3. CASE AfterLoop(g)
    <2>1. Passed(g)'
      BY <1>3, AfterPasses DEF Passed, NotOf
    <2> QED
      BY <1>3, <2>1, WayFrame DEF OnItsWay
  <1> QED
    BY <1>1, <1>2, <1>3 DEF OnItsWay

\* A call that keeps the handle of g open sends nothing but the barrier.
LEMMA CallKeepsWay ==
  ASSUME Settled, SessionTypes', Alone, Sent, NEW c \in Callers, CallStep(c),
         NEW g \in Queries, Watched(g), handle'[g] = "open", OnItsWay(g)
  PROVE  OnItsWay(g)'
  <1> USE DEF Settled
  <1>0. ~Holding(call[c])
    BY DEF Alone, Watched
  <1>1. UNCHANGED <<rlPc, rlOut, pumpPc, pumpEv, mailbox, evicting>>
    BY DEF CallStep, EnableRouting, CallStamp, CallSend, PrepareQuery, ValidateSendable, CountGen,
       ArmHandle, StoreGen, MarkQuery, WriteOk, WriteFails, FailGen, FailState, FailDetach,
       loopState, pumpState, routerState, Router!Arm, Router!Detach
  <1>2. activeGen' = activeGen
    <2>1. ~StoreGen(c) /\ ~FailGen(c)
      BY <1>0 DEF StoreGen, FailGen, Holding
    <2> QED
      BY <2>1 DEF CallStep, EnableRouting, CallStamp, CallSend, PrepareQuery, ValidateSendable, CountGen,
         ArmHandle, MarkQuery, WriteOk, WriteFails, FailState, FailDetach, queryState
  <1>3. pump' = pump \/ \E sev \in Behind(g) : pump' = Append(pump, sev)
    <2>1. CASE CallSend(c)
      <3>1. call[c].out[1] \in Behind(g)
        BY <2>1, SendsBehind DEF CallSend, Watched
      <3> QED
        BY <2>1, <3>1 DEF CallSend, SendSelect
    <2>2. CASE ~CallSend(c)
      BY <2>2 DEF CallStep, EnableRouting, CallStamp, PrepareQuery, ValidateSendable, CountGen,
         ArmHandle, StoreGen, MarkQuery, WriteOk, WriteFails, FailGen, FailState, FailDetach, pumpState
    <2> QED
      BY <2>1, <2>2
  <1> QED
    BY <1>1, <1>2, <1>3, StillOnItsWay DEF InMail

\* A consumer takes from the mailbox; when it takes the terminal event of g it
\* waits no longer.
LEMMA ConsumeKeepsWay ==
  ASSUME Settled, Consume, NEW g \in Queries, Watched(g), answer'[g] = Waiting, OnItsWay(g)
  PROVE  OnItsWay(g)'
  <1> USE DEF Settled
  <1>1. UNCHANGED <<activeGen, rlPc, rlOut, pump, pumpPc, pumpEv, evicting>>
    BY DEF Consume, DrainOrphans, ReadEvents, WaitReceive, WaitClosed, Abandon, queryState, loopState,
       pumpState, routerState, Router!DrainOrphans, Router!Receive, Router!Detach
  <1>2. InMail(g) => \E i \in DOMAIN mailbox'[g] : Ends(mailbox'[g][i], g)
    <2>0. mailbox \in [Queries -> Seq(Router!Stamped)] /\ DOMAIN answer = Queries
      BY RouterFacts DEF SessionTypes, RouterTypes, Router!RouterTypeOK, OwnInv, OwnAnswers
    <2>1. CASE mailbox'[g] = mailbox[g]
      BY <2>1 DEF InMail
    <2>2. CASE WaitReceive(g)
      <3> SUFFICES ASSUME NEW i \in DOMAIN mailbox[g], Ends(mailbox[g][i], g)
                   PROVE  \E j \in DOMAIN mailbox'[g] : Ends(mailbox'[g][j], g)
        BY DEF InMail
      <3>1. mailbox[g] # << >> /\ mailbox'[g] = Tail(mailbox[g]) /\ mailbox[g] \in Seq(Router!Stamped)
        BY <2>0, <2>2 DEF WaitReceive, Router!Receive
      <3>2. CASE i = 1
        <4>1. Head(mailbox[g]) = mailbox[g][1]
          BY <3>1, HeadTypes
        <4>2. Head(mailbox[g]).ev.kind \in Terminal
          BY <3>2, <4>1 DEF Ends
        <4>3. answer'[g].by \in Terminal
          BY <2>0, <2>2, <4>2 DEF WaitReceive
        <4> QED
          BY <4>3 DEF Waiting, Terminal
      <3>3. CASE i # 1
        <4>1. i - 1 \in DOMAIN Tail(mailbox[g]) /\ Tail(mailbox[g])[i - 1] = mailbox[g][i]
          BY <3>1, <3>3
        <4> QED
          BY <3>1, <4>1
      <3> QED
        BY <3>2, <3>3
    <2>3. CASE ~WaitReceive(g)
      <3>1. mailbox'[g] = mailbox[g]
        <4>1. ASSUME NEW h \in Queries, WaitReceive(h)
              PROVE  mailbox'[g] = mailbox[g]
          BY <2>0, <2>3, <4>1 DEF WaitReceive, Router!Receive
        <4>2. CASE \A h \in Queries : ~WaitReceive(h)
          <5>1. mailbox' = mailbox
            BY <4>2 DEF Consume, DrainOrphans, ReadEvents, WaitClosed, Abandon, routerState,
               Router!DrainOrphans, Router!Detach
          <5> QED
            BY <5>1
        <4> QED
          BY <4>1, <4>2
      <3> QED
        BY <2>1, <3>1
    <2> QED
      BY <2>2, <2>3
  <1> QED
    BY <1>1, <1>2, StillOnItsWay

\* Who waits on an open handle has waited for it already, or has just been given it.
LEMMA WatchedBefore ==
  ASSUME Settled, Settled', [Next]_vars, NEW g \in Queries, Watched(g)'
  PROVE  \/ Watched(g)
         \/ \E c \in Callers : WriteOk(c) /\ call[c].gen = g
  <1> USE DEF Settled
  <1>0. /\ g \in given' /\ handle'[g] = "open" /\ answer'[g] = Waiting /\ ~ctxDone' /\ DOMAIN answer = Queries
        /\ PendingOwn
    BY DEF Watched, OwnInv, OwnAnswers, LateInv
  <1>1. ~ctxDone
    BY <1>0, NextOpens
  <1>2. given' = given \/ \E c \in Callers : WriteOk(c) /\ given' = given \cup {call[c].gen}
    <2>1. CASE \A c \in Callers : ~CallStep(c) /\ ~StartCall(c)
      BY <2>1, OthersLeaveCalls
    <2>2. ASSUME NEW c \in Callers, CallStep(c)
          PROVE  given' = given \/ (WriteOk(c) /\ given' = given \cup {call[c].gen})
      BY <2>2, AskedGens
    <2>3. ASSUME NEW c \in Callers, StartCall(c)
          PROVE  given' = given
      BY <2>3 DEF StartCall, userState
    <2> QED
      BY <2>1, <2>2, <2>3
  <1>3. CASE g \in given
    <2>1. handle[g] = "open"
      <3>1. ASSUME NEW c \in Callers, ArmHandle(c)
            PROVE  g # call[c].gen
        BY <1>0, <1>3, <3>1, ArmDetaches
      <3> QED
        BY <1>0, <3>1, NextOpens
    <2>2. answer[g] = Waiting
      <3>1. CASE Consume
        <4>1. ASSUME NEW h \in Queries, WaitReceive(h)
              PROVE  answer[g] = Waiting
          BY <1>0, <4>1 DEF WaitReceive, Waiting, Terminal
        <4>2. ASSUME NEW h \in Queries, WaitClosed(h)
              PROVE  answer[g] = Waiting
          BY <1>0, <4>2 DEF WaitClosed, Waiting
        <4>3. CASE DrainOrphans \/ ReadEvents \/ \E h \in Queries : Abandon(h)
          BY <1>0, <4>3 DEF DrainOrphans, ReadEvents, Abandon, userState
        <4> QED
          BY <3>1, <4>1, <4>2, <4>3 DEF Consume
      <3>2. CASE ReadLoop
        BY <1>0, <3>2 DEF ReadLoop, ReadEcho, ReadInit, ReadTool, ReadHeldResult, StampHeld, ReadResult,
           ReadApiError, ClearGen, TrackState, ObserveTerminal, Push, WaitProcess, ClosePump,
           StampExit, DeliverExit, CheckRouted, Shutdown, Finish, StampTerminal, userState
      <3>3. CASE Pump \/ Ticker
        BY <1>0, <3>3 DEF Pump, PumpTake, PumpRoute, PumpUnrouted, PumpSend, PumpBarrier, PumpFlush,
           PumpFlushed, PumpStop, Evict, Ticker, TickRead, TickStamp, TickSend, userState
      <3>4. ASSUME NEW c \in Callers, CallStep(c)
            PROVE  answer' = answer
        BY <3>4 DEF CallStep, EnableRouting, CallStamp, CallSend, PrepareQuery, ValidateSendable,
           CountGen, ArmHandle, StoreGen, MarkQuery, WriteOk, WriteFails, FailGen, FailState, FailDetach,
           userState
      <3>5. ASSUME NEW c \in Callers, StartCall(c)
            PROVE  answer' = answer
        BY <3>5 DEF StartCall, userState
      <3>6. CASE CLIStep \/ Cancel \/ UNCHANGED vars
        BY <1>0, <3>6 DEF CLIStep, Cancel, vars, userState
      <3> QED
        BY <1>0, <3>1, <3>2, <3>3, <3>4, <3>5, <3>6 DEF Next, Terminated
    <2> QED
      BY <1>1, <1>3, <2>1, <2>2 DEF Watched
  <1> QED
    BY <1>0, <1>2, <1>3

\* A query that was just written has the active generation, and readLoop is not
\* about to clear it.
LEMMA WrittenIsAsked ==
  ASSUME Settled, NEW c \in Callers, WriteOk(c), NEW g \in Queries, call[c].gen = g
  PROVE  OnItsWay(g)'
  <1> USE DEF Settled
  <1>1. call[c].pc = "write" /\ stdinOpen /\ UNCHANGED <<activeGen, rlPc, rlOut>>
    BY DEF WriteOk, queryState, loopState
  <1>2. activeGen = g
    BY <1>1 DEF LateInv, PendingOwn, Armed, Asking
  <1>3. rlPc # "clear"
    <2>1. ~InWindow /\ ~waited
      BY <1>1 DEF TurnInv, OneAtATime, InCall, Asking, EndInv, EndIsWaited
    <2> QED
      BY <2>1 DEF InWindow, LateInv, Gone
  <1> QED
    BY <1>1, <1>2, <1>3 DEF OnItsWay, Asked

LEMMA NextKeepsTracked ==
  ASSUME MaxTicks = 0, Settled, Settled', Alone, Sent, Stopped, Unrouted, Tracked, [Next]_vars
  PROVE  Tracked'
  <1> USE DEF Settled
  <1> SUFFICES ASSUME NEW g \in Queries, Watched(g)'
               PROVE  OnItsWay(g)'
    BY DEF Tracked
  <1>1. ASSUME NEW c \in Callers, WriteOk(c), call[c].gen = g
        PROVE  OnItsWay(g)'
    BY <1>1, WrittenIsAsked
  <1>2. CASE Watched(g)
    <2>0. OnItsWay(g) /\ handle'[g] = "open" /\ answer'[g] = Waiting
      BY <1>2 DEF Tracked, Watched
    <2>1. CASE ReadLoop
      BY <1>2, <2>0, <2>1, LoopKeepsAsked, LoopKeepsLast, LoopKeepsWay DEF OnItsWay
    <2>2. CASE Pump
      <3>1. CASE AfterLoop(g)
        BY <1>2, <2>2, <3>1, PumpKeepsWay DEF OnItsWay
      <3>2. CASE Asked(g) \/ InLoop(g)
        <4>1. UNCHANGED <<activeGen, rlPc, rlOut>>
          BY <2>2 DEF Pump, PumpTake, PumpRoute, PumpUnrouted, PumpSend, PumpBarrier, PumpFlush,
             PumpFlushed, PumpStop, Evict, queryState, loopState
        <4> QED
          BY <3>2, <4>1 DEF OnItsWay, Asked, InLoop, Ends
      <3> QED
        BY <2>0, <3>1, <3>2 DEF OnItsWay
    <2>3. ASSUME NEW c \in Callers, CallStep(c)
          PROVE  OnItsWay(g)'
      BY <1>2, <2>0, <2>3, CallKeepsWay
    <2>4. CASE Consume
      BY <1>2, <2>0, <2>4, ConsumeKeepsWay
    <2>5. ASSUME UNCHANGED <<activeGen, rlPc, rlOut, pump, pumpPc, pumpEv, mailbox, evicting>>
          PROVE  OnItsWay(g)'
      BY <2>0, <2>5, StillOnItsWay DEF InMail
    <2>6. CASE Ticker
      BY <2>6 DEF Sent, Ticker, TickRead, TickStamp, TickSend
    <2>7. ASSUME NEW c \in Callers, StartCall(c)
          PROVE  OnItsWay(g)'
      BY <2>5, <2>7 DEF StartCall, queryState, loopState, pumpState, routerState
    <2>8. CASE CLIStep \/ Cancel \/ UNCHANGED vars
      BY <2>5, <2>8 DEF CLIStep, Cancel, vars, queryState, loopState, pumpState, routerState
    <2> QED
      BY <2>1, <2>2, <2>3, <2>4, <2>6, <2>7, <2>8 DEF Next, Terminated
  <1> QED
    BY <1>1, <1>2, WatchedBefore

WaitInv == Alone /\ Sent /\ Stopped /\ Unrouted /\ Tracked

\* Nobody waits yet.
LEMMA InitWait ==
  ASSUME Init
  PROVE  WaitInv
  <1> USE DEF Init
  <1>1. \A c \in Callers : call[c] = NoCall /\ NoCall.pc = "idle"
    BY DEF NoCall
  <1>2. Alone /\ Sent
    BY <1>1 DEF Alone, Sent, Holding, Marked
  <1>3. << >> \in Seq(Unstamped)
    BY OwnKinds
  <1>4. Stopped /\ Unrouted
    BY <1>3 DEF Stopped, Exiting, Unrouted
  <1>5. Tracked
    BY DEF Tracked, Watched
  <1> QED
    BY <1>2, <1>4, <1>5 DEF WaitInv

\* The invariant of the session and of what waits on it.
LEMMA NextKeepsWait ==
  ASSUME Ops = {"QueryCtx"}, ErrorTurns = {}, MaxTicks = 0, Settled, WaitInv, [Next]_vars
  PROVE  Settled' /\ WaitInv'
  <1>1. Settled'
    BY NextSettles
  <1>2. Alone'
    BY <1>1, NextKeepsAlone DEF WaitInv
  <1>3. Sent'
    BY NextKeepsSent DEF WaitInv, Settled
  <1>4. Stopped'
    BY NextKeepsStopped DEF WaitInv
  <1>5. Unrouted'
    BY NextKeepsUnrouted DEF WaitInv
  <1>6. Tracked'
    BY <1>1, NextKeepsTracked DEF WaitInv
  <1> QED
    BY <1>1, <1>2, <1>3, <1>4, <1>5, <1>6 DEF WaitInv

\* If the session is asked by QueryCtx only, the CLI reports no API error and
\* nothing ticks, whoever waits on an open handle owns the active generation,
\* or the event that ends the wait is on its way and cannot be dropped: however
\* small the mailboxes, and whatever is abandoned, failed or flushed meanwhile.
THEOREM WaitingQueriesAreTracked ==
  ASSUME Ops = {"QueryCtx"}, ErrorTurns = {}, MaxTicks = 0
  PROVE  Spec => []WaitingQueryIsTracked
  <1> DEFINE IInv == Settled /\ WaitInv
  <1>1. Init => IInv
    BY InitSettled, InitWait
  <1>2. IInv /\ [Next]_vars => IInv'
    BY NextKeepsWait
  <1>3. IInv => WaitingQueryIsTracked
    <2> SUFFICES ASSUME Settled, WaitInv, NEW g \in given, handle[g] = "open", answer[g] = Waiting, ~ctxDone
                 PROVE  \/ activeGen = g
                        \/ \E seq \in {rlOut, pump, pumpEv, evicting, mailbox[g]} : TerminalFor(seq, g)
      BY DEF WaitingQueryIsTracked
    <2>0. g \in Queries
      BY DEF Settled, SessionTypes, UserTypes
    <2>1. OnItsWay(g)
      BY <2>0 DEF WaitInv, Tracked, Watched
    <2>2. CASE Asked(g)
      BY <2>2 DEF Asked
    <2>3. CASE InLoop(g)
      <3>1. Len(rlOut) \in DOMAIN rlOut
        BY <2>3, HeadTypes DEF InLoop, Settled, SessionTypes, LoopTypes
      <3>2. TerminalFor(rlOut, g)
        BY <2>3, <3>1 DEF InLoop, Ends, TerminalFor
      <3> QED
        BY <3>2
    <2>4. CASE InPump(g)
      <3>1. TerminalFor(pump, g)
        BY <2>4 DEF InPump, Ends, TerminalFor
      <3> QED
        BY <3>1
    <2>5. CASE InHand(g)
      <3>1. pumpEv \in Seq(Router!Stamped) /\ pumpEv # << >>
        BY <2>5 DEF InHand, Settled, SessionTypes, PumpTypes
      <3>2. 1 \in DOMAIN pumpEv
        BY <3>1
      <3>3. TerminalFor(pumpEv, g)
        BY <2>5, <3>2 DEF InHand, Ends, TerminalFor
      <3> QED
        BY <3>3
    <2>6. CASE InEvict(g)
      <3>1. evicting \in Seq(Router!Stamped) /\ evicting # << >>
        BY <2>6 DEF InEvict, Settled, SessionTypes, RouterTypes, Router!RouterTypeOK
      <3>2. 1 \in DOMAIN evicting
        BY <3>1
      <3>3. TerminalFor(evicting, g)
        BY <2>6, <3>2 DEF InEvict, Ends, TerminalFor
      <3> QED
        BY <3>3
    <2>7. CASE InMail(g)
      <3>1. TerminalFor(mailbox[g], g)
        BY <2>7 DEF InMail, Ends, TerminalFor
      <3> QED
        BY <3>1
    <2> QED
      BY <2>1, <2>2, <2>3, <2>4, <2>5, <2>6, <2>7 DEF OnItsWay, AfterLoop
  <1> QED
    BY <1>1, <1>2, <1>3, PTL DEF Spec

=============================================================================
