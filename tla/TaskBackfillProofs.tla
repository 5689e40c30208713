------------------------- MODULE TaskBackfillProofs -------------------------
(***************************************************************************)
(* Proofs about what the decoding loops keep from line to line:            *)
(*   - TaskBackfill, for any set of tasks: what is remembered of a task is *)
(*     what the CLI knows of it, so no event loses its identity or gets    *)
(*     that of another;                                                    *)
(*   - Decoding, for any number of turns and pieces of text: both loops    *)
(*     make the same of a line, and a result is of its own turn;           *)
(*   - Transcript, for any number of lines: what was polled is what was    *)
(*     whole in the file, by induction over the lines.                     *)
(***************************************************************************)
EXTENDS TaskBackfill, Decoding, Transcript, FiniteSetTheorems, SequenceTheorems,
        WellFoundedInduction, TLAPS

\* The backfiller follows the CLI, whatever lines of whatever tasks come between.
FollowsCLI ==
  /\ cliTask \in [BackgroundTask -> [type : TaskType \cup {""}, agents : Trees]]
  /\ byID = cliTask

BackfillInv == FollowsCLI /\ TasksKeepTheirIdentity

-----------------------------------------------------------------------------
LEMMA TreesAreOfEntries == \A tree \in Trees : \A r \in tree : r \in AgentEntry
  BY DEF Trees, AgentEntry, Entry

LEMMA OnlyMember ==
  ASSUME NEW S, IsFiniteSet(S), Cardinality(S) = 1, NEW x \in S
  PROVE  \A y \in S : y = x
  BY FS_Singleton

LEMMA SmallSetsAreFinite ==
  IsFiniteSet({"a", "b"}) /\ IsFiniteSet({0, 1, 2})
  <1>1. IsFiniteSet({"a"}) /\ IsFiniteSet({0})
    BY FS_Singleton
  <1>2. IsFiniteSet({"a"} \cup {"b"}) /\ IsFiniteSet(({0} \cup {1}) \cup {2})
    BY <1>1, FS_AddElement
  <1>3. {"a", "b"} = {"a"} \cup {"b"} /\ {0, 1, 2} = ({0} \cup {1}) \cup {2}
    OBVIOUS
  <1> QED
    BY <1>2, <1>3

\* What resolveWorkflowAgent finds for the name of an entry is that entry's, or nothing.
LEMMA ResolveIsRight ==
  ASSUME NEW tree \in Trees, NEW about \in tree
  PROVE  /\ Resolve(tree, about.name).agent # "" => Resolve(tree, about.name).agent = about.agent
         /\ Resolve(tree, about.name).id # 0 => Resolve(tree, about.name).id = about.id
  <1> DEFINE named == {r \in tree : r.name = about.name}
             agents == {r.agent : r \in named}
             ids == {r.id : r \in named}
  <1>1. about \in named /\ about.agent \in agents /\ about.id \in ids
    OBVIOUS
  <1>2. agents \subseteq {"a", "b"} /\ ids \subseteq {0, 1, 2}
    BY TreesAreOfEntries DEF AgentEntry
  <1>3. IsFiniteSet(agents) /\ IsFiniteSet(ids)
    BY <1>2, SmallSetsAreFinite, FS_Subset
  <1>4. Resolve(tree, about.name) =
          IF Cardinality(agents) # 1 THEN NoAgent
          ELSE [agent |-> (CHOOSE r \in named : TRUE).agent,
                id |-> IF Cardinality(ids) = 1 THEN CHOOSE i \in ids : TRUE ELSE 0]
    BY Zenon DEF Resolve
  <1>5. CASE Cardinality(agents) # 1
    <2>1. Resolve(tree, about.name) = NoAgent
      BY <1>4, <1>5, Zenon
    <2>2. NoAgent.agent = "" /\ NoAgent.id = 0
      BY DEF NoAgent
    <2> QED
      BY <2>1, <2>2, Zenon
  <1>6. CASE Cardinality(agents) = 1
    <2>1. (CHOOSE r \in named : TRUE) \in named
      BY <1>1
    <2>2. (CHOOSE r \in named : TRUE).agent = about.agent
      <3>1. (CHOOSE r \in named : TRUE).agent \in agents
        BY <2>1
      <3> HIDE DEF agents, named
      <3> QED
        BY <1>1, <1>3, <1>6, <3>1, OnlyMember
    <2>3. Cardinality(ids) = 1 => (CHOOSE i \in ids : TRUE) = about.id
      <3>1. (CHOOSE i \in ids : TRUE) \in ids
        BY <1>1
      <3> HIDE DEF ids
      <3> QED
        BY <1>1, <1>3, <3>1, OnlyMember
    <2> DEFINE a == (CHOOSE r \in named : TRUE).agent
               i == IF Cardinality(ids) = 1 THEN CHOOSE i \in ids : TRUE ELSE 0
    <2>4. Resolve(tree, about.name) = [agent |-> a, id |-> i]
      BY <1>4, <1>6, Zenon
    <2>5. a = about.agent /\ (i # 0 => i = about.id)
      BY <2>2, <2>3, Zenon
    <2> HIDE DEF a, i
    <2> QED
      BY <2>4, <2>5
  <1> QED
    BY <1>5, <1>6

-----------------------------------------------------------------------------
LEMMA BackfillInitInv == BackfillInit => BackfillInv
  <1> SUFFICES ASSUME BackfillInit PROVE BackfillInv
    OBVIOUS
  <1>1. NoTask \in [type : TaskType \cup {""}, agents : Trees]
    BY DEF NoTask, Trees
  <1>2. FollowsCLI
    BY <1>1 DEF BackfillInit, FollowsCLI
  <1>3. TasksKeepTheirIdentity
    BY DEF BackfillInit, TasksKeepTheirIdentity, NoAgent
  <1> QED
    BY <1>2, <1>3 DEF BackfillInv

\* What a line does, field by field.
LEMMA BackfillFields ==
  ASSUME NEW t \in BackgroundTask, NEW line, NEW about, Backfill(t, line, about)
  PROVE  /\ taskEvent'.type = Known(t, line).type
         /\ taskEvent'.truth = IF line.type # "" THEN line.type ELSE cliTask[t].type
         /\ line.sub = "task_progress" /\ Known(t, line).type = "workflow"
              => taskEvent'.agent = Resolve(Known(t, line).agents, about.name)
         /\ ~(line.sub = "task_progress" /\ Known(t, line).type = "workflow")
              => taskEvent'.agent = NoAgent
         /\ taskEvent'.about.agent = about.agent /\ taskEvent'.about.id = about.id
         /\ byID' = [byID EXCEPT ![t] = Remembered(t, line)]
  <1> DEFINE k == Known(t, line).type
             s == line.sub
             x == IF line.type # "" THEN line.type ELSE cliTask[t].type
             a == IF line.sub = "task_progress" /\ Known(t, line).type = "workflow"
                  THEN Resolve(Known(t, line).agents, about.name) ELSE NoAgent
             b == about.agent
             c == about.id
  <1>1. taskEvent' = [type |-> k, sub |-> s, truth |-> x, agent |-> a, about |-> [agent |-> b, id |-> c]]
        /\ byID' = [byID EXCEPT ![t] = Remembered(t, line)]
    BY Zenon DEF Backfill
  <1> HIDE DEF k, s, x, a, b, c
  <1>2. /\ taskEvent'.type = k /\ taskEvent'.truth = x /\ taskEvent'.agent = a
        /\ taskEvent'.about.agent = b /\ taskEvent'.about.id = c
    BY <1>1
  <1> QED
    BY <1>1, <1>2, Zenon DEF k, x, a, b, c

\* A line that teaches the backfiller what the CLI knows now keeps the two together.
LEMMA LineStep ==
  ASSUME BackfillInv, NEW t \in BackgroundTask, NEW line, NEW about, Backfill(t, line, about),
         NEW k \in [type : TaskType \cup {""}, agents : Trees],
         Known(t, line) = k,
         k.type = IF line.type # "" THEN line.type ELSE cliTask[t].type,
         line.sub = "task_progress" /\ k.type = "workflow" => about \in k.agents,
         cliTask' = [cliTask EXCEPT ![t] = Remembered(t, line)],
         Remembered(t, line) \in {k, NoTask}
  PROVE  BackfillInv'
  <1>1. NoTask \in [type : TaskType \cup {""}, agents : Trees]
    BY DEF NoTask, Trees
  <1> DEFINE workflow == line.sub = "task_progress" /\ Known(t, line).type = "workflow"
  <1>2. /\ taskEvent'.type = Known(t, line).type
        /\ taskEvent'.truth = IF line.type # "" THEN line.type ELSE cliTask[t].type
        /\ workflow => taskEvent'.agent = Resolve(Known(t, line).agents, about.name)
        /\ ~workflow => taskEvent'.agent = NoAgent
        /\ taskEvent'.about.agent = about.agent /\ taskEvent'.about.id = about.id
        /\ byID' = [byID EXCEPT ![t] = Remembered(t, line)]
    BY BackfillFields, Zenon
  <1>3. FollowsCLI'
    BY <1>1, <1>2 DEF BackfillInv, FollowsCLI
  <1>4. taskEvent'.type = taskEvent'.truth
    BY <1>2
  <1>5. CASE line.sub = "task_progress" /\ k.type = "workflow"
    <2>1. k.agents \in Trees /\ about \in k.agents
      BY <1>5
    <2>2. taskEvent'.agent = Resolve(k.agents, about.name)
          /\ taskEvent'.about.agent = about.agent /\ taskEvent'.about.id = about.id
      BY <1>2, <1>5
    <2>3. LET found == Resolve(k.agents, about.name)
          IN  /\ found.agent # "" => found.agent = about.agent
              /\ found.id # 0 => found.id = about.id
      BY <2>1, ResolveIsRight
    <2>4. TasksKeepTheirIdentity'
      BY <1>4, <2>2, <2>3 DEF TasksKeepTheirIdentity
    <2> QED
      BY <1>3, <2>4 DEF BackfillInv
  <1>6. CASE ~(line.sub = "task_progress" /\ k.type = "workflow")
    <2>1. taskEvent'.agent = NoAgent
      BY <1>2, <1>6
    <2>2. NoAgent.agent = "" /\ NoAgent.id = 0
      BY DEF NoAgent
    <2>3. TasksKeepTheirIdentity'
      BY <1>4, <2>1, <2>2 DEF TasksKeepTheirIdentity
    <2> QED
      BY <1>3, <2>3 DEF BackfillInv
  <1> QED
    BY <1>5, <1>6

LEMMA StartsStep ==
  ASSUME BackfillInv, NEW t \in BackgroundTask, TaskStarts(t)
  PROVE  BackfillInv'
  <1>1. PICK type \in TaskType :
          /\ cliTask' = [cliTask EXCEPT ![t] = [type |-> type, agents |-> {}]]
          /\ Backfill(t, [TaskLine("task_started", FALSE) EXCEPT !.type = type], Nobody)
    BY DEF TaskStarts
  <1> DEFINE line == [TaskLine("task_started", FALSE) EXCEPT !.type = type]
             k == [type |-> type, agents |-> {}]
  <1>2. line.type = type /\ line.sub = "task_started" /\ ~line.withTree /\ type # ""
    BY DEF TaskLine, TaskType
  <1>3. Backfill(t, line, Nobody) /\ cliTask' = [cliTask EXCEPT ![t] = k]
    BY <1>1
  <1>4. k \in [type : TaskType \cup {""}, agents : Trees] /\ k.type = type
    BY DEF Trees
  <1> HIDE DEF line
  <1>5. Known(t, line) = k
    BY <1>2, Zenon DEF Known
  <1> HIDE DEF k
  <1>6. Remembered(t, line) = k
    BY <1>2, <1>5, Zenon DEF Remembered
  <1>7. line.sub # "task_progress"
    BY <1>2
  <1> QED
    BY <1>2, <1>3, <1>4, <1>5, <1>6, <1>7, LineStep

LEMMA NewTree ==
  ASSUME NEW S, NEW task \in [type : S, agents : Trees], NEW tree
  PROVE  [task EXCEPT !.agents = tree] = [type |-> task.type, agents |-> tree]
  OBVIOUS

\* A tick brings the tree if the CLI's changed, and is about an entry of it.
LEMMA TickStep ==
  ASSUME BackfillInv, NEW t \in BackgroundTask, TaskTicks(t)
  PROVE  BackfillInv'
  <1>1. cliTask[t] \in [type : TaskType \cup {""}, agents : Trees] /\ byID[t] = cliTask[t]
    BY DEF BackfillInv, FollowsCLI
  <1>2. CASE /\ cliTask[t].type = "agent" /\ UNCHANGED cliTask
             /\ Backfill(t, TaskLine("task_progress", FALSE), Nobody)
    <2> DEFINE line == TaskLine("task_progress", FALSE)
    <2>1. line.type = "" /\ line.sub = "task_progress" /\ ~line.withTree
      BY DEF TaskLine
    <2>2. Backfill(t, line, Nobody)
      BY <1>2
    <2> HIDE DEF line
    <2>3. Known(t, line) = cliTask[t]
      BY <1>1, <2>1, Zenon DEF Known
    <2>4. Remembered(t, line) = cliTask[t]
      BY <2>1, <2>3 DEF Remembered
    <2>5. cliTask' = [cliTask EXCEPT ![t] = cliTask[t]]
      BY <1>2 DEF BackfillInv, FollowsCLI
    <2>6. cliTask[t].type # "workflow"
      BY <1>2
    <2> QED
      BY <1>1, <2>1, <2>2, <2>3, <2>4, <2>5, <2>6, LineStep
  <1>3. ASSUME NEW tree \in Trees, NEW about \in tree,
               cliTask[t].type = "workflow",
               cliTask' = [cliTask EXCEPT ![t].agents = tree],
               Backfill(t, [TaskLine("task_progress", FALSE)
                              EXCEPT !.withTree = tree # cliTask[t].agents, !.tree = tree], about)
        PROVE  BackfillInv'
    <2> DEFINE line == [TaskLine("task_progress", FALSE)
                          EXCEPT !.withTree = tree # cliTask[t].agents, !.tree = tree]
               k == [type |-> "workflow", agents |-> tree]
    <2>1. line.type = "" /\ line.sub = "task_progress" /\ line.tree = tree
          /\ line.withTree = (tree # cliTask[t].agents)
      BY DEF TaskLine
    <2>2. Backfill(t, line, about)
      BY <1>3
    <2> HIDE DEF line
    <2>3. k \in [type : TaskType \cup {""}, agents : Trees] /\ k.type = "workflow" /\ k.agents = tree
      BY DEF TaskType
    <2>4. k = [cliTask[t] EXCEPT !.agents = tree]
      <3>1. cliTask[t].type = "workflow"
        BY <1>3
      <3> QED
        BY <1>1, <3>1, NewTree
    <2>5. Known(t, line) = k
      <3>1. CASE tree # cliTask[t].agents
        <4>1. line.withTree
          BY <2>1, <3>1
        <4> QED
          BY <1>1, <1>3, <2>1, <2>4, <4>1, Zenon DEF Known
      <3>2. CASE tree = cliTask[t].agents
        <4>1. ~line.withTree
          BY <2>1, <3>2
        <4>2. k = cliTask[t]
          BY <1>1, <1>3, <3>2
        <4> HIDE DEF k
        <4> QED
          BY <1>1, <2>1, <4>1, <4>2, Zenon DEF Known
      <3> QED
        BY <3>1, <3>2
    <2>6. cliTask' = [cliTask EXCEPT ![t] = k]
      BY <1>3, <2>4 DEF BackfillInv, FollowsCLI
    <2> HIDE DEF k
    <2>7. Remembered(t, line) = k
      BY <2>1, <2>5 DEF Remembered
    <2>8. k.type = IF line.type # "" THEN line.type ELSE cliTask[t].type
      BY <1>3, <2>1, <2>3
    <2>9. about \in k.agents
      BY <2>3
    <2> QED
      BY <2>2, <2>3, <2>5, <2>6, <2>7, <2>8, <2>9, LineStep
  <1> QED
    BY <1>2, <1>3, Zenon DEF TaskTicks

\* A line with a status: the last one of a task makes both forget it.
LEMMA StatusStep ==
  ASSUME BackfillInv, NEW t \in BackgroundTask, TaskUpdated(t) \/ TaskNotifies(t)
  PROVE  BackfillInv'
  <1>1. cliTask[t] \in [type : TaskType \cup {""}, agents : Trees] /\ byID[t] = cliTask[t]
    BY DEF BackfillInv, FollowsCLI
  <1>2. PICK sub \in {"task_updated", "task_notification"}, terminal \in BOOLEAN :
          /\ Backfill(t, TaskLine(sub, terminal), Nobody)
          /\ sub = "task_updated" => UNCHANGED cliTask
          /\ sub = "task_notification" =>
               cliTask' = [cliTask EXCEPT ![t] = IF terminal THEN NoTask ELSE @]
    BY DEF TaskUpdated, TaskNotifies
  <1> DEFINE line == TaskLine(sub, terminal)
  <1>3. line.type = "" /\ line.sub = sub /\ line.terminal = terminal /\ ~line.withTree
    BY DEF TaskLine
  <1>4. Backfill(t, line, Nobody)
    BY <1>2
  <1> HIDE DEF line
  <1>5. Known(t, line) = cliTask[t]
    BY <1>1, <1>3, Zenon DEF Known
  <1>6. Remembered(t, line) = IF sub = "task_notification" /\ terminal THEN NoTask ELSE cliTask[t]
    BY <1>3, <1>5 DEF Remembered
  <1>7. cliTask' = [cliTask EXCEPT ![t] = Remembered(t, line)]
    BY <1>2, <1>6 DEF BackfillInv, FollowsCLI
  <1>8. line.sub # "task_progress" /\ Remembered(t, line) \in {cliTask[t], NoTask}
    BY <1>3, <1>6
  <1> QED
    BY <1>1, <1>3, <1>4, <1>5, <1>7, <1>8, LineStep

LEMMA BackfillStep == BackfillInv /\ [BackfillNext]_backfillVars => BackfillInv'
  <1> SUFFICES ASSUME BackfillInv, [BackfillNext]_backfillVars PROVE BackfillInv'
    OBVIOUS
  <1>1. CASE UNCHANGED backfillVars
    BY <1>1 DEF backfillVars, BackfillInv, FollowsCLI, TasksKeepTheirIdentity
  <1>2. CASE BackfillNext
    BY <1>2, StartsStep, TickStep, StatusStep DEF BackfillNext
  <1> QED
    BY <1>1, <1>2

LEMMA BackfillInvariant == BackfillSpec => []BackfillInv
  BY BackfillInitInv, BackfillStep, PTL DEF BackfillSpec

-----------------------------------------------------------------------------
\* What the backfiller remembers of every task is what the CLI knows of it: nothing of
\* a task that is over, and nothing of another's (taskTypeBackfiller.apply).
THEOREM BackfillFollowsCLI == BackfillSpec => []FollowsCLI
  BY BackfillInvariant, PTL DEF BackfillInv

\* Every event says of what type its task is, and a tick names its agent or none, for
\* any tasks whose lines come in any order (taskTypeBackfiller, resolveWorkflowAgent).
THEOREM BackfillKeepsIdentity == BackfillSpec => []TasksKeepTheirIdentity
  BY BackfillInvariant, PTL DEF BackfillInv

-----------------------------------------------------------------------------
(* The two decoding loops                                                  *)

\* What a decoder keeps, typed.
DecoderState ==
  [text : Seq(0..MaxDecodedTurns),
   snapshot : [turn : 0..MaxDecodedTurns, phase : {"none", "start", "final"}],
   windows : SUBSET {"bare", "1m"}, apiError : BOOLEAN, returned : BOOLEAN]

DecodingTypes ==
  /\ cliTurn \in [number : 0..MaxDecodedTurns, runs : BOOLEAN, own : BOOLEAN]
  /\ decoder \in [Decoder -> DecoderState]
  /\ outsideWindow \in {"unknown", "1m"}

\* As long as both read, they keep the same, but for what was said between turns.
KeepTheSame ==
  /\ ~decoder["ParseEvents"].returned =>
       /\ AfterStray(decoder["ParseEvents"].text, decoder["readLoop"].text)
       /\ decoder["ParseEvents"].snapshot = decoder["readLoop"].snapshot
       /\ decoder["ParseEvents"].windows = decoder["readLoop"].windows
       /\ ~decoder["readLoop"].apiError
  /\ ~decoder["ParseEvents"].apiError /\ ~decoder["readLoop"].returned

\* The pieces that d may hold while a turn runs.
Pieces(d) == IF d = "readLoop" THEN {cliTurn.number} ELSE {0, cliTurn.number}

\* While a turn runs, what is kept is of that turn, after what ParseEvents, which has no
\* init to start afresh at, took along from between the turns; that is all it keeps there.
KeptOfTurn(d) ==
  /\ cliTurn.runs =>
       /\ \A i \in DOMAIN decoder[d].text : decoder[d].text[i] \in Pieces(d)
       /\ decoder[d].snapshot.turn \in {0, cliTurn.number}
  /\ ~cliTurn.runs /\ d = "ParseEvents" =>
       /\ \A i \in DOMAIN decoder[d].text : decoder[d].text[i] = 0
       /\ decoder[d].snapshot = NoSnapshot

KeptIsOfTurn == \A d \in Decoder : ~decoder[d].returned => KeptOfTurn(d)

DecodingInv == DecodingTypes /\ KeepTheSame /\ KeptIsOfTurn

LineKinds == {"init", "result", "text", "stray", "stream", "apierror", "echo", "quiet", "other"}

-----------------------------------------------------------------------------
LEMMA FreshState ==
  ASSUME DecodingAssumption
  PROVE  FreshDecoder \in DecoderState
  <1>1. <<>> \in Seq(0..MaxDecodedTurns)
    OBVIOUS
  <1>2. NoSnapshot \in [turn : 0..MaxDecodedTurns, phase : {"none", "start", "final"}]
    BY DEF NoSnapshot, DecodingAssumption
  <1> QED
    BY <1>1, <1>2 DEF FreshDecoder, DecoderState

\* A line is read by both, or, once ParseEvents has returned, by readLoop alone.
LEMMA ReadersOf ==
  ASSUME NEW line, BothRead(line), NEW d \in Decoder
  PROVE  /\ ~decoder[d].returned => decoder'[d] = DecoderAfter(d, line) /\ delivered'[d] = EventsOf(d, line)
         /\ decoder[d].returned => decoder'[d] = decoder[d] /\ delivered'[d] = <<>>
  BY DEF BothRead

LEMMA ObservedType ==
  ASSUME DecodingTypes, NEW s \in [turn : 0..MaxDecodedTurns, phase : {"none", "start", "final"}],
         NEW line
  PROVE  /\ Observed(s, line) \in [turn : 0..MaxDecodedTurns, phase : {"none", "start", "final"}]
         /\ Observed(s, line).turn \in {s.turn, cliTurn.number, 0}
  BY DEF Observed, NoSnapshot, DecodingTypes

\* The events of a line: the same from both, but for echoes and snapshots.
LEMMA LineEvents ==
  ASSUME NEW d \in Decoder, NEW line,
         line.kind \in LineKinds
  PROVE  /\ line.kind = "text" => EventsOf(d, line) = <<[kind |-> "turn"], [kind |-> "text"]>>
         /\ line.kind = "stray" => EventsOf(d, line) = <<[kind |-> "text"]>>
         /\ line.kind = "stream" => EventsOf(d, line) = <<[kind |-> "stream"]>> \o SnapshotEvents(d, line)
         /\ line.kind = "apierror" => EventsOf(d, line) = <<SyntheticError(line.how, ~line.sub)>>
         /\ line.kind = "echo" => EventsOf(d, line) = IF d = "readLoop" /\ ~SurfaceReplays THEN <<>>
                                                      ELSE <<[kind |-> "echo"]>>
         /\ line.kind = "quiet" => EventsOf(d, line) = <<>>
         /\ line.kind = "result" =>
              EventsOf(d, line) = TurnErrors(d, line) \o <<[kind |-> "result", text |-> decoder[d].text,
                                                           snapshot |-> Finished(d, line),
                                                           unsolicited |-> Unsolicited(d, line)]>>
         /\ line.kind = "init" =>
              EventsOf(d, line) = <<[kind |-> "init", unsolicited |-> Unsolicited(d, line)]>>
         /\ line.kind = "other" => EventsOf(d, line) = <<[kind |-> "other"]>>
  BY DEF EventsOf

\* What a line leaves of a decoder, well typed.
Leaves(d, line, before, after) ==
  LET fatal == line.kind = "apierror" /\ ~line.sub
  IN /\ after \in DecoderState
     /\ line.kind = "result" \/ (line.kind = "init" /\ d = "readLoop") =>
                 after.text = <<>> /\ after.snapshot = NoSnapshot
     /\ line.kind = "init" /\ d # "readLoop" =>
                 after.text = before.text /\ after.snapshot = before.snapshot
     /\ line.kind = "text" => after.text = Append(before.text, cliTurn.number)
     /\ line.kind = "stray" => after.text = Append(before.text, 0)
     /\ line.kind = "stream" => after.snapshot = Observed(before.snapshot, line)
     /\ line.kind \notin {"init", "result", "text", "stray"} => after.text = before.text
     /\ line.kind \notin {"init", "result", "stream"} => after.snapshot = before.snapshot
     /\ after.windows = IF line.kind = "result" THEN before.windows \cup line.usage
                               ELSE before.windows
     /\ line.kind = "result" => ~after.apiError /\ (after.returned <=> d = "ParseEvents" /\ ~line.own)
     /\ fatal => (after.apiError <=> d = "readLoop") /\ (after.returned <=> d = "ParseEvents")
     /\ line.kind # "result" /\ ~fatal =>
                 after.apiError = before.apiError /\ after.returned = before.returned

LEMMA FieldsAfter ==
  ASSUME DecodingAssumption, DecodingTypes, NEW d \in Decoder, NEW line, line.kind \in LineKinds,
         line.kind = "result" => line.usage \subseteq {"bare", "1m"} /\ line.own \in BOOLEAN
  PROVE  Leaves(d, line, decoder[d], DecoderAfter(d, line))
  <1>0. decoder[d] \in DecoderState
    BY DEF DecodingTypes
  <1>a. cliTurn.number \in 0..MaxDecodedTurns /\ 0 \in 0..MaxDecodedTurns
    BY DEF DecodingTypes, DecodingAssumption
  <1>b. /\ <<>> \in Seq(0..MaxDecodedTurns)
        /\ NoSnapshot \in [turn : 0..MaxDecodedTurns, phase : {"none", "start", "final"}]
    BY <1>a DEF NoSnapshot
  <1>1. CASE line.kind = "init" /\ d = "readLoop"
    <2>1. DecoderAfter(d, line) = [decoder[d] EXCEPT !.text = <<>>, !.snapshot = NoSnapshot]
      BY <1>1 DEF DecoderAfter, ReadInitOf, NewTurn
    <2> QED
      BY <1>0, <1>b, <1>1, <2>1 DEF DecoderState, Leaves
  <1>2. CASE line.kind = "init" /\ d # "readLoop"
    <2>1. DecoderAfter(d, line) = decoder[d]
      BY <1>2 DEF DecoderAfter, ReadInitOf
    <2> QED
      BY <1>0, <1>2, <2>1 DEF Leaves
  <1>3. CASE line.kind = "result"
    <2>1. DecoderAfter(d, line) =
            [decoder[d] EXCEPT !.text = <<>>, !.snapshot = NoSnapshot,
                               !.windows = decoder[d].windows \cup line.usage, !.apiError = FALSE,
                               !.returned = (d = "ParseEvents" /\ ~line.own)]
      BY <1>0, <1>3 DEF DecoderAfter, ReadResultOf, NewTurn, DecoderState
    <2> DEFINE windows == decoder[d].windows \cup line.usage
               returned == (d = "ParseEvents" /\ ~line.own)
    <2>2. windows \in SUBSET {"bare", "1m"} /\ returned \in BOOLEAN
      BY <1>0, <1>3 DEF DecoderState
    <2>3. DecoderAfter(d, line) =
            [decoder[d] EXCEPT !.text = <<>>, !.snapshot = NoSnapshot, !.windows = windows,
                               !.apiError = FALSE, !.returned = returned]
      BY <2>1
    <2> HIDE DEF windows, returned
    <2>4. /\ DecoderAfter(d, line) \in DecoderState
          /\ DecoderAfter(d, line).text = <<>> /\ DecoderAfter(d, line).snapshot = NoSnapshot
          /\ DecoderAfter(d, line).windows = windows /\ DecoderAfter(d, line).apiError = FALSE
          /\ DecoderAfter(d, line).returned = returned
      BY <1>0, <1>b, <2>2, <2>3 DEF DecoderState
    <2> QED
      BY <1>3, <2>4 DEF Leaves, windows, returned
  <1>4. CASE line.kind = "text"
    <2>1. DecoderAfter(d, line) = [decoder[d] EXCEPT !.text = Append(decoder[d].text, cliTurn.number)]
      BY <1>4 DEF DecoderAfter
    <2>2. Append(decoder[d].text, cliTurn.number) \in Seq(0..MaxDecodedTurns)
      BY <1>0, <1>a DEF DecoderState
    <2> QED
      BY <1>0, <1>4, <2>1, <2>2 DEF DecoderState, Leaves
  <1>5. CASE line.kind = "stray"
    <2>1. DecoderAfter(d, line) = [decoder[d] EXCEPT !.text = Append(decoder[d].text, 0)]
      BY <1>5 DEF DecoderAfter
    <2>2. Append(decoder[d].text, 0) \in Seq(0..MaxDecodedTurns)
      BY <1>0, <1>a DEF DecoderState
    <2> QED
      BY <1>0, <1>5, <2>1, <2>2 DEF DecoderState, Leaves
  <1>6. CASE line.kind = "stream"
    <2>1. DecoderAfter(d, line) = [decoder[d] EXCEPT !.snapshot = Observed(decoder[d].snapshot, line)]
      BY <1>6 DEF DecoderAfter
    <2>2. Observed(decoder[d].snapshot, line)
            \in [turn : 0..MaxDecodedTurns, phase : {"none", "start", "final"}]
      BY <1>0, ObservedType DEF DecoderState
    <2> QED
      BY <1>0, <1>6, <2>1, <2>2 DEF DecoderState, Leaves
  <1>7. CASE line.kind = "apierror" /\ ~line.sub
    <2>1. DecoderAfter(d, line) =
            [decoder[d] EXCEPT !.apiError = (d = "readLoop"), !.returned = (d = "ParseEvents")]
      BY <1>7 DEF DecoderAfter
    <2> QED
      BY <1>0, <1>7, <2>1 DEF DecoderState, Leaves
  <1>8. CASE line.kind \in {"echo", "quiet", "other"} \/ (line.kind = "apierror" /\ line.sub)
    <2>1. DecoderAfter(d, line) = decoder[d]
      BY <1>8 DEF DecoderAfter
    <2> QED
      BY <1>0, <1>8, <2>1 DEF Leaves
  <1> QED
    BY <1>1, <1>2, <1>3, <1>4, <1>5, <1>6, <1>7, <1>8 DEF LineKinds

LEMMA BothReadTypes ==
  ASSUME DecodingAssumption, DecodingTypes, NEW line, line.kind \in LineKinds,
         line.kind = "result" => line.usage \subseteq {"bare", "1m"} /\ line.own \in BOOLEAN,
         BothRead(line)
  PROVE  decoder' \in [Decoder -> DecoderState]
  <1>1. \A d \in Decoder : decoder'[d] \in DecoderState
    <2> SUFFICES ASSUME NEW d \in Decoder PROVE decoder'[d] \in DecoderState
      OBVIOUS
    <2>1. Leaves(d, line, decoder[d], DecoderAfter(d, line))
      BY FieldsAfter
    <2>2. DecoderAfter(d, line) \in DecoderState
      BY <2>1 DEF Leaves
    <2> QED
      BY <2>2, ReadersOf DEF DecodingTypes
  <1>2. decoder' = [d \in Decoder |-> decoder'[d]]
    BY DEF BothRead
  <1> QED
    BY <1>1, <1>2

\* Pieces that both append leave the one text after what the other dropped.
LEMMA AfterStrayNone ==
  ASSUME NEW t \in Seq(0..MaxDecodedTurns), \A i \in DOMAIN t : t[i] = 0
  PROVE  AfterStray(t, <<>>)
  BY DEF AfterStray

LEMMA AfterStrayAppend ==
  ASSUME NEW p \in Seq(0..MaxDecodedTurns), NEW r \in Seq(0..MaxDecodedTurns), AfterStray(p, r),
         NEW n \in 0..MaxDecodedTurns
  PROVE  AfterStray(Append(p, n), Append(r, n))
  <1> DEFINE before == Len(p) - Len(r)
             pn == Append(p, n)
             rn == Append(r, n)
  <1>1. before \in Nat /\ Len(pn) = Len(p) + 1 /\ Len(rn) = Len(r) + 1
        /\ Len(p) \in Nat /\ Len(r) \in Nat
    BY DEF AfterStray
  <1>2. /\ \A i \in 1..Len(p) : pn[i] = p[i]
        /\ \A i \in 1..Len(r) : rn[i] = r[i]
        /\ pn[Len(p) + 1] = n /\ rn[Len(r) + 1] = n
    OBVIOUS
  <1>3. /\ \A i \in 1..before : p[i] = 0
        /\ \A i \in 1..Len(r) : p[before + i] = r[i]
    BY DEF AfterStray
  <1>4. /\ before + Len(r) = Len(p) /\ Len(pn) - Len(rn) = before
        /\ Len(pn) = Len(p) + 1 /\ Len(rn) = Len(r) + 1
    BY <1>1
  <1> HIDE DEF before, pn, rn
  <1>5. \A i \in 1..before : pn[i] = 0
    BY <1>1, <1>2, <1>3, <1>4
  <1>6. ASSUME NEW i \in 1..Len(rn)  PROVE pn[before + i] = rn[i]
    <2>1. CASE i \in 1..Len(r)
      BY <1>1, <1>2, <1>3, <1>4, <2>1
    <2>2. CASE i = Len(r) + 1
      BY <1>1, <1>2, <1>4, <2>2
    <2> QED
      BY <1>1, <2>1, <2>2
  <1>7. AfterStray(pn, rn)
    <2>1. Len(pn) - Len(rn) >= 0
      BY <1>1, <1>4
    <2>2. \A i \in 1..(Len(pn) - Len(rn)) : pn[i] = 0
      BY <1>4, <1>5
    <2>3. \A i \in 1..Len(rn) : pn[(Len(pn) - Len(rn)) + i] = rn[i]
      BY <1>4, <1>6
    <2> QED
      BY <2>1, <2>2, <2>3 DEF AfterStray
  <1> QED
    BY <1>7 DEF pn, rn

\* Both keep the same of every line, until ParseEvents returns.  At an init readLoop
\* starts afresh, and what ParseEvents keeps was said between turns.
LEMMA BothReadKeepsTheSame ==
  ASSUME DecodingAssumption, DecodingTypes, KeepTheSame, KeptIsOfTurn,
         NEW line, line.kind \in LineKinds,
         line.kind = "result" => line.usage \subseteq {"bare", "1m"} /\ line.own \in BOOLEAN,
         line.kind = "init" => ~cliTurn.runs, BothRead(line)
  PROVE  KeepTheSame'
  <1> DEFINE p == "ParseEvents"
             r == "readLoop"
  <1>0. p \in Decoder /\ r \in Decoder /\ p # r /\ ~decoder[r].returned /\ ~decoder[p].apiError
    BY DEF Decoder, KeepTheSame
  <1>f. Leaves(p, line, decoder[p], DecoderAfter(p, line)) /\ Leaves(r, line, decoder[r], DecoderAfter(r, line))
    BY <1>0, FieldsAfter
  <1>1. decoder'[r] = DecoderAfter(r, line)
    BY <1>0, ReadersOf
  <1>2. /\ decoder[p].returned => decoder'[p] = decoder[p]
        /\ ~decoder[p].returned => decoder'[p] = DecoderAfter(p, line)
    BY <1>0, ReadersOf
  <1>3. ~DecoderAfter(r, line).returned
    BY <1>0, <1>f DEF Leaves
  <1>4. ~DecoderAfter(p, line).apiError
    BY <1>0, <1>f DEF Leaves
  <1>5. ASSUME ~decoder[p].returned, ~DecoderAfter(p, line).returned
        PROVE  /\ AfterStray(DecoderAfter(p, line).text, DecoderAfter(r, line).text)
               /\ DecoderAfter(p, line).snapshot = DecoderAfter(r, line).snapshot
               /\ DecoderAfter(p, line).windows = DecoderAfter(r, line).windows
               /\ ~DecoderAfter(r, line).apiError
    <2>0. /\ AfterStray(decoder[p].text, decoder[r].text) /\ decoder[p].snapshot = decoder[r].snapshot
          /\ decoder[p].windows = decoder[r].windows /\ ~decoder[r].apiError
      BY <1>5 DEF KeepTheSame
    <2>t. /\ decoder[p].text \in Seq(0..MaxDecodedTurns) /\ decoder[r].text \in Seq(0..MaxDecodedTurns)
          /\ cliTurn.number \in 0..MaxDecodedTurns /\ 0 \in 0..MaxDecodedTurns
      BY <1>0 DEF DecodingTypes, DecoderState, DecodingAssumption
    <2>1. line.kind = "init" => /\ \A i \in DOMAIN decoder[p].text : decoder[p].text[i] = 0
                                /\ decoder[p].snapshot = NoSnapshot
      BY <1>0, <1>5 DEF KeptIsOfTurn, KeptOfTurn
    <2>2. ~(line.kind = "apierror" /\ ~line.sub)
      BY <1>0, <1>5, <1>f DEF Leaves
    <2>3. AfterStray(DecoderAfter(p, line).text, DecoderAfter(r, line).text)
      <3>1. CASE line.kind = "result"
        <4>1. DecoderAfter(p, line).text = <<>> /\ DecoderAfter(r, line).text = <<>>
          BY <1>f, <3>1 DEF Leaves
        <4> QED
          BY <4>1 DEF AfterStray
      <3>2. CASE line.kind = "init"
        <4>1. DecoderAfter(p, line).text = decoder[p].text /\ DecoderAfter(r, line).text = <<>>
          BY <1>0, <1>f, <3>2 DEF Leaves
        <4> QED
          BY <2>1, <2>t, <3>2, <4>1, AfterStrayNone
      <3>3. CASE line.kind \in {"text", "stray"}
        <4>1. PICK n \in 0..MaxDecodedTurns :
                 /\ DecoderAfter(p, line).text = Append(decoder[p].text, n)
                 /\ DecoderAfter(r, line).text = Append(decoder[r].text, n)
          BY <1>f, <2>t, <3>3 DEF Leaves
        <4> QED
          BY <2>0, <2>t, <4>1, AfterStrayAppend
      <3>4. CASE line.kind \notin {"init", "result", "text", "stray"}
        BY <1>f, <2>0, <3>4 DEF Leaves
      <3> QED
        BY <3>1, <3>2, <3>3, <3>4
    <2>4. DecoderAfter(p, line).snapshot = DecoderAfter(r, line).snapshot
      BY <1>0, <2>0, <2>1, <2>2, <1>f DEF Leaves
    <2>5. /\ DecoderAfter(p, line).windows = DecoderAfter(r, line).windows
          /\ ~DecoderAfter(r, line).apiError
      BY <1>0, <2>0, <2>2, <1>f DEF Leaves
    <2> QED
      BY <2>3, <2>4, <2>5
  <1>6. CASE decoder[p].returned
    BY <1>0, <1>1, <1>2, <1>3, <1>6 DEF KeepTheSame
  <1>7. CASE ~decoder[p].returned
    BY <1>1, <1>2, <1>3, <1>4, <1>5, <1>7 DEF KeepTheSame
  <1> QED
    BY <1>6, <1>7

-----------------------------------------------------------------------------
\* Every action but LearnWindow is a line, and says which turn it belongs to.
DecodesLine(line) ==
  /\ line.kind \in LineKinds
  /\ line.kind = "result" =>
       line.usage \subseteq {"bare", "1m"} /\ line.own \in BOOLEAN /\ (line.unsolicited => line.own)
  /\ BothRead(line)
  /\ UNCHANGED outsideWindow
  /\ line.kind = "init" =>
       ~cliTurn.runs /\ cliTurn'.runs /\ cliTurn' \in [number : 0..MaxDecodedTurns, runs : BOOLEAN, own : BOOLEAN]
  /\ line.kind = "result" =>
       /\ cliTurn.runs /\ ~cliTurn'.runs /\ cliTurn'.number = cliTurn.number
       /\ cliTurn' \in [number : 0..MaxDecodedTurns, runs : BOOLEAN, own : BOOLEAN]
  /\ line.kind \notin {"init", "result"} => cliTurn' = cliTurn
  /\ line.kind \in {"text", "stream", "apierror"} => cliTurn.runs
  /\ line.kind = "stray" => ~cliTurn.runs

LEMMA DecodingSteps ==
  ASSUME DecodingAssumption, DecodingTypes, DecodingNext
  PROVE  LearnWindow \/ \E line : DecodesLine(line)
  <1>1. CASE OpenTurn
    <2>1. PICK own \in BOOLEAN, flagged \in BOOLEAN :
            /\ ~cliTurn.runs /\ cliTurn.number < MaxDecodedTurns
            /\ cliTurn' = [number |-> cliTurn.number + 1, runs |-> TRUE, own |-> own]
            /\ BothRead([kind |-> "init", unsolicited |-> flagged]) /\ UNCHANGED outsideWindow
      BY <1>1 DEF OpenTurn
    <2>2. cliTurn' \in [number : 0..MaxDecodedTurns, runs : BOOLEAN, own : BOOLEAN] /\ cliTurn'.runs
      BY <2>1 DEF DecodingTypes, DecodingAssumption
    <2> DEFINE line == [kind |-> "init", unsolicited |-> flagged]
    <2>3. line.kind = "init" /\ BothRead(line)
      BY <2>1
    <2> HIDE DEF line
    <2>4. DecodesLine(line)
      BY <2>1, <2>2, <2>3 DEF DecodesLine, LineKinds
    <2> QED
      BY <2>4
  <1>2. CASE CloseTurn
    <2>1. PICK failure \in {"none", "maxturns", "api"}, how \in Failure, usage \in {{}, {"bare"}, {"1m"}},
               held \in {FALSE, cliTurn.own} :
            /\ cliTurn.runs /\ cliTurn' = [cliTurn EXCEPT !.runs = FALSE]
            /\ BothRead([kind |-> "result", own |-> cliTurn.own, failure |-> failure, how |-> how,
                         usage |-> usage, unsolicited |-> held])
            /\ UNCHANGED outsideWindow
      BY <1>2 DEF CloseTurn
    <2>2. /\ cliTurn' \in [number : 0..MaxDecodedTurns, runs : BOOLEAN, own : BOOLEAN]
          /\ ~cliTurn'.runs /\ cliTurn'.number = cliTurn.number /\ cliTurn.own \in BOOLEAN
      BY <2>1 DEF DecodingTypes
    <2> DEFINE line == [kind |-> "result", own |-> cliTurn.own, failure |-> failure, how |-> how,
                        usage |-> usage, unsolicited |-> held]
    <2>3. /\ line.kind = "result" /\ BothRead(line) /\ line.own = cliTurn.own /\ line.usage = usage
          /\ line.unsolicited => line.own
      BY <2>1
    <2>u. usage \subseteq {"bare", "1m"}
      BY <2>1
    <2> HIDE DEF line
    <2>4. DecodesLine(line)
      BY <2>1, <2>2, <2>3, <2>u DEF DecodesLine, LineKinds
    <2> QED
      BY <2>4
  <1>3. CASE WriteText
    <2> DEFINE line == [kind |-> "text"]
    <2>1. line.kind = "text" /\ BothRead(line) /\ cliTurn.runs /\ UNCHANGED <<cliTurn, outsideWindow>>
      BY <1>3 DEF WriteText
    <2> HIDE DEF line
    <2>2. DecodesLine(line)
      BY <2>1 DEF DecodesLine, LineKinds
    <2> QED
      BY <2>2
  <1>4. CASE WriteStray
    <2> DEFINE line == [kind |-> "stray"]
    <2>1. /\ line.kind = "stray" /\ BothRead(line) /\ ~cliTurn.runs
          /\ UNCHANGED <<cliTurn, outsideWindow>>
      BY <1>4 DEF WriteStray
    <2> HIDE DEF line
    <2>2. DecodesLine(line)
      BY <2>1 DEF DecodesLine, LineKinds
    <2> QED
      BY <2>2
  <1>5. CASE WriteStreamEvent
    <2>1. PICK phase \in {"start", "delta"} :
            /\ cliTurn.runs /\ BothRead([kind |-> "stream", phase |-> phase])
            /\ UNCHANGED <<cliTurn, outsideWindow>>
      BY <1>5 DEF WriteStreamEvent
    <2> DEFINE line == [kind |-> "stream", phase |-> phase]
    <2>2. line.kind = "stream" /\ BothRead(line)
      BY <2>1
    <2> HIDE DEF line
    <2>3. DecodesLine(line)
      BY <2>1, <2>2 DEF DecodesLine, LineKinds
    <2> QED
      BY <2>3
  <1>6. CASE WriteAPIError
    <2>1. PICK sub \in BOOLEAN, how \in Failure :
            /\ cliTurn.runs /\ BothRead([kind |-> "apierror", sub |-> sub, how |-> how])
            /\ UNCHANGED <<cliTurn, outsideWindow>>
      BY <1>6 DEF WriteAPIError
    <2> DEFINE line == [kind |-> "apierror", sub |-> sub, how |-> how]
    <2>2. line.kind = "apierror" /\ BothRead(line)
      BY <2>1
    <2> HIDE DEF line
    <2>3. DecodesLine(line)
      BY <2>1, <2>2 DEF DecodesLine, LineKinds
    <2> QED
      BY <2>3
  <1>7. CASE WriteOther
    <2>1. PICK kind \in {"echo", "quiet", "other"} :
            BothRead([kind |-> kind]) /\ UNCHANGED <<cliTurn, outsideWindow>>
      BY <1>7 DEF WriteOther
    <2> DEFINE line == [kind |-> kind]
    <2>2. line.kind = kind /\ BothRead(line)
      BY <2>1
    <2> HIDE DEF line
    <2>3. DecodesLine(line)
      BY <2>1, <2>2 DEF DecodesLine, LineKinds
    <2> QED
      BY <2>3
  <1> QED
    BY <1>1, <1>2, <1>3, <1>4, <1>5, <1>6, <1>7 DEF DecodingNext

\* What is kept stays of its turn.
LEMMA LineKeepsTurns ==
  ASSUME DecodingAssumption, DecodingInv, NEW line, DecodesLine(line), NEW d \in Decoder,
         ~decoder'[d].returned
  PROVE  KeptOfTurn(d)'
  <1>1. ~decoder[d].returned /\ decoder'[d] = DecoderAfter(d, line)
    BY ReadersOf DEF DecodesLine
  <1>2. Leaves(d, line, decoder[d], DecoderAfter(d, line))
    BY FieldsAfter DEF DecodesLine, DecodingInv
  <1>3. KeptOfTurn(d)
    BY <1>1 DEF DecodingInv, KeptIsOfTurn
  <1>4. decoder[d] \in DecoderState
    BY DEF DecodingInv, DecodingTypes
  <1>5. cliTurn.number \in 0..MaxDecodedTurns /\ NoSnapshot.turn = 0
    BY DEF DecodingInv, DecodingTypes, NoSnapshot
  <1>a. DOMAIN decoder[d].text = 1..Len(decoder[d].text) /\ Len(decoder[d].text) \in Nat
    BY <1>4 DEF DecoderState
  <1>b. 0 \in Pieces("ParseEvents") /\ cliTurn.number \in Pieces(d) /\ (d # "readLoop" => d = "ParseEvents")
    BY DEF Pieces, Decoder
  <1>6. CASE line.kind = "result" \/ (line.kind = "init" /\ d = "readLoop")
    <2>1. decoder'[d].text = <<>> /\ decoder'[d].snapshot = NoSnapshot
      BY <1>1, <1>2, <1>6 DEF Leaves
    <2>2. DOMAIN decoder'[d].text = {}
      BY <2>1
    <2> QED
      BY <1>5, <1>6, <2>1, <2>2 DEF KeptOfTurn, DecodesLine
  <1>i. CASE line.kind = "init" /\ d # "readLoop"
    <2>1. d = "ParseEvents" /\ ~cliTurn.runs /\ cliTurn'.runs
      BY <1>b, <1>i DEF DecodesLine
    <2>2. decoder'[d].text = decoder[d].text /\ decoder'[d].snapshot = decoder[d].snapshot
      BY <1>1, <1>2, <1>i DEF Leaves
    <2>3. /\ \A i \in DOMAIN decoder[d].text : decoder[d].text[i] = 0
          /\ decoder[d].snapshot = NoSnapshot
      BY <1>3, <2>1 DEF KeptOfTurn
    <2>4. 0 \in Pieces(d)'
      BY <2>1 DEF Pieces
    <2> QED
      BY <1>5, <2>1, <2>2, <2>3, <2>4 DEF KeptOfTurn
  <1>7. CASE line.kind = "text"
    <2>0. cliTurn.runs /\ cliTurn' = cliTurn
      BY <1>7 DEF DecodesLine
    <2>1. /\ decoder'[d].text = Append(decoder[d].text, cliTurn.number)
          /\ decoder'[d].snapshot = decoder[d].snapshot
      BY <1>1, <1>2, <1>7 DEF Leaves
    <2>p. \A i \in DOMAIN decoder[d].text : decoder[d].text[i] \in Pieces(d)
      BY <1>3, <2>0 DEF KeptOfTurn
    <2>2. \A i \in DOMAIN decoder'[d].text : decoder'[d].text[i] \in Pieces(d)
      <3> DEFINE old == decoder[d].text
      <3>1. old \in Seq(0..MaxDecodedTurns) /\ cliTurn.number \in 0..MaxDecodedTurns
        BY <1>4, <1>5 DEF DecoderState
      <3> HIDE DEF old
      <3>2. \A i \in DOMAIN Append(old, cliTurn.number) :
               Append(old, cliTurn.number)[i] \in {cliTurn.number} \cup {old[k] : k \in DOMAIN old}
        BY <3>1
      <3> QED
        BY <1>b, <2>1, <2>p, <3>2 DEF old
    <2>3. Pieces(d)' = Pieces(d)
      BY <2>0 DEF Pieces
    <2> QED
      BY <1>3, <2>0, <2>1, <2>2, <2>3 DEF KeptOfTurn
  <1>8. CASE line.kind = "stray"
    <2>0. ~cliTurn.runs /\ cliTurn' = cliTurn
      BY <1>8 DEF DecodesLine
    <2>1. /\ decoder'[d].text = Append(decoder[d].text, 0)
          /\ decoder'[d].snapshot = decoder[d].snapshot
      BY <1>1, <1>2, <1>8 DEF Leaves
    <2>2. (\A i \in DOMAIN decoder[d].text : decoder[d].text[i] = 0)
             => \A i \in DOMAIN decoder'[d].text : decoder'[d].text[i] = 0
      BY <1>4, <2>1 DEF DecoderState
    <2> QED
      BY <1>3, <2>0, <2>1, <2>2 DEF KeptOfTurn
  <1>9. CASE line.kind = "stream"
    <2>1. /\ decoder'[d].text = decoder[d].text
          /\ decoder'[d].snapshot = Observed(decoder[d].snapshot, line)
      BY <1>1, <1>2, <1>9 DEF Leaves
    <2>2. Observed(decoder[d].snapshot, line).turn \in {decoder[d].snapshot.turn, cliTurn.number, 0}
      BY <1>4, ObservedType DEF DecodingInv, DecoderState
    <2> QED
      BY <1>3, <1>9, <2>1, <2>2 DEF KeptOfTurn, Pieces, DecodesLine
  <1>10. CASE line.kind \in {"apierror", "echo", "quiet", "other"}
    <2>1. decoder'[d].text = decoder[d].text /\ decoder'[d].snapshot = decoder[d].snapshot
      BY <1>1, <1>2, <1>10 DEF Leaves
    <2> QED
      BY <1>3, <1>10, <2>1 DEF KeptOfTurn, Pieces, DecodesLine
  <1> QED
    BY <1>6, <1>i, <1>7, <1>8, <1>9, <1>10 DEF DecodesLine, LineKinds

LEMMA DecodingInvHolds == DecodingSpec => []DecodingInv
  <1> USE DecodingAssumption
  <1>1. DecodingInit => DecodingInv
    <2> SUFFICES ASSUME DecodingInit PROVE DecodingInv
      OBVIOUS
    <2>1. \A d \in Decoder : decoder[d] = FreshDecoder
      BY DEF DecodingInit
    <2>2. /\ FreshDecoder.text = <<>> /\ FreshDecoder.snapshot = NoSnapshot
          /\ FreshDecoder.apiError = FALSE /\ FreshDecoder.returned = FALSE
      BY DEF FreshDecoder
    <2>3. DecodingTypes
      BY FreshState DEF DecodingInit, DecodingTypes, DecodingAssumption
    <2>a. AfterStray(<<>>, <<>>)
      BY DEF AfterStray
    <2>4. KeepTheSame
      BY <2>1, <2>2, <2>a DEF KeepTheSame, Decoder
    <2>5. KeptIsOfTurn
      BY <2>1, <2>2 DEF KeptIsOfTurn, KeptOfTurn, DecodingInit
    <2> QED
      BY <2>3, <2>4, <2>5 DEF DecodingInv
  <1>2. DecodingInv /\ [DecodingNext]_decodeVars => DecodingInv'
    <2> SUFFICES ASSUME DecodingInv, [DecodingNext]_decodeVars PROVE DecodingInv'
      OBVIOUS
    <2>1. CASE UNCHANGED decodeVars
      BY <2>1 DEF decodeVars, DecodingInv, DecodingTypes, KeepTheSame, KeptIsOfTurn, KeptOfTurn, Pieces
    <2>2. CASE LearnWindow
      BY <2>2 DEF LearnWindow, DecodingInv, DecodingTypes, KeepTheSame, KeptIsOfTurn, KeptOfTurn, Pieces
    <2>3. ASSUME NEW line, DecodesLine(line) PROVE DecodingInv'
      <3>1. decoder' \in [Decoder -> DecoderState]
        BY <2>3, BothReadTypes DEF DecodesLine, DecodingInv
      <3>2. DecodingTypes'
        BY <2>3, <3>1 DEF DecodesLine, DecodingInv, DecodingTypes
      <3>3. KeepTheSame'
        BY <2>3, BothReadKeepsTheSame DEF DecodesLine, DecodingInv
      <3>4. KeptIsOfTurn'
        BY <2>3, LineKeepsTurns DEF KeptIsOfTurn
      <3> QED
        BY <3>2, <3>3, <3>4 DEF DecodingInv
    <2> QED
      BY <2>1, <2>2, <2>3, DecodingSteps DEF DecodingInv
  <1> QED
    BY <1>1, <1>2, PTL DEF DecodingSpec

-----------------------------------------------------------------------------
(* What they make of a line                                                *)

\* What stays of the events of a line without those that only one of them makes.
LEMMA CommonOfNone == Common(<<>>) = <<>>
  BY DEF Common

LEMMA CommonOfEcho ==
  ASSUME NEW f, f.kind = "echo"
  PROVE  Common(<<f>>) = <<>>
  <1>1. <<f>> # <<>> /\ Last(<<f>>) = f
    BY DEF Last
  <1>2. Front(<<f>>) = <<>>
    BY DEF Front
  <1> QED
    BY <1>1, <1>2 DEF Common

LEMMA CommonOfStream ==
  ASSUME NEW e, NEW f, e.kind = "stream", f.kind = "snapshot"
  PROVE  Common(<<e>>) = <<e>> /\ Common(<<e, f>>) = <<e>>
  <1>1. Common(<<e>>) = <<e>>
    BY DEF Common, Last
  <1>2. <<e, f>> # <<>> /\ Len(<<e, f>>) = 2
    OBVIOUS
  <1>3. Last(<<e, f>>) = f
    BY <1>2 DEF Last
  <1>4. SubSeq(<<e, f>>, 1, 2 - 1) = <<e>>
    <2> DEFINE S == {e, f}
               g == SubSeq(<<e, f>>, 1, 1)
    <2>1. \A i \in 1..1 : <<e, f>>[i] \in S
      OBVIOUS
    <2>2. g \in Seq(S) /\ Len(g) = 1 /\ g[1] = e
      BY <2>1, SubSeqProperties
    <2>3. <<e>> \in Seq(S) /\ Len(<<e>>) = 1 /\ <<e>>[1] = e
      OBVIOUS
    <2> HIDE DEF S, g
    <2>4. \A i \in 1..Len(g) : g[i] = <<e>>[i]
      BY <2>2, <2>3
    <2>5. g = <<e>>
      BY <2>2, <2>3, <2>4, SeqEqual
    <2> QED
      BY <2>5 DEF g
  <1>5. Front(<<e, f>>) = <<e>>
    BY <1>2, <1>4 DEF Front
  <1> QED
    BY <1>1, <1>2, <1>3, <1>5 DEF Common

LEMMA OneAndOne ==
  ASSUME NEW a, NEW b
  PROVE  <<a>> \o <<b>> = <<a, b>>
  <1> DEFINE S == {a, b}
             c == <<a>> \o <<b>>
  <1>1. <<a>> \in Seq(S) /\ <<b>> \in Seq(S) /\ <<a, b>> \in Seq(S)
    OBVIOUS
  <1>2. /\ Len(<<a>>) = 1 /\ <<a>>[1] = a /\ Len(<<b>>) = 1 /\ <<b>>[1] = b
        /\ Len(<<a, b>>) = 2 /\ <<a, b>>[1] = a /\ <<a, b>>[2] = b
    OBVIOUS
  <1>3. c \in Seq(S) /\ Len(c) = 2 /\ c[1] = a /\ c[2] = b
    BY <1>1, <1>2, ConcatProperties
  <1> HIDE DEF S, c
  <1>4. \A i \in 1..Len(c) : c[i] = <<a, b>>[i]
    BY <1>2, <1>3
  <1>5. c = <<a, b>>
    BY <1>1, <1>2, <1>3, <1>4, SeqEqual
  <1> QED
    BY <1>5 DEF c

\* An event that both make stays, alone or after another.
LEMMA CommonKeeps ==
  ASSUME NEW e, NEW f, f.kind \notin {"echo", "snapshot"}
  PROVE  Common(<<f>>) = <<f>> /\ Common(<<e, f>>) = <<e, f>>
  <1>1. Last(<<f>>) = f /\ Last(<<e, f>>) = f
    BY DEF Last
  <1> QED
    BY <1>1 DEF Common

\* The lists agree: event by event they say the same, and the first has no snapshot that
\* the second has not.
AllSaySame(p, r) == Len(p) = Len(r) /\ \A i \in 1..Len(p) : SaySame(p[i], r[i])
Agreed(p, r) ==
  /\ AllSaySame(Common(p), Common(r))
  /\ \A i \in DOMAIN p : p[i].kind = "snapshot" => p = r

LEMMA SaySameSelf ==
  ASSUME NEW e, e.kind # "result"
  PROVE  SaySame(e, e)
  BY DEF SaySame

LEMMA AgreedNone == Agreed(<<>>, <<>>)
  BY CommonOfNone DEF Agreed, AllSaySame

LEMMA AgreedOne ==
  ASSUME NEW a, NEW b, SaySame(a, b),
         a.kind \notin {"echo", "snapshot"}, b.kind \notin {"echo", "snapshot"}
  PROVE  Agreed(<<a>>, <<b>>)
  <1>1. Common(<<a>>) = <<a>> /\ Common(<<b>>) = <<b>>
    BY CommonKeeps
  <1>2. AllSaySame(<<a>>, <<b>>)
    BY DEF AllSaySame
  <1> QED
    BY <1>1, <1>2 DEF Agreed

LEMMA AgreedTwo ==
  ASSUME NEW e, NEW a, NEW b, SaySame(a, b), e.kind \notin {"result", "snapshot"},
         a.kind \notin {"echo", "snapshot"}, b.kind \notin {"echo", "snapshot"}
  PROVE  Agreed(<<e, a>>, <<e, b>>)
  <1>1. Common(<<e, a>>) = <<e, a>> /\ Common(<<e, b>>) = <<e, b>>
    BY CommonKeeps
  <1>2. SaySame(e, e)
    BY SaySameSelf
  <1>3. AllSaySame(<<e, a>>, <<e, b>>)
    BY <1>2 DEF AllSaySame
  <1> QED
    BY <1>1, <1>3 DEF Agreed

LEMMA AgreedEcho ==
  ASSUME NEW e, e.kind = "echo"
  PROVE  Agreed(<<e>>, <<>>) /\ Agreed(<<e>>, <<e>>)
  BY CommonOfNone, CommonOfEcho DEF Agreed, AllSaySame

LEMMA AgreedStream ==
  ASSUME NEW s, NEW snap, s.kind = "stream", snap.kind = "snapshot"
  PROVE  /\ Agreed(<<s>>, <<s>>) /\ Agreed(<<s>>, <<s, snap>>)
         /\ Agreed(<<s, snap>>, <<s, snap>>)
  <1>1. Common(<<s>>) = <<s>> /\ Common(<<s, snap>>) = <<s>>
    BY CommonOfStream
  <1>2. SaySame(s, s)
    BY SaySameSelf
  <1>3. AllSaySame(<<s>>, <<s>>)
    BY <1>2 DEF AllSaySame
  <1> QED
    BY <1>1, <1>3 DEF Agreed

\* A failure makes at most one event, and it is an error.
LEMMA ErrorsOnly ==
  ASSUME NEW d, NEW line
  PROVE  TurnErrors(d, line) = <<>> \/ \E class : TurnErrors(d, line) = <<ErrorOfClass(class, FALSE)>>
  <1>1. ResultErrors(line) = <<>> \/ \E class : ResultErrors(line) = <<ErrorOfClass(class, FALSE)>>
    BY DEF ResultErrors
  <1> QED
    BY <1>1 DEF TurnErrors

\* No event of a line is a result but the last of a result line.
LEMMA OnlyResultsAreResults ==
  ASSUME NEW d \in Decoder, NEW line, line.kind \in LineKinds,
         NEW i \in DOMAIN EventsOf(d, line), EventsOf(d, line)[i].kind = "result"
  PROVE  /\ line.kind = "result"
         /\ EventsOf(d, line)[i].text = decoder[d].text
         /\ EventsOf(d, line)[i].snapshot = Finished(d, line)
  <1> DEFINE result == [kind |-> "result", text |-> decoder[d].text, snapshot |-> Finished(d, line),
                        unsolicited |-> Unsolicited(d, line)]
  <1>1. CASE line.kind = "result"
    <2>1. EventsOf(d, line) = TurnErrors(d, line) \o <<result>>
      BY <1>1, LineEvents
    <2>2. result.kind = "result" /\ result.text = decoder[d].text /\ result.snapshot = Finished(d, line)
      OBVIOUS
    <2> HIDE DEF result
    <2>3. CASE TurnErrors(d, line) = <<>>
      <3>1. EventsOf(d, line) = <<result>>
        BY <2>1, <2>3
      <3> QED
        BY <1>1, <2>2, <3>1
    <2>4. ASSUME NEW class, TurnErrors(d, line) = <<ErrorOfClass(class, FALSE)>>
          PROVE  EventsOf(d, line)[i] = result
      <3> DEFINE e == ErrorOfClass(class, FALSE)
      <3>2. e.kind = "error"
        BY DEF ErrorOfClass
      <3>3. TurnErrors(d, line) = <<e>>
        BY <2>4
      <3> HIDE DEF e
      <3>1. EventsOf(d, line) = <<e, result>>
        BY <2>1, <3>3, OneAndOne
      <3> QED
        BY <3>1, <3>2
    <2> QED
      BY <1>1, <2>2, <2>3, <2>4, ErrorsOnly
  <1>2. CASE line.kind = "stream"
    <2>1. EventsOf(d, line) = <<[kind |-> "stream"]>> \o SnapshotEvents(d, line)
      BY <1>2, LineEvents
    <2>2. SnapshotEvents(d, line) = <<>> \/ \E now, window :
            SnapshotEvents(d, line) = <<[kind |-> "snapshot", measured |-> now, window |-> window]>>
      BY DEF SnapshotEvents
    <2>3. SnapshotEvents(d, line) = <<>> \/ \E snap :
            SnapshotEvents(d, line) = <<snap>> /\ snap.kind = "snapshot"
      BY <2>2
    <2>4. EventsOf(d, line) = <<[kind |-> "stream"]>> \/ \E snap :
            EventsOf(d, line) = <<[kind |-> "stream"], snap>> /\ snap.kind = "snapshot"
      BY <2>1, <2>3
    <2> QED
      BY <1>2, <2>4
  <1>3. CASE line.kind = "apierror"
    <2>1. SyntheticError(line.how, ~line.sub).kind = "error"
      BY DEF SyntheticError, ErrorOfClass
    <2>2. EventsOf(d, line) = <<SyntheticError(line.how, ~line.sub)>>
      BY <1>3, LineEvents
    <2> QED
      BY <2>1, <2>2
  <1>4. CASE line.kind \in {"text", "stray"}
    <2>1. EventsOf(d, line) = <<[kind |-> "turn"], [kind |-> "text"]>>
          \/ EventsOf(d, line) = <<[kind |-> "text"]>>
      BY <1>4, LineEvents
    <2> QED
      BY <2>1
  <1>5. CASE line.kind \in {"echo", "quiet"}
    <2>1. EventsOf(d, line) = <<>> \/ EventsOf(d, line) = <<[kind |-> "echo"]>>
      BY <1>5, LineEvents
    <2> QED
      BY <2>1
  <1>6. CASE line.kind = "other"
    <2>1. EventsOf(d, line) = <<[kind |-> "other"]>>
      BY <1>6, LineEvents
    <2> QED
      BY <2>1
  <1>7. CASE line.kind = "init"
    <2>1. EventsOf(d, line) = <<[kind |-> "init", unsolicited |-> Unsolicited(d, line)]>>
      BY <1>7, LineEvents
    <2> QED
      BY <2>1
  <1> QED
    BY <1>1, <1>2, <1>3, <1>4, <1>5, <1>6, <1>7 DEF LineKinds

\* Whoever learned a window only from QueryContextUsage delivers what the other does not.
LEMMA SnapshotsOf ==
  ASSUME DecodingTypes, KeepTheSame, ~decoder["ParseEvents"].returned, NEW line
  PROVE  \/ SnapshotEvents("ParseEvents", line) = SnapshotEvents("readLoop", line)
         \/ /\ SnapshotEvents("ParseEvents", line) = <<>>
            /\ \E snap : SnapshotEvents("readLoop", line) = <<snap>> /\ snap.kind = "snapshot"
  <1>1. /\ decoder["ParseEvents"].snapshot = decoder["readLoop"].snapshot
        /\ decoder["ParseEvents"].windows = decoder["readLoop"].windows
    BY DEF KeepTheSame
  <1> DEFINE now == Observed(decoder["ParseEvents"].snapshot, line)
             learned == WindowIn(decoder["ParseEvents"].windows)
             outside == WindowFor("readLoop")
  <1>2. WindowFor("ParseEvents") = learned /\ (learned # "unknown" => outside = learned)
    BY <1>1 DEF WindowFor
  <1>3. /\ SnapshotEvents("ParseEvents", line) =
             IF now = NoSnapshot \/ learned = "unknown" THEN <<>>
             ELSE <<[kind |-> "snapshot", measured |-> now, window |-> learned]>>
        /\ SnapshotEvents("readLoop", line) =
             IF now = NoSnapshot \/ outside = "unknown" THEN <<>>
             ELSE <<[kind |-> "snapshot", measured |-> now, window |-> outside]>>
    BY <1>1, <1>2 DEF SnapshotEvents
  <1> HIDE DEF now, learned, outside
  <1>4. [kind |-> "snapshot", measured |-> now, window |-> outside].kind = "snapshot"
    OBVIOUS
  <1> QED
    BY <1>2, <1>3, <1>4

\* The events of a result line: the errors, and results that say the same.
LEMMA ResultLineAgrees ==
  ASSUME DecodingTypes, KeepTheSame, ~decoder["ParseEvents"].returned,
         NEW line, line.kind = "result", line.unsolicited => line.own
  PROVE  Agreed(EventsOf("ParseEvents", line), EventsOf("readLoop", line))
  <1> DEFINE p == "ParseEvents"
             r == "readLoop"
             rp == [kind |-> "result", text |-> decoder[p].text, snapshot |-> Finished(p, line),
                    unsolicited |-> Unsolicited(p, line)]
             rr == [kind |-> "result", text |-> decoder[r].text, snapshot |-> Finished(r, line),
                    unsolicited |-> Unsolicited(r, line)]
             ep == EventsOf(p, line)
             er == EventsOf(r, line)
             errs == TurnErrors(r, line)
  <1>2. TurnErrors(p, line) = errs
    BY DEF TurnErrors, KeepTheSame
  <1>0. p \in Decoder /\ r \in Decoder /\ line.kind \in LineKinds
    BY DEF Decoder, LineKinds
  <1>1. ep = errs \o <<rp>> /\ er = errs \o <<rr>>
    BY <1>0, <1>2, LineEvents
  <1>3. SaySame(rp, rr)
    <2>1. Finished(p, line) = Finished(r, line)
      BY DEF Finished, KeepTheSame
    <2>2. AfterStray(decoder[p].text, decoder[r].text)
      BY DEF KeepTheSame
    <2>3. Unsolicited(r, line) => Unsolicited(p, line)
      BY DEF Unsolicited
    <2> QED
      BY <2>1, <2>2, <2>3 DEF SaySame
  <1>4. rp.kind = "result" /\ rr.kind = "result"
    OBVIOUS
  <1>5. errs = <<>> \/ \E e : errs = <<e>> /\ e.kind = "error"
    BY ErrorsOnly DEF ErrorOfClass
  <1> SUFFICES Agreed(ep, er)
    OBVIOUS
  <1> HIDE DEF rp, rr, ep, er, errs
  <1>6. CASE errs = <<>>
    <2>1. ep = <<rp>> /\ er = <<rr>>
      BY <1>1, <1>6
    <2>2. Agreed(<<rp>>, <<rr>>)
      BY <1>3, <1>4, AgreedOne
    <2> QED
      BY <2>1, <2>2
  <1>7. ASSUME NEW e, errs = <<e>>, e.kind = "error"  PROVE Agreed(ep, er)
    <2>1. ep = <<e, rp>> /\ er = <<e, rr>>
      BY <1>1, <1>7, OneAndOne
    <2>2. Agreed(<<e, rp>>, <<e, rr>>)
      BY <1>3, <1>4, <1>7, AgreedTwo
    <2> QED
      BY <2>1, <2>2
  <1> QED
    BY <1>5, <1>6, <1>7

\* A stream event's: the same, and a measurement from readLoop that ParseEvents has not.
LEMMA StreamLineAgrees ==
  ASSUME DecodingTypes, KeepTheSame, ~decoder["ParseEvents"].returned,
         NEW line, line.kind = "stream"
  PROVE  Agreed(EventsOf("ParseEvents", line), EventsOf("readLoop", line))
  <1> DEFINE s == [kind |-> "stream"]
             ep == EventsOf("ParseEvents", line)
             er == EventsOf("readLoop", line)
             sp == SnapshotEvents("ParseEvents", line)
             sr == SnapshotEvents("readLoop", line)
  <1>0. "ParseEvents" \in Decoder /\ "readLoop" \in Decoder /\ line.kind \in LineKinds
    BY DEF Decoder, LineKinds
  <1>1. ep = <<s>> \o sp /\ er = <<s>> \o sr
    BY <1>0, LineEvents
  <1>2. s.kind = "stream"
    OBVIOUS
  <1>3. sr = <<>> \/ \E snap : sr = <<snap>> /\ snap.kind = "snapshot"
    <2>1. sr = <<>> \/ \E now, window :
            sr = <<[kind |-> "snapshot", measured |-> now, window |-> window]>>
      BY DEF SnapshotEvents
    <2> QED
      BY <2>1
  <1>4. sp = sr \/ sp = <<>>
    BY SnapshotsOf
  <1> SUFFICES Agreed(ep, er)
    OBVIOUS
  <1> HIDE DEF s, ep, er, sp, sr
  <1>5. <<s>> \o <<>> = <<s>>
    OBVIOUS
  <1>6. CASE sr = <<>>
    <2>1. ep = <<s>> /\ er = <<s>>
      BY <1>1, <1>4, <1>5, <1>6
    <2>2. [kind |-> "snapshot"].kind = "snapshot"
      OBVIOUS
    <2>3. Agreed(<<s>>, <<s>>)
      BY <1>2, <2>2, AgreedStream
    <2> QED
      BY <2>1, <2>3
  <1>7. ASSUME NEW snap, sr = <<snap>>, snap.kind = "snapshot"  PROVE Agreed(ep, er)
    <2>1. er = <<s, snap>>
      BY <1>1, <1>7, OneAndOne
    <2>2. ep = <<s>> \/ ep = <<s, snap>>
      BY <1>1, <1>4, <1>5, <1>7, <2>1
    <2>3. Agreed(<<s>>, <<s, snap>>) /\ Agreed(<<s, snap>>, <<s, snap>>)
      BY <1>2, <1>7, AgreedStream
    <2> QED
      BY <2>1, <2>2, <2>3
  <1> QED
    BY <1>3, <1>6, <1>7

\* Any other line's.
LEMMA OtherLineAgrees ==
  ASSUME NEW line, line.kind \in LineKinds \ {"result", "stream"}
  PROVE  Agreed(EventsOf("ParseEvents", line), EventsOf("readLoop", line))
  <1> DEFINE ep == EventsOf("ParseEvents", line)
             er == EventsOf("readLoop", line)
  <1>0. "ParseEvents" \in Decoder /\ "readLoop" \in Decoder /\ line.kind \in LineKinds
    BY DEF Decoder
  <1>1. ASSUME NEW e, ep = <<e>>, er = <<e>>, e.kind \notin {"echo", "snapshot", "result"}
        PROVE  Agreed(ep, er)
    <2>1. Agreed(<<e>>, <<e>>)
      BY <1>1, SaySameSelf, AgreedOne
    <2> HIDE DEF ep, er
    <2> QED
      BY <1>1, <2>1
  <1>2. CASE line.kind = "init"
    <2> DEFINE ip == [kind |-> "init", unsolicited |-> Unsolicited("ParseEvents", line)]
               ir == [kind |-> "init", unsolicited |-> Unsolicited("readLoop", line)]
    <2>1. ep = <<ip>> /\ er = <<ir>>
      BY <1>0, <1>2, LineEvents
    <2>2. ip.kind = "init" /\ ir.kind = "init"
      OBVIOUS
    <2> HIDE DEF ip, ir, ep, er
    <2>3. SaySame(ip, ir)
      BY <2>2 DEF SaySame
    <2>4. Agreed(<<ip>>, <<ir>>)
      BY <2>2, <2>3, AgreedOne
    <2> QED
      BY <2>1, <2>4 DEF ep, er
  <1>3. CASE line.kind = "text"
    <2> DEFINE e == [kind |-> "turn"]
               f == [kind |-> "text"]
    <2>1. ep = <<e, f>> /\ er = <<e, f>>
      BY <1>0, <1>3, LineEvents
    <2>2. e.kind = "turn" /\ f.kind = "text"
      OBVIOUS
    <2> HIDE DEF e, f, ep, er
    <2>3. SaySame(f, f)
      BY <2>2, SaySameSelf
    <2>4. Agreed(<<e, f>>, <<e, f>>)
      BY <2>2, <2>3, AgreedTwo
    <2> QED
      BY <2>1, <2>4 DEF ep, er
  <1>4. CASE line.kind = "stray"
    <2> DEFINE e == [kind |-> "text"]
    <2>1. ep = <<e>> /\ er = <<e>>
      BY <1>0, <1>4, LineEvents
    <2>2. e.kind = "text"
      OBVIOUS
    <2> HIDE DEF e
    <2> QED
      BY <1>1, <2>1, <2>2
  <1>5. CASE line.kind = "apierror"
    <2> DEFINE e == SyntheticError(line.how, ~line.sub)
    <2>1. ep = <<e>> /\ er = <<e>>
      BY <1>0, <1>5, LineEvents
    <2>2. e.kind = "error"
      BY DEF SyntheticError, ErrorOfClass
    <2> HIDE DEF e
    <2> QED
      BY <1>1, <2>1, <2>2
  <1>6. CASE line.kind = "other"
    <2> DEFINE e == [kind |-> "other"]
    <2>1. ep = <<e>> /\ er = <<e>>
      BY <1>0, <1>6, LineEvents
    <2>2. e.kind = "other"
      OBVIOUS
    <2> HIDE DEF e
    <2> QED
      BY <1>1, <2>1, <2>2
  <1>7. CASE line.kind = "echo"
    <2> DEFINE e == [kind |-> "echo"]
    <2>1. ep = <<e>> /\ (er = <<>> \/ er = <<e>>)
      BY <1>0, <1>7, LineEvents
    <2>2. e.kind = "echo"
      OBVIOUS
    <2> HIDE DEF e, ep, er
    <2>3. Agreed(<<e>>, <<>>) /\ Agreed(<<e>>, <<e>>)
      BY <2>2, AgreedEcho
    <2> QED
      BY <2>1, <2>3 DEF ep, er
  <1>8. CASE line.kind = "quiet"
    <2>1. ep = <<>> /\ er = <<>>
      BY <1>0, <1>8, LineEvents
    <2> QED
      BY <2>1, AgreedNone
  <1> HIDE DEF ep, er
  <1>9. Agreed(ep, er)
    BY <1>2, <1>3, <1>4, <1>5, <1>6, <1>7, <1>8 DEF LineKinds, ep, er
  <1> QED
    BY <1>9 DEF ep, er

LEMMA LineAgrees ==
  ASSUME DecodingTypes, KeepTheSame, NEW line, DecodesLine(line)
  PROVE  DecodersAgree'
  <1> DEFINE p == "ParseEvents"
             r == "readLoop"
             ep == EventsOf(p, line)
             er == EventsOf(r, line)
  <1>0. /\ p \in Decoder /\ r \in Decoder /\ ~decoder[r].returned
        /\ BothRead(line) /\ line.kind \in LineKinds
        /\ line.kind = "result" => (line.unsolicited => line.own)
    BY DEF Decoder, KeepTheSame, DecodesLine
  <1>1. CASE decoder[p].returned
    <2>1. decoder'[p].returned /\ delivered'[p] = <<>>
      BY <1>0, <1>1, ReadersOf
    <2> QED
      BY <2>1 DEF DecodersAgree
  <1>2. CASE ~decoder[p].returned
    <2>1. delivered'[p] = ep /\ delivered'[r] = er
      BY <1>0, <1>2, ReadersOf
    <2>2. Agreed(ep, er)
      BY <1>0, <1>2, ResultLineAgrees, StreamLineAgrees, OtherLineAgrees
    <2> HIDE DEF ep, er
    <2>3. AllSaySame(Common(delivered'[p]), Common(delivered'[r]))
          /\ \A i \in DOMAIN delivered'[p] :
               delivered'[p][i].kind = "snapshot" => delivered'[p] = delivered'[r]
      BY <2>1, <2>2 DEF Agreed
    <2> QED
      BY <2>3 DEF DecodersAgree, AllSaySame
  <1> QED
    BY <1>1, <1>2

LEMMA LineIsOfItsTurn ==
  ASSUME DecodingInv, NEW line, DecodesLine(line)
  PROVE  ResultIsOfItsTurn'
  <1> SUFFICES ASSUME NEW d \in Decoder, NEW i \in DOMAIN delivered'[d],
                      delivered'[d][i].kind = "result"
               PROVE  /\ ToSet(delivered'[d][i].text) \subseteq Pieces(d)'
                      /\ delivered'[d][i].snapshot.measured.turn \in {0, cliTurn'.number}
    BY DEF ResultIsOfItsTurn, Pieces
  <1>1. ~decoder[d].returned /\ delivered'[d] = EventsOf(d, line)
    BY ReadersOf DEF DecodesLine
  <1>2. /\ line.kind = "result" /\ delivered'[d][i].text = decoder[d].text
        /\ delivered'[d][i].snapshot = Finished(d, line)
    BY <1>1, OnlyResultsAreResults DEF DecodesLine
  <1>3. cliTurn.runs /\ cliTurn'.number = cliTurn.number
    BY <1>2 DEF DecodesLine
  <1>4. /\ \A j \in DOMAIN decoder[d].text : decoder[d].text[j] \in Pieces(d)
        /\ decoder[d].snapshot.turn \in {0, cliTurn.number}
    BY <1>1, <1>3 DEF DecodingInv, KeptIsOfTurn, KeptOfTurn
  <1>5. ToSet(decoder[d].text) \subseteq Pieces(d) /\ Pieces(d)' = Pieces(d)
    BY <1>3, <1>4 DEF ToSet, Pieces
  <1>6. Finished(d, line).measured = decoder[d].snapshot
    BY DEF Finished
  <1> QED
    BY <1>2, <1>3, <1>4, <1>5, <1>6

-----------------------------------------------------------------------------
\* readLoop and ParseEvents make the same events of every line while both read
\* (decodeStatelessEvent is shared; the text, the measurement and the errors each loop keeps
\* are not), apart from echoes, the snapshots of a window only the session knows, whose turn
\* an init or a result is said to be (parse.go:934), and the text a session drops at an init.
THEOREM LoopsAgree == DecodingSpec => []DecodersAgree
  <1>1. DecodingInit => DecodersAgree
    <2>1. DecodingInit => /\ delivered["ParseEvents"] = <<>> /\ delivered["readLoop"] = <<>>
      BY DEF DecodingInit, Decoder
    <2> QED
      BY <2>1, CommonOfNone DEF DecodersAgree
  <1>2. DecodingInv /\ DecodersAgree /\ [DecodingNext]_decodeVars => DecodersAgree'
    <2> SUFFICES ASSUME DecodingInv, DecodersAgree, [DecodingNext]_decodeVars PROVE DecodersAgree'
      OBVIOUS
    <2>1. CASE UNCHANGED decodeVars
      BY <2>1 DEF decodeVars, DecodersAgree
    <2>2. CASE LearnWindow
      <3>1. delivered'["ParseEvents"] = <<>> /\ delivered'["readLoop"] = <<>>
        BY <2>2 DEF LearnWindow, Decoder
      <3> QED
        BY <3>1, CommonOfNone DEF DecodersAgree
    <2>3. ASSUME NEW line, DecodesLine(line) PROVE DecodersAgree'
      BY <2>3, LineAgrees DEF DecodingInv
    <2> QED
      BY <2>1, <2>2, <2>3, DecodingAssumption, DecodingSteps DEF DecodingInv
  <1> QED
    BY <1>1, <1>2, DecodingInvHolds, PTL DEF DecodingSpec

\* The text and the measurement in a ResultEvent are of the turn that ends, whatever a turn
\* before it left and a background task said between turns (every result resets resultText
\* and contextTracker, and so does every init of a session); but the answer of ParseEvents
\* may begin with what was said between the CLI's own turn and the prompt's (parse.go:78).
THEOREM ResultsAreOfTheirTurn == DecodingSpec => []ResultIsOfItsTurn
  <1>1. DecodingInit => ResultIsOfItsTurn
    <2>1. DecodingInit => \A d \in Decoder : delivered[d] = <<>>
      BY DEF DecodingInit
    <2> QED
      BY <2>1 DEF ResultIsOfItsTurn
  <1>2. DecodingInv /\ ResultIsOfItsTurn /\ [DecodingNext]_decodeVars => ResultIsOfItsTurn'
    <2> SUFFICES ASSUME DecodingInv, ResultIsOfItsTurn, [DecodingNext]_decodeVars
                 PROVE  ResultIsOfItsTurn'
      OBVIOUS
    <2>1. CASE UNCHANGED decodeVars
      BY <2>1 DEF decodeVars, ResultIsOfItsTurn
    <2>2. CASE LearnWindow
      <3>1. \A d \in Decoder : delivered'[d] = <<>>
        BY <2>2 DEF LearnWindow
      <3> QED
        BY <3>1 DEF ResultIsOfItsTurn
    <2>3. ASSUME NEW line, DecodesLine(line) PROVE ResultIsOfItsTurn'
      BY <2>3, LineIsOfItsTurn
    <2> QED
      BY <2>1, <2>2, <2>3, DecodingAssumption, DecodingSteps DEF DecodingInv
  <1> QED
    BY <1>1, <1>2, DecodingInvHolds, PTL DEF DecodingSpec

-----------------------------------------------------------------------------
(* The live transcripts                                                    *)

\* Induction over the natural numbers, with a set for what is proved of them: no
\* prover here instantiates the library's, which is about an operator.
LEMMA LeastNumber ==
  ASSUME NEW T \in SUBSET Nat, T # {}
  PROVE  \E n \in T : \A m \in T : n <= m
  <1> DEFINE Less == {pair \in Nat \X Nat : pair[1] < pair[2]}
  <1>1. IsWellFoundedOn(Less, Nat)
    BY NatLessThanWellFounded DEF OpToRel
  <1>2. PICK n \in T : \A m \in T : <<m, n>> \notin Less
    BY <1>1, WFMin
  <1>3. \A m \in T : ~(m < n)
    BY <1>2
  <1> QED
    BY <1>3

LEMMA InductionOnSets ==
  ASSUME NEW S, 0 \in S, \A n \in Nat : n \in S => n + 1 \in S
  PROVE  Nat \subseteq S
  <1> SUFFICES ASSUME Nat \ S # {}
               PROVE  FALSE
    OBVIOUS
  <1>1. PICK n \in Nat \ S : \A m \in Nat \ S : n <= m
    BY LeastNumber
  <1>2. n - 1 \in Nat /\ n - 1 \in S
    BY <1>1
  <1> QED
    BY <1>1, <1>2

\* What has been read after each of the lines, if line n yields batch[n].
Accumulates(f, X, N, batch) ==
  /\ f \in [0..N -> Seq(X)]
  /\ f = [n \in 0..N |-> IF n = 0 THEN <<>> ELSE f[n - 1] \o batch[n]]

\* A further line is appended.
LEMMA AccumulateOne ==
  ASSUME NEW X, NEW N \in Nat, NEW batch \in [1..(N + 1) -> Seq(X)], NEW f, Accumulates(f, X, N, batch)
  PROVE  \E g : Accumulates(g, X, N + 1, batch)
  <1> DEFINE last == f[N] \o batch[N + 1]
             g == [n \in 0..(N + 1) |-> IF n = N + 1 THEN last ELSE f[n]]
  <1>1. f[N] \in Seq(X) /\ batch[N + 1] \in Seq(X)
    BY DEF Accumulates
  <1>2. last \in Seq(X)
    BY <1>1, ConcatProperties
  <1>3. g \in [0..(N + 1) -> Seq(X)]
    BY <1>2 DEF Accumulates
  <1>4. ASSUME NEW n \in 0..(N + 1)
        PROVE  g[n] = IF n = 0 THEN <<>> ELSE g[n - 1] \o batch[n]
    <2>1. CASE n = N + 1
      <3>1. n # 0 /\ n - 1 = N /\ N \in 0..(N + 1) /\ N # N + 1
        BY <2>1
      <3>2. g[n] = last /\ g[n - 1] = f[N]
        BY <2>1, <3>1
      <3> QED
        BY <2>1, <3>1, <3>2
    <2>2. CASE n # N + 1
      <3>1. n \in 0..N /\ g[n] = f[n]
        BY <2>2
      <3>2. f[n] = IF n = 0 THEN <<>> ELSE f[n - 1] \o batch[n]
        BY <3>1 DEF Accumulates
      <3>3. n # 0 => n - 1 \in 0..(N + 1) /\ n - 1 # N + 1 /\ g[n - 1] = f[n - 1]
        BY <3>1
      <3> QED
        BY <3>1, <3>2, <3>3
    <2> QED
      BY <2>1, <2>2
  <1>5. g = [n \in 0..(N + 1) |-> IF n = 0 THEN <<>> ELSE g[n - 1] \o batch[n]]
    <2> DEFINE h == [n \in 0..(N + 1) |-> IF n = 0 THEN <<>> ELSE g[n - 1] \o batch[n]]
    <2>1. \A n \in 0..(N + 1) : g[n] = h[n]
      BY <1>4
    <2> QED
      BY <2>1
  <1> QED
    BY <1>3, <1>5 DEF Accumulates

LEMMA AccumulationExists ==
  ASSUME NEW X, NEW N \in Nat, NEW batch \in [1..N -> Seq(X)]
  PROVE  \E f : Accumulates(f, X, N, batch)
  <1> DEFINE S == {n \in Nat : n <= N => \E f : Accumulates(f, X, n, batch)}
  <1>1. 0 \in S
    <2> DEFINE f == [n \in 0..0 |-> <<>>]
    <2>0. <<>> \in Seq(X)
      BY EmptySeq
    <2>1. f \in [0..0 -> Seq(X)]
      BY <2>0
    <2>2. f = [n \in 0..0 |-> IF n = 0 THEN <<>> ELSE f[n - 1] \o batch[n]]
      OBVIOUS
    <2> QED
      BY <2>1, <2>2 DEF Accumulates
  <1>2. ASSUME NEW n \in Nat, n \in S, n + 1 <= N
        PROVE  \E f : Accumulates(f, X, n + 1, batch)
    <2>1. PICK f : Accumulates(f, X, n, batch)
      BY <1>2
    <2> DEFINE b == [i \in 1..(n + 1) |-> batch[i]]
    <2>2. b \in [1..(n + 1) -> Seq(X)]
      BY <1>2
    <2>3. \A i \in 0..n : (IF i = 0 THEN <<>> ELSE f[i - 1] \o batch[i]) = (IF i = 0 THEN <<>> ELSE f[i - 1] \o b[i])
      OBVIOUS
    <2>4. Accumulates(f, X, n, b)
      BY <2>1, <2>3 DEF Accumulates
    <2>5. PICK g : Accumulates(g, X, n + 1, b)
      BY <2>2, <2>4, AccumulateOne
    <2>6. \A i \in 0..(n + 1) : (IF i = 0 THEN <<>> ELSE g[i - 1] \o b[i]) = (IF i = 0 THEN <<>> ELSE g[i - 1] \o batch[i])
      OBVIOUS
    <2>7. Accumulates(g, X, n + 1, batch)
      BY <2>5, <2>6 DEF Accumulates
    <2> QED
      BY <2>7
  <1>3. \A n \in Nat : n \in S => n + 1 \in S
    BY <1>2
  <1>4. N \in S
    BY <1>1, <1>3, InductionOnSets
  <1> QED
    BY <1>4

\* It starts with nothing, and each line adds what it yields.
LEMMA AccumulatesInOrder ==
  ASSUME NEW X, NEW N \in Nat, NEW batch \in [1..N -> Seq(X)],
         NEW f, f = [n \in 0..N |-> IF n = 0 THEN <<>> ELSE f[n - 1] \o batch[n]]
  PROVE  /\ f[0] = <<>>
         /\ \A n \in 0..N : f[n] \in Seq(X)
         /\ \A n \in 1..N : f[n] = f[n - 1] \o batch[n]
  <1>1. \A n \in 0..N : f[n] = IF n = 0 THEN <<>> ELSE f[n - 1] \o batch[n]
    OBVIOUS
  <1>2. f[0] = <<>>
    <2>1. 0 \in 0..N
      OBVIOUS
    <2> QED
      BY <1>1, <2>1
  <1>3. ASSUME NEW n \in 1..N
        PROVE  f[n] = f[n - 1] \o batch[n]
    <2>1. n \in 0..N /\ n # 0
      OBVIOUS
    <2> QED
      BY <1>1, <2>1
  <1> DEFINE S == {n \in Nat : n <= N => f[n] \in Seq(X)}
  <1>4. 0 \in S
    BY <1>2, EmptySeq
  <1>5. ASSUME NEW n \in Nat, n \in S, n + 1 <= N
        PROVE  f[n + 1] \in Seq(X)
    <2>1. f[n] \in Seq(X) /\ batch[n + 1] \in Seq(X)
      BY <1>5
    <2>2. f[n + 1] = f[n] \o batch[n + 1]
      <3>1. n + 1 \in 1..N /\ (n + 1) - 1 = n
        BY <1>5
      <3> QED
        BY <1>3, <3>1
    <2> QED
      BY <2>1, <2>2, ConcatProperties
  <1>6. ASSUME NEW n \in Nat, n \in S
        PROVE  n + 1 \in S
    <2>1. n + 1 <= N => f[n + 1] \in Seq(X)
      BY <1>5, <1>6
    <2>2. n + 1 \in Nat
      OBVIOUS
    <2> QED
      BY ONLY <2>1, <2>2
  <1>7. Nat \subseteq S
    <2> HIDE DEF S
    <2> QED
      BY <1>4, <1>6, InductionOnSets
  <1>8. ASSUME NEW n \in 0..N
        PROVE  f[n] \in Seq(X)
    <2>1. n \in Nat /\ n <= N
      OBVIOUS
    <2> QED
      BY ONLY <1>7, <2>1
  <1> QED
    BY <1>2, <1>3, <1>8

\* What a recursive function over the lines gives.
UpTo(N, batch) ==
  CHOOSE f : f = [n \in 0..N |-> IF n = 0 THEN <<>> ELSE f[n - 1] \o batch[n]]

LEMMA UpToAccumulates ==
  ASSUME NEW X, NEW N \in Nat, NEW batch \in [1..N -> Seq(X)]
  PROVE  /\ UpTo(N, batch)[0] = <<>>
         /\ \A n \in 0..N : UpTo(N, batch)[n] \in Seq(X)
         /\ \A n \in 1..N : UpTo(N, batch)[n] = UpTo(N, batch)[n - 1] \o batch[n]
  <1>1. PICK g : Accumulates(g, X, N, batch)
    BY AccumulationExists
  <1>2. g = [n \in 0..N |-> IF n = 0 THEN <<>> ELSE g[n - 1] \o batch[n]]
    BY <1>1 DEF Accumulates
  <1>3. UpTo(N, batch) = [n \in 0..N |-> IF n = 0 THEN <<>> ELSE UpTo(N, batch)[n - 1] \o batch[n]]
    BY <1>2 DEF UpTo
  <1> QED
    BY <1>3, AccumulatesInOrder

\* The batches of the lines from a to b, and of no others, take what was read after
\* line a to what is read after line b.
LEMMA GathersBetween ==
  ASSUME NEW X, NEW N \in Nat, NEW all \in [1..N -> Seq(X)], NEW some \in [1..N -> Seq(X)],
         NEW a \in 0..N, NEW b \in 0..N, a <= b,
         \A n \in 1..N : some[n] = IF a < n /\ n <= b THEN all[n] ELSE <<>>
  PROVE  UpTo(N, all)[a] \o UpTo(N, some)[N] = UpTo(N, all)[b]
  <1> DEFINE whole == UpTo(N, all)
             part == UpTo(N, some)
  <1>1. /\ whole[0] = <<>> /\ \A n \in 0..N : whole[n] \in Seq(X)
        /\ \A n \in 1..N : whole[n] = whole[n - 1] \o all[n]
    BY UpToAccumulates
  <1>2. /\ part[0] = <<>> /\ \A n \in 0..N : part[n] \in Seq(X)
        /\ \A n \in 1..N : part[n] = part[n - 1] \o some[n]
    BY UpToAccumulates
  <1>0. \A r \in Seq(X) : \A s \in Seq(X) : \A t \in Seq(X) : (r \o s) \o t = r \o (s \o t)
    BY ConcatAssociative
  <1> HIDE DEF whole, part
  <1> DEFINE Reached(n) == whole[a] \o part[n] = whole[IF n <= a THEN a ELSE IF n <= b THEN n ELSE b]
             S == {n \in Nat : n <= N => Reached(n)}
  <1>3. 0 \in S
    <2>1. Reached(0)
      BY <1>1, <1>2, ConcatEmptySeq
    <2> HIDE DEF Reached
    <2> QED
      BY <2>1
  <1>4. ASSUME NEW n \in Nat, n + 1 <= N, Reached(n)
        PROVE  Reached(n + 1)
    <2>0. n \in 0..N /\ n + 1 \in 1..N /\ n + 1 \in 0..N /\ (n + 1) - 1 = n
      BY <1>4
    <2>1. all[n + 1] \in Seq(X) /\ some[n + 1] \in Seq(X) /\ whole[a] \in Seq(X) /\ part[n] \in Seq(X)
      BY <1>1, <1>2, <2>0
    <2>2. part[n + 1] = part[n] \o some[n + 1] /\ whole[n + 1] = whole[n] \o all[n + 1]
      BY <1>1, <1>2, <2>0
    <2>3. whole[a] \o part[n + 1] = (whole[a] \o part[n]) \o some[n + 1]
      <3>1. (whole[a] \o part[n]) \o some[n + 1] = whole[a] \o (part[n] \o some[n + 1])
        BY ONLY <1>0, <2>1
      <3> QED
        BY ONLY <2>2, <3>1
    <2>4. CASE a < n + 1 /\ n + 1 <= b
      <3>1. some[n + 1] = all[n + 1] /\ whole[a] \o part[n] = whole[n]
        <4>1. some[n + 1] = all[n + 1]
          BY <2>0, <2>4
        <4>2. n <= a => n = a
          BY <2>4
        <4>3. n <= b
          BY <2>4
        <4> QED
          BY <1>4, <4>1, <4>2, <4>3
      <3>2. whole[a] \o part[n + 1] = whole[n + 1]
        BY <2>2, <2>3, <3>1
      <3> QED
        BY <2>4, <3>2
    <2>5. CASE ~(a < n + 1 /\ n + 1 <= b)
      <3>1. some[n + 1] = <<>>
        BY <2>0, <2>5
      <3>2. whole[a] \o part[n] \in Seq(X)
        BY <2>1, ConcatProperties
      <3>3. whole[a] \o part[n + 1] = whole[a] \o part[n]
        BY <2>3, <3>1, <3>2, ConcatEmptySeq
      <3>4. (IF n + 1 <= a THEN a ELSE IF n + 1 <= b THEN n + 1 ELSE b) = (IF n <= a THEN a ELSE IF n <= b THEN n ELSE b)
        BY <2>5
      <3> QED
        BY <1>4, <3>3, <3>4
    <2> QED
      BY <2>4, <2>5
  <1>5. Reached(N)
    <2> HIDE DEF Reached
    <2>1. ASSUME NEW n \in Nat, n \in S
          PROVE  n + 1 \in S
      BY <1>4, <2>1
    <2> HIDE DEF S
    <2>2. Nat \subseteq S
      BY <1>3, <2>1, InductionOnSets
    <2> QED
      BY <2>2 DEF S
  <1>6. (IF N <= a THEN a ELSE IF N <= b THEN N ELSE b) = b
    OBVIOUS
  <1> QED
    BY <1>5, <1>6 DEF whole, part

\* The same batches give the same, however many follow.
Adds(f, k, batch) == f[0] = <<>> /\ \A n \in 1..k : f[n] = f[n - 1] \o batch[n]

LEMMA SameSoFar ==
  ASSUME NEW k \in Nat, NEW f, NEW g, NEW batch, Adds(f, k, batch), Adds(g, k, batch)
  PROVE  f[k] = g[k]
  <1> DEFINE S == {n \in Nat : n <= k => f[n] = g[n]}
  <1>1. 0 \in S
    BY DEF Adds
  <1>2. ASSUME NEW n \in Nat, n + 1 <= k, f[n] = g[n]
        PROVE  f[n + 1] = g[n + 1]
    <2>1. n + 1 \in 1..k /\ (n + 1) - 1 = n
      BY <1>2
    <2> QED
      BY <1>2, <2>1 DEF Adds
  <1>3. ASSUME NEW n \in Nat, n \in S
        PROVE  n + 1 \in S
    BY <1>2, <1>3
  <1> HIDE DEF S
  <1>4. Nat \subseteq S
    BY <1>1, <1>3, InductionOnSets
  <1> QED
    BY <1>4 DEF S

-----------------------------------------------------------------------------
\* What the lines of the file yield, the first k of them, and the lines whole at a size.
Batches(ns) == [n \in 1..Len(fileLines) |-> IF n \in ns THEN Decoded(n) ELSE <<>>]
Yields == [n \in 1..Len(fileLines) |-> Decoded(n)]
Shown(k) == UpTo(Len(fileLines), Yields)[k]
WholeAt(s) == (s + 1) \div 3

TranscriptEvent == (1..MaxTranscriptLines) \X {"text", "tool_use", "tool_result", "user"}

LEMMA EventsAreUpTo ==
  ASSUME NEW ns
  PROVE  TranscriptEvents(ns) = UpTo(Len(fileLines), Batches(ns))[Len(fileLines)]
  BY DEF TranscriptEvents, UpTo, Batches

LEMMA DecodedTypes ==
  TranscriptTypeOK => \A n \in 1..Len(fileLines) :
                        /\ Decoded(n) \in Seq(TranscriptEvent)
                        /\ fileLines[n] = "bad" => Decoded(n) = <<>>
  <1> SUFFICES ASSUME TranscriptTypeOK, NEW n \in 1..Len(fileLines)
               PROVE  Decoded(n) \in Seq(TranscriptEvent) /\ (fileLines[n] = "bad" => Decoded(n) = <<>>)
    OBVIOUS
  <1>0. n \in 1..MaxTranscriptLines
    BY TranscriptAssumption DEF TranscriptTypeOK
  <1>1. CASE fileLines[n] = "assistant"
    <2>1. Decoded(n) = <<<<n, "text">>, <<n, "tool_use">>>>
      BY <1>1 DEF Decoded
    <2>2. <<n, "text">> \in TranscriptEvent /\ <<n, "tool_use">> \in TranscriptEvent
      BY <1>0 DEF TranscriptEvent
    <2> QED
      BY <1>1, <2>1, <2>2
  <1>2. CASE fileLines[n] = "user"
    <2>1. Decoded(n) = <<<<n, "tool_result">>, <<n, "user">>>>
      BY <1>2 DEF Decoded
    <2>2. <<n, "tool_result">> \in TranscriptEvent /\ <<n, "user">> \in TranscriptEvent
      BY <1>0 DEF TranscriptEvent
    <2> QED
      BY <1>2, <2>1, <2>2
  <1>3. CASE fileLines[n] \notin {"assistant", "user"}
    <2>1. Decoded(n) = <<>>
      BY <1>3 DEF Decoded
    <2> QED
      BY <1>3, <2>1, EmptySeq
  <1> QED
    BY <1>1, <1>2, <1>3

\* Reading the lines behind a takes what was shown to what is shown after line b,
\* whatever bad lines were passed over.
LEMMA EventsBetween ==
  ASSUME TranscriptTypeOK, NEW a \in 0..Len(fileLines), NEW b \in 0..Len(fileLines), a <= b, NEW ns,
         \A n \in 1..Len(fileLines) :
           IF n \in ns THEN a < n /\ n <= b ELSE a < n /\ n <= b => fileLines[n] = "bad"
  PROVE  /\ Shown(a) \o TranscriptEvents(ns) = Shown(b)
         /\ Shown(b) \in Seq(TranscriptEvent) /\ TranscriptEvents(ns) \in Seq(TranscriptEvent)
  <1>1. Len(fileLines) \in Nat
    BY DEF TranscriptTypeOK
  <1>2. /\ Batches(ns) \in [1..Len(fileLines) -> Seq(TranscriptEvent)]
        /\ Yields \in [1..Len(fileLines) -> Seq(TranscriptEvent)]
    BY DecodedTypes, EmptySeq DEF Batches, Yields
  <1>3. \A n \in 1..Len(fileLines) : Batches(ns)[n] = IF a < n /\ n <= b THEN Yields[n] ELSE <<>>
    BY DecodedTypes DEF Batches, Yields
  <1>4. Shown(a) \o TranscriptEvents(ns) = Shown(b)
    BY <1>1, <1>2, <1>3, EventsAreUpTo, GathersBetween DEF Shown
  <1>5. Shown(b) \in Seq(TranscriptEvent)
    BY <1>1, <1>2, UpToAccumulates DEF Shown
  <1>6. TranscriptEvents(ns) \in Seq(TranscriptEvent)
    <2>1. Len(fileLines) \in 0..Len(fileLines)
      BY <1>1
    <2> QED
      BY <1>1, <1>2, <2>1, EventsAreUpTo, UpToAccumulates
  <1> QED
    BY <1>4, <1>5, <1>6

LEMMA NothingShown ==
  ASSUME TranscriptTypeOK
  PROVE  Shown(0) = <<>>
  <1>1. Len(fileLines) \in Nat /\ Yields \in [1..Len(fileLines) -> Seq(TranscriptEvent)]
    BY DecodedTypes DEF TranscriptTypeOK, Yields
  <1> QED
    BY <1>1, UpToAccumulates DEF Shown

\* The next offset is behind the last newline that was read, or behind a whole record
\* at the end.
OffsetIsBehindRecords ==
  offset = IF seenSize % 3 = 2 /\ fileLines[WholeAt(seenSize)] # "bad"
           THEN seenSize ELSE 3 * (seenSize \div 3)

FileGrows == Len(fileLines) = (size + 2) \div 3 /\ seenSize <= size

TranscriptInv ==
  /\ TranscriptTypeOK /\ FileGrows /\ OffsetIsBehindRecords /\ ~beyond
  /\ polled = Shown(WholeAt(seenSize))

LEMMA InitTranscript == TranscriptInit => TranscriptInv
  <1> SUFFICES ASSUME TranscriptInit PROVE TranscriptInv
    OBVIOUS
  <1>1. TranscriptTypeOK
    <2>1. <<>> \in Seq(LineKind) /\ <<>> \in Seq(TranscriptEvent) /\ Len(<<>>) = 0
      BY EmptySeq
    <2>2. fileLines \in Seq(LineKind) /\ polled \in Seq(TranscriptEvent) /\ Len(fileLines) = 0
      BY <2>1, Zenon DEF TranscriptInit
    <2>3. Len(fileLines) <= MaxTranscriptLines
      BY <2>2, TranscriptAssumption
    <2>4. size \in Nat /\ offset \in Nat /\ seenSize \in Nat
      BY DEF TranscriptInit
    <2>5. beyond \in BOOLEAN
      BY Zenon DEF TranscriptInit
    <2> QED
      BY <2>2, <2>3, <2>4, <2>5, Zenon DEF TranscriptTypeOK, TranscriptEvent
  <1>2. FileGrows /\ OffsetIsBehindRecords /\ ~beyond
    BY DEF TranscriptInit, FileGrows, OffsetIsBehindRecords, WholeAt
  <1>3. polled = Shown(WholeAt(seenSize))
    <2>1. WholeAt(seenSize) = 0 /\ polled = <<>>
      BY DEF TranscriptInit, WholeAt
    <2> QED
      BY <1>1, <2>1, NothingShown
  <1> QED
    BY <1>1, <1>2, <1>3 DEF TranscriptInv

\* What is appended leaves the lines before it, and what was shown of them.
LEMMA AppendKeepsShown ==
  ASSUME TranscriptInv, AppendPiece
  PROVE  TranscriptInv'
  <1>1. /\ Len(fileLines) \in Nat /\ Len(fileLines') \in Nat /\ Len(fileLines) <= Len(fileLines')
        /\ \A n \in 1..Len(fileLines) : fileLines'[n] = fileLines[n]
        /\ fileLines' \in Seq(LineKind) /\ Len(fileLines') <= MaxTranscriptLines
        /\ Len(fileLines') = (size' + 2) \div 3
    <2>1. size \in Nat /\ fileLines \in Seq(LineKind) /\ Len(fileLines) = (size + 2) \div 3 /\ size' = size + 1
      BY DEF TranscriptInv, TranscriptTypeOK, FileGrows, AppendPiece
    <2>2. CASE UNCHANGED fileLines /\ size % 3 # 0
      <3>1. (size' + 2) \div 3 = (size + 2) \div 3
        BY <2>1, <2>2
      <3> QED
        BY <2>1, <2>2, <3>1 DEF TranscriptInv, TranscriptTypeOK
    <2>3. ASSUME NEW kind \in LineKind, fileLines' = Append(fileLines, kind), size % 3 = 0,
                 Len(fileLines) < MaxTranscriptLines
          PROVE  /\ Len(fileLines) \in Nat /\ Len(fileLines') \in Nat /\ Len(fileLines) <= Len(fileLines')
                 /\ \A n \in 1..Len(fileLines) : fileLines'[n] = fileLines[n]
                 /\ fileLines' \in Seq(LineKind) /\ Len(fileLines') <= MaxTranscriptLines
                 /\ Len(fileLines') = (size' + 2) \div 3
      <3>1. (size' + 2) \div 3 = (size + 2) \div 3 + 1
        BY <2>1, <2>3
      <3>2. Len(fileLines') = Len(fileLines) + 1 /\ fileLines' \in Seq(LineKind)
        BY <2>1, <2>3
      <3>3. \A n \in 1..Len(fileLines) : fileLines'[n] = fileLines[n]
        BY <2>1, <2>3
      <3>4. Len(fileLines) \in Nat
        BY <2>1
      <3> QED
        BY <2>1, <2>3, <3>1, <3>2, <3>3, <3>4, TranscriptAssumption
    <2> QED
      BY <2>2, <2>3 DEF AppendPiece
  <1>2. TranscriptTypeOK'
    BY <1>1 DEF TranscriptInv, TranscriptTypeOK, AppendPiece
  <1>3. WholeAt(seenSize) \in 0..Len(fileLines) /\ (seenSize % 3 = 2 => WholeAt(seenSize) \in 1..Len(fileLines))
    BY DEF TranscriptInv, TranscriptTypeOK, FileGrows, WholeAt
  <1>4. FileGrows' /\ ~beyond' /\ seenSize' = seenSize /\ polled' = polled /\ offset' = offset
    BY <1>1 DEF TranscriptInv, TranscriptTypeOK, FileGrows, AppendPiece
  <1>5. OffsetIsBehindRecords'
    <2>1. seenSize % 3 = 2 => fileLines'[WholeAt(seenSize)] = fileLines[WholeAt(seenSize)]
      BY <1>1, <1>3
    <2> QED
      BY <1>4, <2>1 DEF TranscriptInv, OffsetIsBehindRecords, WholeAt
  <1>6. Shown(WholeAt(seenSize))' = Shown(WholeAt(seenSize))
    <2>1. /\ Yields \in [1..Len(fileLines) -> Seq(TranscriptEvent)]
          /\ Yields' \in [1..Len(fileLines') -> Seq(TranscriptEvent)]
      <3>1. Yields \in [1..Len(fileLines) -> Seq(TranscriptEvent)]
        BY DecodedTypes DEF TranscriptInv, Yields
      <3>2. (TranscriptTypeOK => \A n \in 1..Len(fileLines) :
                                    /\ Decoded(n) \in Seq(TranscriptEvent)
                                    /\ fileLines[n] = "bad" => Decoded(n) = <<>>)'
        BY DecodedTypes, PTL
      <3>3. Yields' \in [1..Len(fileLines') -> Seq(TranscriptEvent)]
        BY <1>2, <3>2 DEF Yields
      <3> QED
        BY <3>1, <3>3
    <2>2. \A n \in 1..Len(fileLines) : Yields'[n] = Yields[n]
      BY <1>1 DEF Yields, Decoded
    <2>3. UpTo(Len(fileLines'), Yields')[WholeAt(seenSize)] = UpTo(Len(fileLines), Yields)[WholeAt(seenSize)]
      <3>1. WholeAt(seenSize) \in Nat /\ WholeAt(seenSize) <= Len(fileLines) /\ WholeAt(seenSize) <= Len(fileLines')
        BY <1>1, <1>3
      <3>2. \A n \in 1..WholeAt(seenSize) : Yields'[n] = Yields[n]
        BY <1>1, <2>2, <3>1
      <3> DEFINE k == WholeAt(seenSize)
                 before == Yields
                 after == Yields'
                 N == Len(fileLines)
                 M == Len(fileLines')
      <3>3. /\ N \in Nat /\ M \in Nat /\ k \in Nat /\ k <= N /\ k <= M
            /\ after \in [1..M -> Seq(TranscriptEvent)] /\ before \in [1..N -> Seq(TranscriptEvent)]
            /\ \A n \in 1..k : after[n] = before[n]
        BY <1>1, <2>1, <3>1, <3>2
      <3> HIDE DEF k, before, after, N, M
      <3>4. /\ UpTo(M, after)[0] = <<>>
            /\ \A n \in 1..M : UpTo(M, after)[n] = UpTo(M, after)[n - 1] \o after[n]
        BY <3>3, UpToAccumulates
      <3>5. /\ UpTo(N, before)[0] = <<>>
            /\ \A n \in 1..N : UpTo(N, before)[n] = UpTo(N, before)[n - 1] \o before[n]
        BY <3>3, UpToAccumulates
      <3>6. \A n \in 1..k : n \in 1..M /\ n \in 1..N
        BY <3>3
      <3> DEFINE f == UpTo(M, after)
                 g == UpTo(N, before)
      <3>7. Adds(f, k, before) /\ Adds(g, k, before) /\ k \in Nat
        BY <3>3, <3>4, <3>5, <3>6 DEF Adds
      <3> HIDE DEF f, g
      <3>8. f[k] = g[k]
        BY <3>7, SameSoFar
      <3> QED
        BY <3>8 DEF f, g, k, before, after, N, M
    <2> QED
      BY <1>4, <2>3 DEF Shown, WholeAt
  <1> QED
    BY <1>2, <1>4, <1>5, <1>6 DEF TranscriptInv

\* Where the next read starts is right again, and nothing is behind the end.
LEMMA NextOffsetIs ==
  ASSUME TranscriptInv
  PROVE  /\ offset <= size
         /\ NextOffset(offset) = IF size % 3 = 2 /\ fileLines[WholeAt(size)] # "bad"
                                 THEN size ELSE 3 * (size \div 3)
  <1>0. /\ size \in Nat /\ offset \in Nat /\ seenSize \in Nat /\ seenSize <= size
        /\ Len(fileLines) = (size + 2) \div 3
    BY DEF TranscriptInv, TranscriptTypeOK, FileGrows
  <1>1. /\ 3 * (seenSize \div 3) <= offset /\ offset <= seenSize
        /\ (offset = seenSize /\ seenSize % 3 = 2) \/ offset = 3 * (seenSize \div 3)
    BY <1>0 DEF TranscriptInv, OffsetIsBehindRecords
  <1> DEFINE newlines == {i \in (offset + 1)..size : i % 3 = 0}
             trailing == {n \in WholeFrom(offset) : RecordEnds(n) = size}
             last == 3 * (size \div 3)
  <1>2. NextOffset(offset) = IF trailing # {} THEN size ELSE Max({offset} \cup newlines)
    BY DEF NextOffset
  <1>3. /\ Max({offset} \cup newlines) \in {offset} \cup newlines
        /\ \A i \in {offset} \cup newlines : Max({offset} \cup newlines) >= i
    <2> DEFINE m == IF last > offset THEN last ELSE offset
    <2>1. m \in {offset} \cup newlines /\ \A i \in {offset} \cup newlines : m >= i
      BY <1>0
    <2> HIDE DEF m, newlines
    <2> QED
      BY <2>1 DEF Max
  <1>4. Max({offset} \cup newlines) = IF last > offset THEN last ELSE offset
    <2> HIDE DEF Max
    <2> QED
      BY <1>0, <1>3
  <1>5. CASE size % 3 = 2 /\ fileLines[WholeAt(size)] # "bad"
    <2>1. WholeAt(size) \in 1..Len(fileLines) /\ RecordEnds(WholeAt(size)) = size
      BY <1>0, <1>5 DEF WholeAt, RecordEnds
    <2>2. CASE offset <= Begins(WholeAt(size))
      <3>1. WholeAt(size) \in trailing
        BY <1>0, <1>5, <2>1, <2>2 DEF WholeFrom
      <3> QED
        BY <1>1, <1>2, <1>0, <1>5, <3>1
    <2>3. CASE ~(offset <= Begins(WholeAt(size)))
      <3>1. offset = size
        BY <1>0, <1>1, <1>5, <2>3 DEF Begins, WholeAt
      <3>2. last <= offset
        BY <1>0, <3>1
      <3>3. Max({offset} \cup newlines) = offset
        BY <1>4, <3>2, <1>0
      <3> QED
        BY <1>0, <1>1, <1>2, <1>5, <3>1, <3>3
    <2> QED
      BY <2>2, <2>3
  <1>6. CASE ~(size % 3 = 2 /\ fileLines[WholeAt(size)] # "bad")
    <2>1. trailing = {}
      <3> SUFFICES ASSUME NEW n \in trailing PROVE FALSE
        OBVIOUS
      <3>1. n \in 1..Len(fileLines) /\ RecordEnds(n) = size /\ fileLines[n] # "bad"
        BY DEF WholeFrom
      <3>2. n = WholeAt(size) /\ size % 3 = 2
        BY <1>0, <3>1 DEF RecordEnds, WholeAt
      <3> QED
        BY <1>6, <3>1, <3>2
    <2>2. offset <= last
      <3>1. CASE offset = 3 * (seenSize \div 3)
        BY <1>0, <3>1
      <3>2. CASE offset # 3 * (seenSize \div 3)
        <4>1. offset = seenSize /\ seenSize % 3 = 2 /\ fileLines[WholeAt(seenSize)] # "bad"
          BY <3>2 DEF TranscriptInv, OffsetIsBehindRecords
        <4>2. seenSize # size
          BY <1>6, <4>1
        <4> QED
          BY <1>0, <4>1, <4>2
      <3> QED
        BY <3>1, <3>2
    <2>3. Max({offset} \cup newlines) = last
      BY <1>0, <1>4, <2>2
    <2> QED
      BY <1>0, <1>1, <1>2, <1>6, <2>1, <2>3
  <1> QED
    BY <1>0, <1>1, <1>5, <1>6

\* A poll shows the records that have become whole since the last one.
LEMMA PollShowsWhole ==
  ASSUME TranscriptInv, Poll
  PROVE  TranscriptInv'
  <1>0. /\ size \in Nat /\ offset \in Nat /\ seenSize \in Nat /\ seenSize <= size
        /\ Len(fileLines) = (size + 2) \div 3 /\ Len(fileLines) \in Nat
    BY DEF TranscriptInv, TranscriptTypeOK, FileGrows
  <1>1. /\ polled' = polled \o TranscriptEvents(WholeFrom(offset)) /\ offset' = NextOffset(offset)
        /\ beyond' = beyond /\ seenSize' = size /\ fileLines' = fileLines /\ size' = size
    <2>1. ~(offset > size)
      BY <1>0, NextOffsetIs
    <2> QED
      BY <2>1 DEF Poll
  <1> DEFINE a == WholeAt(seenSize)
             b == WholeAt(size)
  <1>2. a \in 0..Len(fileLines) /\ b \in 0..Len(fileLines) /\ a <= b
    BY <1>0 DEF WholeAt
  <1>3. \A n \in 1..Len(fileLines) :
          IF n \in WholeFrom(offset) THEN a < n /\ n <= b ELSE a < n /\ n <= b => fileLines[n] = "bad"
    <2> SUFFICES ASSUME NEW n \in 1..Len(fileLines)
                 PROVE  IF n \in WholeFrom(offset) THEN a < n /\ n <= b ELSE a < n /\ n <= b => fileLines[n] = "bad"
      OBVIOUS
    <2>1. n <= b <=> RecordEnds(n) <= size
      BY <1>0 DEF WholeAt, RecordEnds
    <2>2. CASE a < n
      <3>1. Begins(n) >= offset
        BY <1>0, <2>2 DEF TranscriptInv, OffsetIsBehindRecords, WholeAt, Begins
      <3> QED
        BY <2>1, <2>2, <3>1 DEF WholeFrom
    <2>3. CASE ~(a < n)
      <3>1. n \notin WholeFrom(offset)
        <4> SUFFICES ASSUME Begins(n) >= offset, fileLines[n] # "bad" PROVE FALSE
          BY DEF WholeFrom
        <4>1. n <= a /\ 3 * (n - 1) >= offset /\ a = (seenSize + 1) \div 3
          BY <1>0, <2>3 DEF Begins, WholeAt
        <4>2. CASE seenSize % 3 = 2
          <5>1. offset = seenSize \/ (offset = 3 * (seenSize \div 3) /\ fileLines[a] = "bad")
            BY <4>2 DEF TranscriptInv, OffsetIsBehindRecords
          <5>2. offset # seenSize
            BY <1>0, <4>1, <4>2
          <5>3. n = a
            BY <1>0, <4>1, <4>2, <5>1, <5>2
          <5> QED
            BY <5>1, <5>2, <5>3
        <4>3. CASE seenSize % 3 # 2
          <5>1. offset = 3 * (seenSize \div 3)
            BY <4>3 DEF TranscriptInv, OffsetIsBehindRecords
          <5> QED
            BY <1>0, <4>1, <4>3, <5>1
        <4> QED
          BY <4>2, <4>3
      <3> QED
        BY <2>3, <3>1
    <2> QED
      BY <2>2, <2>3
  <1>4. Shown(a) \o TranscriptEvents(WholeFrom(offset)) = Shown(b) /\ Shown(b) \in Seq(TranscriptEvent)
    <2>1. TranscriptTypeOK
      BY DEF TranscriptInv
    <2> DEFINE ns == WholeFrom(offset)
    <2>2. \A n \in 1..Len(fileLines) : IF n \in ns THEN a < n /\ n <= b ELSE a < n /\ n <= b => fileLines[n] = "bad"
      BY <1>3
    <2> HIDE DEF a, b, ns
    <2>3. Shown(a) \o TranscriptEvents(ns) = Shown(b) /\ Shown(b) \in Seq(TranscriptEvent)
      BY <1>2, <2>1, <2>2, EventsBetween
    <2> QED
      BY <2>3 DEF ns
  <1>5. polled' = Shown(b) /\ polled' \in Seq(TranscriptEvent)
    BY <1>1, <1>4 DEF TranscriptInv
  <1>6. Shown(WholeAt(seenSize))' = Shown(b)
    BY <1>1 DEF Shown, Yields, Decoded, WholeAt
  <1>7. /\ offset' \in Nat
        /\ offset' = IF seenSize' % 3 = 2 /\ fileLines'[WholeAt(seenSize')] # "bad"
                     THEN seenSize' ELSE 3 * (seenSize' \div 3)
    BY <1>0, <1>1, NextOffsetIs
  <1>8. TranscriptTypeOK'
    BY <1>0, <1>1, <1>5, <1>7 DEF TranscriptInv, TranscriptTypeOK, TranscriptEvent
  <1>9. FileGrows' /\ ~beyond' /\ OffsetIsBehindRecords'
    BY <1>0, <1>1, <1>7 DEF TranscriptInv, FileGrows, OffsetIsBehindRecords, WholeAt
  <1> QED
    BY <1>5, <1>6, <1>8, <1>9 DEF TranscriptInv

\* What a caller has been given by polling is, whenever it polls, every whole record of the
\* file, once and in order, for any number of lines of any kinds.
THEOREM PolledIsWhatIsWhole == TranscriptSpec => []PolledOnceInOrder
  <1>1. TranscriptInv /\ [TranscriptNext]_transcriptVars => TranscriptInv'
    <2> SUFFICES ASSUME TranscriptInv, [TranscriptNext]_transcriptVars PROVE TranscriptInv'
      OBVIOUS
    <2>1. CASE UNCHANGED transcriptVars
      BY <2>1 DEF transcriptVars, TranscriptInv, TranscriptTypeOK, FileGrows, OffsetIsBehindRecords,
         Shown, Yields, Decoded, WholeAt
    <2> QED
      BY <2>1, AppendKeepsShown, PollShowsWhole DEF TranscriptNext
  <1>2. TranscriptInv => PolledOnceInOrder
    <2> SUFFICES ASSUME TranscriptInv PROVE PolledOnceInOrder
      OBVIOUS
    <2> DEFINE ns == {n \in 1..Len(fileLines) : RecordEnds(n) <= seenSize}
               b == WholeAt(seenSize)
    <2>1. /\ seenSize \in Nat /\ size \in Nat /\ seenSize <= size
          /\ Len(fileLines) = (size + 2) \div 3 /\ Len(fileLines) \in Nat
      BY DEF TranscriptInv, TranscriptTypeOK, FileGrows
    <2>2. b \in 0..Len(fileLines) /\ \A n \in 1..Len(fileLines) : n \in ns <=> 0 < n /\ n <= b
      BY <2>1 DEF WholeAt, RecordEnds
    <2>3. /\ Shown(0) \o TranscriptEvents(ns) = Shown(b) /\ Shown(0) = <<>>
          /\ TranscriptEvents(ns) \in Seq(TranscriptEvent)
      <3>1. 0 \in 0..Len(fileLines) /\ 0 <= b
        BY <2>1, <2>2
      <3>2. TranscriptTypeOK
        BY DEF TranscriptInv
      <3> HIDE DEF ns, b
      <3> QED
        BY <2>2, <3>1, <3>2, EventsBetween, NothingShown
    <2>4. TranscriptEvents(ns) = Shown(b)
      BY <2>3, ConcatEmptySeq
    <2> QED
      BY <2>4 DEF TranscriptInv, PolledOnceInOrder
  <1> QED
    BY <1>1, <1>2, InitTranscript, PTL DEF TranscriptSpec
=============================================================================
