----------------------------- MODULE Decoding ------------------------------
(***************************************************************************)
(* The two loops that decode the CLI's lines: ParseEvents, for one run,    *)
(* and readLoop, for a session (src/parse.go, src/decode.go, src/error.go, *)
(* src/session.go).  They share the decoding of single lines, and each     *)
(* keeps by itself what goes from line to line: the text of the answer,    *)
(* the measurement of the context and the windows it learned, and how the  *)
(* turn failed.  (The identity of tasks is TaskBackfill's.)  Here both     *)
(* read the same lines, until ParseEvents returns.                         *)
(*                                                                         *)
(* A piece of text, and a measurement, is the number of the turn it was    *)
(* written in, 0 between turns.  There is one model, known by its name     *)
(* ("bare") or with a suffix ("1m").  Left out are the numbers of          *)
(* TurnEvents, and control frames, which are ControlChannel's.  Whether a  *)
(* session calls a turn unsolicited depends on its queries (SessionTurns,  *)
(* QuerySession): here it is an input that comes with the line.            *)
(***************************************************************************)
EXTENDS Naturals, Sequences, FiniteSets, SequencesExt

CONSTANTS
  MaxDecodedTurns,   \* bound on the turns
  MaxPieces,         \* bound on the pieces of text in an answer
  SurfaceReplays     \* WithReplayedUserMessages: readLoop delivers echoes

ASSUME DecodingAssumption ==
  MaxDecodedTurns \in Nat /\ MaxPieces \in Nat /\ SurfaceReplays \in BOOLEAN

Decoder == {"ParseEvents", "readLoop"}

VARIABLES
  cliTurn,    \* the CLI's turn: its number, whether it runs, whether it is the CLI's own
  decoder,       \* decoder[d]: what d keeps
  delivered,     \* delivered[d]: the events d made of the last line
  outsideWindow  \* the window QueryContextUsage learned

decodeVars == <<cliTurn, decoder, delivered, outsideWindow>>

\* A failure as the CLI words it: its text, the type it gives it, the HTTP status.
Unworded == [text |-> "plain", type |-> "none", status |-> 0]
Failure == {Unworded,
            [text |-> "context", type |-> "none", status |-> 400],
            [text |-> "plain", type |-> "none", status |-> 429],
            [text |-> "plain", type |-> "server_error", status |-> 429]}

NoSnapshot == [turn |-> 0, phase |-> "none"]
FreshDecoder == [text |-> <<>>, snapshot |-> NoSnapshot, windows |-> {},
                 apiError |-> FALSE, returned |-> FALSE]

DecodingInit ==
  /\ cliTurn = [number |-> 0, runs |-> FALSE, own |-> FALSE]
  /\ decoder = [d \in Decoder |-> FreshDecoder]
  /\ delivered = [d \in Decoder |-> <<>>]
  /\ outsideWindow = "unknown"

-----------------------------------------------------------------------------
(* Errors                                                                  *)

\* statusErrorType, over the statuses above
StatusClass(status) ==
  CASE status = 400 -> "invalid_request" [] status = 429 -> "rate_limit" [] OTHER -> "none"

\* normalizeSyntheticErrorType, over the types above
TypeClass(type) == IF type = "server_error" THEN "api" ELSE "none"

\* classifyAPIFailure: by its text, its type and its status, in that order.
Class(f) ==
  IF f.text = "context" THEN "context_window"
  ELSE IF TypeClass(f.type) # "none" THEN TypeClass(f.type) ELSE StatusClass(f.status)

ErrorOfClass(class, fatal) == [kind |-> "error", class |-> class, fatal |-> fatal]

\* syntheticAPIError: always an ErrAPI, and what it classifies as besides.
SyntheticError(f, fatal) == ErrorOfClass({"api"} \cup ({Class(f)} \ {"none"}), fatal)

\* resultError: nothing for a failure that no class fits.
ResultErrors(line) ==
  CASE line.failure = "none"     -> <<>>
    [] line.failure = "maxturns" -> <<ErrorOfClass({"max_turns"}, FALSE)>>
    [] OTHER -> LET class == Class([line.how EXCEPT !.type = "none"])
                IN IF class = "none" THEN <<>> ELSE <<ErrorOfClass({class}, FALSE)>>

-----------------------------------------------------------------------------
(* contextTracker                                                          *)

\* The entry for the model: under its name, else under the name with a suffix.
WindowIn(keys) ==
  IF "bare" \in keys THEN "bare" ELSE IF "1m" \in keys THEN "1m" ELSE "unknown"

\* windowFor: what results disclosed, else, for a session, QueryContextUsage.
WindowFor(d) ==
  LET learned == WindowIn(decoder[d].windows)
  IN IF learned = "unknown" /\ d = "readLoop" THEN outsideWindow ELSE learned

\* observe: what a message_start or a message_delta leaves of the measurement.
Observed(snapshot, line) ==
  IF line.phase = "start" THEN [turn |-> cliTurn.number, phase |-> "start"]
  ELSE IF snapshot = NoSnapshot THEN NoSnapshot ELSE [snapshot EXCEPT !.phase = "final"]

\* finish: the measurement with the window the result discloses.
Finished(d, line) ==
  [measured |-> decoder[d].snapshot,
   window |-> IF decoder[d].snapshot = NoSnapshot THEN "unknown" ELSE WindowIn(line.usage)]

-----------------------------------------------------------------------------
(* A line, in either loop                                                  *)

\* The text of a turn ends with its result, and for a session with the next init too:
\* ParseEvents takes along what was said between the CLI's own turn and the prompt's.
NewTurn(state) == [state EXCEPT !.text = <<>>, !.snapshot = NoSnapshot]

\* Mutant of ReadInitOf: the session keeps what was left of the last turn.
ReadInitOfKeeps(d) == decoder[d]

ReadInitOf(d) == IF d = "readLoop" THEN NewTurn(decoder[d]) ELSE decoder[d]

\* Mutant of ReadResultOf: the text of the CLI's own turn goes on into the answer.
ReadResultOfKeepsText(d, line) ==
  [decoder[d] EXCEPT !.snapshot = NoSnapshot, !.windows = @ \cup line.usage,
                     !.apiError = FALSE, !.returned = d = "ParseEvents" /\ ~line.own]

ReadResultOf(d, line) ==
  [NewTurn(decoder[d]) EXCEPT !.windows = @ \cup line.usage, !.apiError = FALSE,
                              !.returned = d = "ParseEvents" /\ ~line.own]

\* What d keeps after the line.
DecoderAfter(d, line) ==
  CASE line.kind = "init"     -> ReadInitOf(d)
    [] line.kind = "result"   -> ReadResultOf(d, line)
    [] line.kind = "text"     -> [decoder[d] EXCEPT !.text = Append(@, cliTurn.number)]
    [] line.kind = "stray"    -> [decoder[d] EXCEPT !.text = Append(@, 0)]
    [] line.kind = "stream"   -> [decoder[d] EXCEPT !.snapshot = Observed(@, line)]
    [] line.kind = "apierror" /\ ~line.sub ->
         [decoder[d] EXCEPT !.apiError = d = "readLoop", !.returned = d = "ParseEvents"]
    [] OTHER -> decoder[d]

\* observe's event: none while the window is unknown.
SnapshotEvents(d, line) ==
  LET now == Observed(decoder[d].snapshot, line)
  IN IF now = NoSnapshot \/ WindowFor(d) = "unknown" THEN <<>>
     ELSE <<[kind |-> "snapshot", measured |-> now, window |-> WindowFor(d)]>>

\* A synthetic message has reported the turn's API error already (readLoop goes on after it).
TurnErrors(d, line) ==
  IF decoder[d].apiError /\ line.failure = "api" THEN <<>> ELSE ResultErrors(line)

\* Whose turn it is: ParseEvents calls a result unsolicited by its origin, and no init; a
\* session by what noteTurnStart and observeUnsolicitedResult make of it.
Unsolicited(d, line) ==
  IF d = "readLoop" THEN line.unsolicited ELSE line.kind = "result" /\ line.own

\* The events d makes of the line.
EventsOf(d, line) ==
  CASE line.kind = "text"     -> <<[kind |-> "turn"], [kind |-> "text"]>>
    [] line.kind = "stray"    -> <<[kind |-> "text"]>>
    [] line.kind = "stream"   -> <<[kind |-> "stream"]>> \o SnapshotEvents(d, line)
    [] line.kind = "apierror" -> <<SyntheticError(line.how, ~line.sub)>>
    [] line.kind = "echo"     -> IF d = "readLoop" /\ ~SurfaceReplays THEN <<>>
                                 ELSE <<[kind |-> "echo"]>>
    [] line.kind = "quiet"    -> <<>>
    [] line.kind = "init"     -> <<[kind |-> "init", unsolicited |-> Unsolicited(d, line)]>>
    [] line.kind = "result"   ->
         TurnErrors(d, line) \o <<[kind |-> "result", text |-> decoder[d].text,
                                   snapshot |-> Finished(d, line),
                                   unsolicited |-> Unsolicited(d, line)]>>
    [] OTHER -> <<[kind |-> line.kind]>>

BothRead(line) ==
  LET reads(d) == ~decoder[d].returned
  IN /\ decoder' = [d \in Decoder |-> IF reads(d) THEN DecoderAfter(d, line) ELSE decoder[d]]
     /\ delivered' = [d \in Decoder |-> IF reads(d) THEN EventsOf(d, line) ELSE <<>>]

-----------------------------------------------------------------------------
(* The lines the CLI writes, external                                      *)

\* The CLI starts turns of its own before the prompt's, and later between queries.
OpenTurn ==
  \E own, flagged \in BOOLEAN :
    /\ ~cliTurn.runs /\ cliTurn.number < MaxDecodedTurns
    /\ cliTurn' = [number |-> cliTurn.number + 1, runs |-> TRUE, own |-> own]
    /\ BothRead([kind |-> "init", unsolicited |-> flagged])
    /\ UNCHANGED outsideWindow

\* The result of the CLI's own turn answers the pending query if its prompt was folded
\* into it; any other is held.
CloseTurn ==
  \E failure \in {"none", "maxturns", "api"}, how \in Failure, usage \in {{}, {"bare"}, {"1m"}},
     held \in {FALSE, cliTurn.own} :
    /\ cliTurn.runs
    /\ failure # "api" => how = Unworded
    /\ cliTurn' = [cliTurn EXCEPT !.runs = FALSE]
    /\ BothRead([kind |-> "result", own |-> cliTurn.own, failure |-> failure, how |-> how,
                 usage |-> usage, unsolicited |-> held])
    /\ UNCHANGED outsideWindow

Fits == \A d \in Decoder : Len(decoder[d].text) < MaxPieces

WriteText ==
  /\ cliTurn.runs /\ Fits
  /\ BothRead([kind |-> "text"])
  /\ UNCHANGED <<cliTurn, outsideWindow>>

\* A background task says something between two turns.
WriteStray ==
  /\ ~cliTurn.runs /\ Fits
  /\ BothRead([kind |-> "stray"])
  /\ UNCHANGED <<cliTurn, outsideWindow>>

WriteStreamEvent ==
  \E phase \in {"start", "delta"} :
    /\ cliTurn.runs
    /\ BothRead([kind |-> "stream", phase |-> phase])
    /\ UNCHANGED <<cliTurn, outsideWindow>>

\* An API call fails, the main agent's or, "sub", a subagent's.
WriteAPIError ==
  \E sub \in BOOLEAN, how \in Failure :
    /\ cliTurn.runs
    /\ BothRead([kind |-> "apierror", sub |-> sub, how |-> how])
    /\ UNCHANGED <<cliTurn, outsideWindow>>

\* An echo; a heartbeat or a message without content; any line that stands for itself.
WriteOther ==
  \E kind \in {"echo", "quiet", "other"} :
    /\ BothRead([kind |-> kind])
    /\ UNCHANGED <<cliTurn, outsideWindow>>

\* QueryContextUsage (a session's method).
LearnWindow ==
  /\ outsideWindow = "unknown"
  /\ outsideWindow' = "1m"
  /\ delivered' = [d \in Decoder |-> <<>>]
  /\ UNCHANGED <<cliTurn, decoder>>

DecodingNext ==
  \/ OpenTurn \/ CloseTurn \/ WriteText \/ WriteStray \/ WriteStreamEvent \/ WriteAPIError
  \/ WriteOther \/ LearnWindow

DecodingSpec == DecodingInit /\ [][DecodingNext]_decodeVars

-----------------------------------------------------------------------------
DecodingTypeOK ==
  /\ cliTurn \in [number : 0..MaxDecodedTurns, runs : BOOLEAN, own : BOOLEAN]
  /\ \A d \in Decoder :
       /\ decoder[d].text \in Seq(0..MaxDecodedTurns) /\ Len(decoder[d].text) <= MaxPieces
       /\ decoder[d].snapshot \in [turn : 0..MaxDecodedTurns, phase : {"none", "start", "final"}]
       /\ decoder[d].windows \subseteq {"bare", "1m"}
       /\ decoder[d].apiError \in BOOLEAN /\ decoder[d].returned \in BOOLEAN
  /\ outsideWindow \in {"unknown", "1m"}

\* A line's events without the one that is a loop's own affair: an echo, which stands
\* alone, or a snapshot, which comes last.
Common(seq) ==
  IF seq # <<>> /\ Last(seq).kind \in {"echo", "snapshot"} THEN Front(seq) ELSE seq

\* The text p is the text r, after pieces that were said between turns.
AfterStray(p, r) ==
  LET before == Len(p) - Len(r)
  IN /\ before >= 0
     /\ \A i \in 1..before : p[i] = 0
     /\ \A i \in 1..Len(r) : p[before + i] = r[i]

\* The event p of ParseEvents and the event r of readLoop say the same.
SaySame(p, r) ==
  /\ p.kind = r.kind
  /\ p.kind = "result" => /\ p.snapshot = r.snapshot
                          /\ AfterStray(p.text, r.text)
                          /\ r.unsolicited => p.unsolicited
  /\ p.kind \notin {"init", "result"} => p = r

\* As long as both read, both say the same of a line, but for what is a session's own
\* affair (docs of decodeStatelessEvent, contextTracker and newResultEvent): echoes; for the
\* window QueryContextUsage told it, ContextSnapshotEvents; whether an init or a result is
\* Unsolicited, where a session never says so of a result that ParseEvents takes for the
\* answer; and text said between turns, which only a session drops at the next init
\* (session.go:1226, parse.go:78).
DecodersAgree ==
  ~decoder["ParseEvents"].returned \/ delivered["ParseEvents"] # <<>> =>
    LET p == Common(delivered["ParseEvents"])
        r == Common(delivered["readLoop"])
    IN /\ Len(p) = Len(r) /\ \A i \in 1..Len(p) : SaySame(p[i], r[i])
       /\ \A i \in DOMAIN delivered["ParseEvents"] :
            delivered["ParseEvents"][i].kind = "snapshot" =>
              delivered["ParseEvents"] = delivered["readLoop"]

\* A result holds the text and the measurement of its own turn, and nothing an earlier turn
\* left behind (resultText, contextTracker.reset).  A session's holds nothing a background
\* task said before the turn either; ParseEvents' may, as it does not start afresh at an
\* init (parse.go:78-80).
ResultIsOfItsTurn ==
  \A d \in Decoder : \A i \in DOMAIN delivered[d] :
    LET e == delivered[d][i]
    IN e.kind = "result" =>
         /\ ToSet(e.text) \subseteq
              IF d = "readLoop" THEN {cliTurn.number} ELSE {0, cliTurn.number}
         /\ e.snapshot.measured.turn \in {0, cliTurn.number}
=============================================================================
