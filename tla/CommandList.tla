---------------------------- MODULE CommandList ----------------------------
(***************************************************************************)
(* The slash commands of a session (src/commands.go), which three lines of *)
(* the CLI carry: the answer to initialize, CommandsChangedEvents, and     *)
(* the answers to reload_plugins.  readLoop applies a change as it reads   *)
(* it; an answer it hands to the goroutine that waits for it, which        *)
(* applies it later (src/session.go: initialize; src/control_requests.go:  *)
(* ReloadPlugins).  A list is the count of the changes it includes; 0 is   *)
(* no list.                                                                *)
(***************************************************************************)
EXTENDS Naturals, Sequences

CONSTANTS
  MaxChanges,   \* bound on the changes of the CLI's own list
  MaxReloads    \* bound on the calls of ReloadPlugins

ASSUME CommandsAssumption == MaxChanges \in Nat /\ MaxReloads \in Nat

VARIABLES
  cliCommands,       \* the CLI's own list
  commandLines,      \* lines on their way to readLoop
  request,           \* request[r]: the requests that are answered with a list
  inHand,            \* inHand[r]: the list of the answer, handed over and not yet applied
  commands, commandsChanged,   \* the session's, under commandsMu
  newest             \* the list of the last such line that readLoop delivered

commandVars == <<cliCommands, commandLines, request, inHand, commands, commandsChanged, newest>>

Initialize == 0
Request == 0..MaxReloads      \* initialize, then the calls of ReloadPlugins
List == 0..(MaxChanges + MaxReloads + 1)

CommandsInit ==
  /\ cliCommands = 0 /\ commandLines = <<>>
  /\ request = [r \in Request |-> "unsent"] /\ inHand = [r \in Request |-> 0]
  /\ commands = 0 /\ commandsChanged = FALSE /\ newest = 0

-----------------------------------------------------------------------------
\* Connect sends initialize; ReloadPlugins is for a session that Connect returned.
SendRequest(r) ==
  /\ request[r] = "unsent"
  /\ r # Initialize => request[Initialize] = "applied"
  /\ request' = [request EXCEPT ![r] = "sent"]
  /\ UNCHANGED <<cliCommands, commandLines, inHand, commands, commandsChanged, newest>>

\* The CLI (external) answers, with its list or without one; a reload is a change.
CLIAnswersCommands(r) ==
  \E with \in BOOLEAN :
    /\ request[r] = "sent"
    /\ request' = [request EXCEPT ![r] = "answered"]
    /\ cliCommands' = IF with THEN cliCommands + 1 ELSE cliCommands
    /\ commandLines' = Append(commandLines, [answers |-> {r},
                                             list |-> IF with THEN cliCommands' ELSE 0])
    /\ UNCHANGED <<inHand, commands, commandsChanged, newest>>

\* A change is only reported to a client that has introduced itself.
CLIChangesCommands ==
  /\ request[Initialize] \notin {"unsent", "sent"}
  /\ cliCommands <= MaxChanges
  /\ cliCommands' = cliCommands + 1
  /\ commandLines' = Append(commandLines, [answers |-> {}, list |-> cliCommands'])
  /\ UNCHANGED <<request, inHand, commands, commandsChanged, newest>>

-----------------------------------------------------------------------------
\* setCommands
SetCommands(list) == commands' = list /\ commandsChanged' = TRUE

\* Mutant of SeedCommands: the answer replaces a newer change.
SeedCommandsAlways(list) ==
  /\ commands' = IF list # 0 THEN list ELSE commands
  /\ UNCHANGED commandsChanged

\* seedCommands: a change that readLoop applied first is newer and stays.
SeedCommands(list) ==
  /\ commands' = IF list # 0 /\ ~commandsChanged THEN list ELSE commands
  /\ UNCHANGED commandsChanged

ReadChange ==
  /\ commandLines # <<>> /\ Head(commandLines).answers = {}
  /\ commandLines' = Tail(commandLines)
  /\ SetCommands(Head(commandLines).list)
  /\ newest' = Head(commandLines).list
  /\ UNCHANGED <<cliCommands, request, inHand>>

\* The answer goes to whoever waits for it, or to nobody if they gave up.
ReadCommandAnswer ==
  /\ commandLines # <<>> /\ Head(commandLines).answers # {}
  /\ commandLines' = Tail(commandLines)
  /\ LET waiting == {r \in Head(commandLines).answers : request[r] = "answered"}
         list == Head(commandLines).list
     IN /\ request' = [r \in Request |-> IF r \in waiting THEN "handed" ELSE request[r]]
        /\ inHand' = [r \in Request |-> IF r \in waiting THEN list ELSE inHand[r]]
        /\ newest' = IF waiting # {} /\ list # 0 THEN list ELSE newest
  /\ UNCHANGED <<cliCommands, commands, commandsChanged>>

\* The waiting goroutine goes on.
ApplyAnswer(r) ==
  /\ request[r] = "handed"
  /\ request' = [request EXCEPT ![r] = "applied"]
  /\ IF r = Initialize
     THEN SeedCommands(inHand[r])
     ELSE IF inHand[r] # 0 THEN SetCommands(inHand[r]) ELSE UNCHANGED <<commands, commandsChanged>>
  /\ UNCHANGED <<cliCommands, commandLines, inHand, newest>>

\* Its timeout, which may win though the answer is in the channel: the answer is dropped.
\* A Connect whose initialize timed out returns no session.
GiveUpRequest(r) ==
  /\ request[r] \in {"sent", "answered", "handed"}
  /\ request' = [request EXCEPT ![r] = IF request[r] = "handed" THEN "dropped" ELSE "abandoned"]
  /\ UNCHANGED <<cliCommands, commandLines, inHand, commands, commandsChanged, newest>>

CommandsNext ==
  \/ \E r \in Request : \/ SendRequest(r) \/ CLIAnswersCommands(r) \/ ApplyAnswer(r)
                        \/ GiveUpRequest(r)
  \/ CLIChangesCommands \/ ReadChange \/ ReadCommandAnswer

CommandsSpec == CommandsInit /\ [][CommandsNext]_commandVars

-----------------------------------------------------------------------------
CommandsTypeOK ==
  /\ cliCommands \in List /\ commands \in List /\ newest \in List
  /\ commandLines \in Seq([answers : SUBSET Request, list : List])
  /\ request \in [Request -> {"unsent", "sent", "answered", "handed", "applied", "abandoned",
                          "dropped"}]
  /\ inHand \in [Request -> List] /\ commandsChanged \in BOOLEAN

\* Once no answer is in anybody's hand, or was dropped from it, the session's list is the
\* one that reached it last (Commands: "replaced by every CommandsChangedEvent and every
\* ReloadPlugins answer since").
CommandsAreCurrent ==
  request[Initialize] = "applied" /\ (\A r \in Request : request[r] \notin {"handed", "dropped"}) =>
    commands = newest
=============================================================================
