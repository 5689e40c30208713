------------------------------- MODULE MCParts -------------------------------
(* The components that work on state of their own, each by itself on a      *)
(* small instance: a behaviour is one of the part that `part' names, and    *)
(* the state of the others stays as it starts.                              *)
EXTENDS EventRouter, ActivityStream, SessionTurns, CommandList, Decoding, TaskBackfill,
        StdinWriter, OneShot, Pool, Login, Transcript, Installs

VARIABLE part

Parts == {"router", "activity", "turns", "commands", "decoding", "tasks", "stdin",
          "run", "pool", "login", "transcript", "installs"}

PartsInit ==
  /\ part \in Parts
  /\ RouterInit /\ Init /\ TurnsInit /\ CommandsInit /\ DecodingInit /\ BackfillInit
  /\ StdinInit /\ RunInit /\ PoolInit /\ LoginInit /\ TranscriptInit /\ InstallsInit

PartsNext ==
  /\ UNCHANGED part
  /\ IF part = "router" THEN RouterNext ELSE UNCHANGED routerVars
  /\ IF part = "activity" THEN Next ELSE UNCHANGED vars
  /\ IF part = "turns" THEN TurnsNext ELSE UNCHANGED sessionTurnVars
  /\ IF part = "commands" THEN CommandsNext ELSE UNCHANGED commandVars
  /\ IF part = "decoding" THEN DecodingNext ELSE UNCHANGED decodeVars
  /\ IF part = "tasks" THEN BackfillNext ELSE UNCHANGED backfillVars
  /\ IF part = "stdin" THEN StdinNext ELSE UNCHANGED stdinVars
  /\ IF part = "run" THEN RunNext ELSE UNCHANGED runVars
  /\ IF part = "pool" THEN PoolNext ELSE UNCHANGED poolVars
  /\ IF part = "login" THEN LoginNext ELSE UNCHANGED loginVars
  /\ IF part = "transcript" THEN TranscriptNext ELSE UNCHANGED transcriptVars
  /\ IF part = "installs" THEN InstallsNext ELSE UNCHANGED installVars

partsVars ==
  <<part, routerVars, vars, sessionTurnVars, commandVars, decodeVars, backfillVars, stdinVars,
    runVars, poolVars, loginVars, transcriptVars, installVars>>

PartsSpec == PartsInit /\ [][PartsNext]_partsVars

\* The values the variables of the part can have, and the capacities of the router's
\* mailboxes, which is what lets it never block the pump (router.go, "Backpressure").
PartsTypeOK ==
  CASE part = "router"     -> RouterTypeOK /\ Bounded
    [] part = "activity"   -> TypeOK
    [] part = "turns"      -> TurnsTypeOK
    [] part = "commands"   -> CommandsTypeOK
    [] part = "decoding"   -> DecodingTypeOK
    [] part = "tasks"      -> BackfillTypeOK
    [] part = "stdin"      -> StdinTypeOK
    [] part = "run"        -> RunTypeOK
    [] part = "pool"       -> PoolTypeOK
    [] part = "login"      -> LoginTypeOK
    [] part = "transcript" -> TranscriptTypeOK
    [] part = "installs"   -> InstallsTypeOK
=============================================================================
