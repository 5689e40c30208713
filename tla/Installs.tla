------------------------------ MODULE Installs ------------------------------
(***************************************************************************)
(* What claude binary is installed, who updates it, and whether it is      *)
(* behind: DetectInstall (src/install.go, src/pathentries.go,              *)
(* src/autoupdate.go), Update (src/update.go) and LatestPublished          *)
(* (src/published.go).  Each reads the machine in several steps, while the *)
(* CLI's background updater may replace the very copy they look at.        *)
(*                                                                         *)
(* A copy is known by its layout: who put it there, and the evidence that  *)
(* its resolved path and the files around it give.  Files that are read    *)
(* once per call have any content at the moment they are read.  A version  *)
(* is a number, and 0 is one that could not be read.  "none" stands for an *)
(* empty string of the code.                                               *)
(***************************************************************************)
EXTENDS Naturals, Sequences, FiniteSets, SequencesExt

CONSTANTS
  MaxVersion,   \* bound on the versions of the CLI
  SelfUpdates   \* whether the background updater may run

ASSUME InstallsAssumption == MaxVersion \in Nat \ {0} /\ SelfUpdates \in BOOLEAN

Nothing == [local |-> FALSE, pkg |-> FALSE, shim |-> FALSE, nodeModules |-> FALSE,
            os |-> "none", name |-> "none", vm |-> "none", versions |-> FALSE, exe |-> FALSE]
NPMTree == [Nothing EXCEPT !.pkg = TRUE, !.nodeModules = TRUE]
Brewed(cask) == [Nothing EXCEPT !.os = "homebrew", !.name = cask, !.exe = TRUE]

\* owner: who replaces this copy.  evidence: a package.json of the CLI near the binary,
\* the path segments of package and version managers, the header of an executable ...
Layout ==
  [npmLocal |-> [owner |-> "cli", evidence |-> [NPMTree EXCEPT !.local = TRUE]],
   npmGlobal |-> [owner |-> "npm", evidence |-> NPMTree],
   npmUnderNvm |-> [owner |-> "npm", evidence |-> [NPMTree EXCEPT !.vm = "nvm"]],
   npmUnderMise |-> [owner |-> "npm", evidence |-> [NPMTree EXCEPT !.os = "mise", !.vm = "mise"]],
   shim |-> [owner |-> "npm", evidence |-> [Nothing EXCEPT !.shim = TRUE, !.pkg = TRUE]],
   lostShim |-> [owner |-> "unknown", evidence |-> [Nothing EXCEPT !.shim = TRUE]],
   caskStable |-> [owner |-> "brew", evidence |-> Brewed("claude-code")],
   caskLatest |-> [owner |-> "brew", evidence |-> Brewed("claude-code@latest")],
   caskOther |-> [owner |-> "brew", evidence |-> Brewed("mine")],
   mise |-> [owner |-> "mise",
             evidence |-> [Nothing EXCEPT !.os = "mise", !.vm = "mise", !.exe = TRUE]],
   volta |-> [owner |-> "volta", evidence |-> [Nothing EXCEPT !.vm = "volta", !.exe = TRUE]],
   native |-> [owner |-> "cli", evidence |-> [Nothing EXCEPT !.versions = TRUE, !.exe = TRUE]],
   moved |-> [owner |-> "cli", evidence |-> [Nothing EXCEPT !.exe = TRUE]],
   script |-> [owner |-> "unknown", evidence |-> Nothing]]

Method == {"npm-local", "npm-global", "package-manager", "version-manager", "native", "unknown"}
Version == 0..MaxVersion
Channel == {"latest", "stable", "none"}      \* "none" is one the CLI does not publish
NoStream == [source |-> "none", channel |-> "none"]

NoInfo == [method |-> "unknown", os |-> "none", name |-> "none", command |-> "none",
           channel |-> "none", real |-> 0, entries |-> {}, version |-> 0]
NoReply == [ran |-> FALSE, err |-> FALSE, after |-> 0, changed |-> FALSE,
            stream |-> NoStream, comparable |-> FALSE]

VARIABLES
  copy,        \* the layout of the copy on PATH; "none" before the machine is chosen
  target,      \* its version; for a native copy also what its symlink resolves to
  updated,     \* target has changed since the call in progress began
  op,          \* the call in progress: its name and the channel it overrides, if any
  installPc,   \* where it is
  path,        \* the PATH directories left to walk
  info,        \* InstallInfo so far
  reply        \* UpdateResult or Published of the call, and whether the updater ran

installVars == <<copy, target, updated, op, installPc, path, info, reply>>

InstallsInit ==
  /\ copy = "none" /\ target = 1 /\ updated = FALSE
  /\ op = [name |-> "none", override |-> "none"] /\ installPc = "idle" /\ path = <<>>
  /\ info = NoInfo /\ reply = NoReply

-----------------------------------------------------------------------------
(* classifyInstall *)

NPMEvidence(e) == e.pkg \/ (~e.shim /\ e.nodeModules)

\* Mutant of Classify: an executable is native before its path is looked at.
ClassifyExecutableFirst(e) ==
  IF e.exe THEN "native"
  ELSE IF e.local THEN "npm-local" ELSE IF NPMEvidence(e) THEN "npm-global" ELSE "unknown"

\* The npm layouts, then the package managers, version managers and native ones.
Classify(e) ==
  CASE e.local -> "npm-local"
    [] ~e.local /\ NPMEvidence(e) -> "npm-global"
    [] ~e.local /\ ~NPMEvidence(e) /\ e.os # "none" -> "package-manager"
    [] ~e.local /\ ~NPMEvidence(e) /\ e.os = "none" /\ e.vm # "none" -> "version-manager"
    [] ~e.local /\ ~NPMEvidence(e) /\ e.os = "none" /\ e.vm = "none" /\ (e.versions \/ e.exe)
         -> "native"
    [] OTHER -> "unknown"

MethodFromConfig(config) ==
  CASE config = "native" -> "native" [] config = "global" -> "npm-global"
    [] config = "local" -> "npm-local" [] OTHER -> "unknown"

\* detectInstall: the config only decides what the layout does not.
MethodOf(e, config) ==
  IF Classify(e) = "unknown" THEN MethodFromConfig(config) ELSE Classify(e)

\* resolveChannel, of a setting that names a channel, an unknown one, or none.
ResolveChannel(os, name, setting) ==
  CASE os = "homebrew" /\ name = "claude-code" -> "stable"
    [] os = "homebrew" /\ name = "claude-code@latest" -> "latest"
    [] OTHER -> IF setting = "unset" THEN "latest"
                ELSE IF setting = "bogus" THEN "none" ELSE setting

\* updateCommand
UpdateCommand(m, os) ==
  CASE m \in {"native", "npm-local"} -> "claude-update"
    [] m = "npm-global" -> "npm-install"
    [] m = "package-manager" /\ os # "asdf" -> os
    [] OTHER -> "none"

\* selfManaged
SelfManaged(m) == m \in {"native", "npm-local"}

-----------------------------------------------------------------------------
\* The machine, external: what it holds, and the CLI's own background updater.
SetUp ==
  /\ copy = "none"
  /\ copy' \in DOMAIN Layout
  /\ UNCHANGED <<target, updated, op, installPc, path, info, reply>>

Replace == target' = target + 1 /\ target < MaxVersion /\ updated' = TRUE

BackgroundUpdate ==
  /\ SelfUpdates /\ copy \in {"native", "npmLocal"}
  /\ Replace
  /\ UNCHANGED <<copy, op, installPc, path, info, reply>>

\* What a name resolves to.  Only a native copy resolves to its version's own file.
Real(name) ==
  IF name = "other" THEN [copy |-> "other", version |-> 0]
  ELSE [copy |-> copy, version |-> IF copy = "native" THEN target ELSE 0]

-----------------------------------------------------------------------------
(* detectInstall *)

Call ==
  /\ copy # "none" /\ installPc = "idle"
  /\ \/ op' \in [name : {"detect", "update"}, override : {"none"}]
     \/ op' \in [name : {"published"}, override : {"none", "latest", "stable"}]
  /\ installPc' = "resolve" /\ updated' = FALSE
  /\ info' = NoInfo /\ reply' = NoReply
  /\ UNCHANGED <<copy, target, path>>

ReturnCall(o) == installPc' = "idle" /\ reply' = o

\* lookPath, which may find nothing; EvalSymlinks; and all that the resolved path, the
\* files around it, the config and the settings tell.
ResolvePath ==
  /\ installPc = "resolve"
  /\ \/ ReturnCall([reply EXCEPT !.err = TRUE]) /\ UNCHANGED info
     \/ \E config \in {"none", "native", "global", "local"},
           setting \in {"unset", "latest", "stable", "bogus"} :
          LET e == Layout[copy].evidence
              m == MethodOf(e, config)
              os == IF m = "package-manager" THEN e.os ELSE "none"
              name == IF m = "package-manager" THEN e.name ELSE "none"
          IN info' = [NoInfo EXCEPT !.method = m, !.os = os, !.name = name,
                                    !.command = UpdateCommand(m, os),
                                    !.channel = ResolveChannel(os, name, setting),
                                    !.real = Real("here").version]
        /\ installPc' = "path" /\ UNCHANGED reply
  /\ UNCHANGED <<copy, target, updated, op, path>>

\* findPathEntries starts on PATH: the copy may be in several of its directories, be
\* one of two, or not be there at all.
ReadPath ==
  /\ installPc = "path"
  /\ path' \in {<<"here">>, <<"here", "alias", "other">>, <<"other", "here">>, <<"other">>, <<>>}
  /\ installPc' = "walk"
  /\ UNCHANGED <<copy, target, updated, op, info, reply>>

\* The entry of a name, unless it resolves to a file that has one.
EntryFor(name) ==
  IF \E r \in info.entries : r.real = Real(name) THEN {}
  ELSE {[real |-> Real(name), active |-> Real(name) = [copy |-> copy, version |-> info.real]]}

WalkPath ==
  /\ installPc = "walk" /\ path # <<>>
  /\ info' = [info EXCEPT !.entries = @ \cup EntryFor(Head(path))]
  /\ path' = Tail(path)
  /\ UNCHANGED <<copy, target, updated, op, installPc, reply>>

\* The copy that runs leads the list when PATH did not reach it.
ActiveEntry == IF \E r \in info.entries : r.active THEN {} ELSE EntryFor("here")

EndWalk ==
  /\ installPc = "walk" /\ path = <<>>
  /\ info' = [info EXCEPT !.entries = @ \cup {[r EXCEPT !.active = TRUE] : r \in ActiveEntry}]
  /\ installPc' = "probe"
  /\ UNCHANGED <<copy, target, updated, op, path, reply>>

\* runVersion on the name that was found
Probe ==
  /\ installPc = "probe"
  /\ info' \in {[info EXCEPT !.version = target], info}
  /\ IF op.name = "detect" THEN ReturnCall(reply) ELSE installPc' = op.name /\ UNCHANGED reply
  /\ UNCHANGED <<copy, target, updated, op, path>>

-----------------------------------------------------------------------------
(* runUpdate *)

\* Refused: others update it, or its directory is not writable.
RefuseUpdate ==
  /\ installPc = "update"
  /\ ReturnCall([reply EXCEPT !.err = TRUE])
  /\ UNCHANGED <<copy, target, updated, op, path, info>>

\* Mutant of MayRunUpdater: whatever has an update command is updated.
MayRunUpdaterIfKnown == info.command # "none"

MayRunUpdater == SelfManaged(info.method)

\* `claude update' replaces the copy or does not, and its exit status says nothing.
RunUpdater ==
  /\ installPc = "update" /\ MayRunUpdater
  /\ \/ Replace
     \/ UNCHANGED <<target, updated>>
  /\ \E failed \in BOOLEAN : reply' = [reply EXCEPT !.ran = TRUE, !.err = failed]
  /\ installPc' = "reprobe"
  /\ UNCHANGED <<copy, op, path, info>>

\* Mutant of Changed: a version that could not be read differs from the next one.
ChangedFromNothing(before, after) == after # 0 /\ before # after

Changed(before, after) == before # 0 /\ after # 0 /\ before # after

\* reprobeVersion, on a context of its own: the probe fails, or prints no version.
Reprobe ==
  /\ installPc = "reprobe"
  /\ \E after \in {target, 0}, failed \in BOOLEAN :
       /\ failed => after = 0
       /\ ReturnCall([reply EXCEPT !.err = @ \/ failed, !.after = after,
                                  !.changed = Changed(info.version, after)])
  /\ UNCHANGED <<copy, target, updated, op, path, info>>

-----------------------------------------------------------------------------
(* latestPublished *)

ChannelAsked == IF op.override = "none" THEN info.channel ELSE op.override

IsChannelBased(m) == m \in {"npm-global", "npm-local", "native"}

\* The stream consulted: npm's dist-tags, the CLI's release channel, or the cask.
StreamOf ==
  CASE info.method \in {"npm-global", "npm-local"} -> [source |-> "npm", channel |-> ChannelAsked]
    [] info.method = "native" -> [source |-> "release", channel |-> ChannelAsked]
    [] info.name \in {"claude-code", "claude-code@latest"} ->
         [source |-> info.name, channel |-> info.channel]
    [] OTHER -> NoStream

\* ErrPublishedUnknown: nothing to ask, or lookups are disabled.  Or the request failed.
NothingPublished ==
  /\ installPc = "published"
  /\ ReturnCall([reply EXCEPT !.err = TRUE])
  /\ UNCHANGED <<copy, target, updated, op, path, info>>

\* Mutant of Comparable: any two versions compare.
ComparableAlways(published) == info.version # 0 /\ published # 0

Comparable(published) ==
  StreamOf.channel = info.channel /\ info.version # 0 /\ published # 0

\* An answer whose version may not parse.
FetchPublished ==
  /\ installPc = "published"
  /\ StreamOf # NoStream
  /\ IsChannelBased(info.method) => ChannelAsked # "none"
  /\ \E published \in {0, 1} :
       ReturnCall([reply EXCEPT !.stream = StreamOf, !.comparable = Comparable(published)])
  /\ UNCHANGED <<copy, target, updated, op, path, info>>

InstallsNext ==
  \/ SetUp \/ BackgroundUpdate \/ Call \/ ResolvePath \/ ReadPath \/ WalkPath \/ EndWalk \/ Probe
  \/ RefuseUpdate \/ RunUpdater \/ Reprobe \/ NothingPublished \/ FetchPublished

InstallsSpec == InstallsInit /\ [][InstallsNext]_installVars

-----------------------------------------------------------------------------
InstallsTypeOK ==
  /\ copy \in DOMAIN Layout \cup {"none"} /\ target \in Version \ {0} /\ updated \in BOOLEAN
  /\ installPc \in {"idle", "resolve", "path", "walk", "probe", "update", "reprobe", "published"}
  /\ path \in Seq({"here", "alias", "other"})
  /\ info.method \in Method /\ info.channel \in Channel /\ info.version \in Version
  /\ reply.after \in Version

\* Update runs the CLI's updater only on a copy that the CLI updates, or that shows no
\* owner while the config names the CLI as one: never on npm's, a package manager's or
\* a version manager's (update.go, "Only installs the CLI manages itself").  What it
\* reports it has seen: no change without a new version (UpdateResult.Changed).
UpdateIsEarned ==
  /\ reply.ran => Layout[copy].owner \in {"cli", "unknown"}
  /\ reply.changed => updated /\ reply.after \in 2..target

\* The stream this copy's owner follows, for the channel the install is set to.
OwnStream(channel) ==
  CASE copy = "caskStable" -> [source |-> "claude-code", channel |-> "stable"]
    [] copy = "caskLatest" -> [source |-> "claude-code@latest", channel |-> "latest"]
    [] copy \in {"native", "moved"} -> [source |-> "release", channel |-> channel]
    [] Layout[copy].owner = "npm" \/ copy = "npmLocal" -> [source |-> "npm", channel |-> channel]
    [] OTHER -> NoStream

\* A verdict compares the installed version with the stream its owner follows, and no
\* verdict is given for a copy whose owner publishes none (LatestPublished, "a consumer
\* that compares an installed version against the wrong one manufactures a behind").
VerdictIsOfOwnStream ==
  reply.comparable /\ Layout[copy].owner # "unknown" => reply.stream = OwnStream(info.channel)

\* However the walk of PATH goes, exactly one entry is the copy that runs
\* (pathentries.go:29, InstallPathEntry.Active: "Exactly one entry has it set").
OneCopyIsActive ==
  installPc = "probe" => Cardinality({r \in info.entries : r.active}) = 1
=============================================================================
