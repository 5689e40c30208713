------------------------------- MODULE Login -------------------------------
(***************************************************************************)
(* A login (src/auth.go: AuthLogin, LoginProcess; src/auth_submit.go).     *)
(* AuthLogin starts the CLI and waits for its URL; a reader goroutine      *)
(* reports what the CLI prints to the login's outcome; another waits for   *)
(* its exit, gives the reader 2 s and makes the exit the verdict if there  *)
(* is none: exit 0 is the same nil as a printed success.  Submissions      *)
(* write a code, one at a time, and await a verdict; Cancel is the verdict *)
(* at once.                                                                *)
(*                                                                         *)
(* The CLI, external, asks for codes until one is accepted or the login    *)
(* fails.  A submission is modelled from where its input was parsed and    *)
(* found valid, and reaches the CLI over stdin and over its callback       *)
(* server alike.  The URL is the only other line that matters.             *)
(***************************************************************************)
EXTENDS Naturals, Sequences

CONSTANT MaxSubmits   \* bound on the submissions

ASSUME LoginAssumption == MaxSubmits \in Nat

Submission == 1..MaxSubmits
Final == {"ok", "failed"}             \* "Login successful", "Login failed"
Verdict == Final \cup {"invalid"}     \* "Invalid code", after which it asks again

VARIABLES
  cli, killed, codes, verdict, output,       \* the CLI, what it reads and prints
  login, loginCtxEnded, cleaned,             \* AuthLogin; stdin and files are gone
  sawURL, readerDone, exiter, rushed,        \* the reader; the wait for the exit
  report, epoch,                             \* loginOutcome, and its notifications
  submission, seenInvalid, asleepAt, submitMu, abandoned

cliState == <<cli, killed, codes, verdict, output>>
startState == <<login, loginCtxEnded, cleaned>>
watchState == <<sawURL, readerDone, exiter, rushed>>
submitState == <<submission, seenInvalid, asleepAt, submitMu, abandoned>>
loginVars == <<cliState, startState, watchState, report, epoch, submitState>>

LoginInit ==
  /\ cli = "none" /\ killed = FALSE /\ codes = <<>> /\ output = <<>>
  /\ verdict = [s \in Submission |-> "none"]
  /\ login = "none" /\ loginCtxEnded = FALSE /\ cleaned = FALSE
  /\ sawURL = FALSE /\ readerDone = FALSE /\ exiter = "waits" /\ rushed = FALSE
  /\ report = [invalid |-> 0, finished |-> FALSE, err |-> "none"] /\ epoch = 0
  /\ submission = [s \in Submission |-> "unused"]
  /\ seenInvalid = [s \in Submission |-> 0] /\ asleepAt = [s \in Submission |-> 0]
  /\ submitMu = FALSE /\ abandoned = FALSE

CLIExited == cli \in {"exit0", "exit1"}

-----------------------------------------------------------------------------
(* loginOutcome                                                            *)

\* Mutant of FinishWith: the last verdict wins.
FinishWithLast(err) ==
  /\ report' = [report EXCEPT !.finished = TRUE, !.err = err]
  /\ epoch' = epoch + 1

\* finish: the first verdict wins, and wakes whoever awaits one.
FinishWith(err) ==
  IF report.finished
  THEN UNCHANGED <<report, epoch>>
  ELSE /\ report' = [report EXCEPT !.finished = TRUE, !.err = err]
       /\ epoch' = epoch + 1

\* observe
ObserveLine(line) ==
  CASE line \in Final -> FinishWith(line)
    [] line = "invalid" -> /\ report' = [report EXCEPT !.invalid = @ + 1]
                           /\ epoch' = epoch + 1
    [] OTHER -> UNCHANGED <<report, epoch>>

-----------------------------------------------------------------------------
(* The CLI                                                                 *)

CLIPrintsURL ==
  /\ cli = "starts"
  /\ cli' = "asks" /\ output' = Append(output, "url")
  /\ UNCHANGED <<killed, codes, verdict, startState, watchState, report, epoch, submitState>>

CLIJudges ==
  \E v \in Verdict :
    /\ cli = "asks" /\ codes # <<>>
    /\ verdict' = [verdict EXCEPT ![Head(codes)] = v]
    /\ codes' = Tail(codes) /\ output' = Append(output, v)
    /\ cli' = IF v = "invalid" THEN "asks" ELSE v
    /\ UNCHANGED <<killed, startState, watchState, report, epoch, submitState>>

\* After its verdict, of its own accord, or killed.  A failed login exits 1
\* (auth_submit_unix_test.go:31-33, auth_integration_test.go:65).
CLIExits0or1 ==
  \E code \in {"exit0", "exit1"} :
    /\ cli \in {"starts", "asks"} \cup Final
    /\ cli = "failed" \/ killed => code = "exit1"
    /\ cli' = code
    /\ UNCHANGED <<killed, codes, verdict, output, startState, watchState, report, epoch,
                   submitState>>

-----------------------------------------------------------------------------
(* AuthLogin                                                               *)

StartLogin ==
  /\ login = "none"
  /\ login' = "waits" /\ cli' = "starts"
  /\ UNCHANGED <<killed, codes, verdict, output, loginCtxEnded, cleaned, watchState, report,
                 epoch, submitState>>

LoginHasURL ==
  /\ login = "waits" /\ sawURL
  /\ login' = "given"
  /\ UNCHANGED <<cliState, loginCtxEnded, cleaned, watchState, report, epoch, submitState>>

LoginSeesExit ==
  /\ login = "waits" /\ exiter = "exited"
  /\ login' = "refused" /\ cleaned' = TRUE
  /\ UNCHANGED <<cliState, loginCtxEnded, watchState, report, epoch, submitState>>

\* The context ended: kill, and wait for the exit.
LoginKills ==
  /\ login = "waits" /\ loginCtxEnded
  /\ login' = "kills" /\ killed' = TRUE
  /\ UNCHANGED <<cli, codes, verdict, output, loginCtxEnded, cleaned, watchState, report, epoch,
                 submitState>>

LoginKilled ==
  /\ login = "kills" /\ exiter = "exited"
  /\ login' = "refused" /\ cleaned' = TRUE
  /\ UNCHANGED <<cliState, loginCtxEnded, watchState, report, epoch, submitState>>

\* The executor kills the process of an ended context, also after AuthLogin returned.
EndLoginCtx ==
  /\ login # "none" /\ ~loginCtxEnded
  /\ loginCtxEnded' = TRUE /\ killed' = TRUE
  /\ UNCHANGED <<cli, codes, verdict, output, login, cleaned, watchState, report, epoch,
                 submitState>>

ReadOutput ==
  /\ ~readerDone /\ output # <<>>
  /\ output' = Tail(output)
  /\ sawURL' = (sawURL \/ Head(output) = "url")
  /\ ObserveLine(Head(output))
  /\ UNCHANGED <<cli, killed, codes, verdict, startState, readerDone, exiter, rushed, submitState>>

ReadOutputEnds ==
  /\ ~readerDone /\ output = <<>> /\ CLIExited
  /\ readerDone' = TRUE
  /\ UNCHANGED <<cliState, startState, sawURL, exiter, rushed, report, epoch, submitState>>

\* The scanner fails (a line over 1 MB), and what was printed stays unread.
ReadOutputFails ==
  /\ ~readerDone /\ output # <<>>
  /\ readerDone' = TRUE
  /\ UNCHANGED <<cliState, startState, sawURL, exiter, rushed, report, epoch, submitState>>

\* Mutant of ReaderCaughtUp: the exit does not wait for the reader at all.
ReaderCaughtUpAlways == TRUE

\* The reader is through, or its 2 s are over (a grandchild may hold the pipe).
ReaderCaughtUp == readerDone \/ rushed

\* Mutant of ExitReported: the exit is not a verdict.
ExitReportedNever == UNCHANGED <<report, epoch>>

\* exit: the verdict of exit 0 is nil, as that of "Login successful" is.
ExitReported == FinishWith(IF cli = "exit0" THEN "ok" ELSE "exit1")

SeeExit ==
  /\ exiter = "waits" /\ CLIExited /\ ReaderCaughtUp
  /\ ExitReported
  /\ exiter' = "exited"
  /\ UNCHANGED <<cliState, startState, sawURL, readerDone, rushed, submitState>>

GraceOver ==
  /\ exiter = "waits" /\ CLIExited /\ ~readerDone /\ ~rushed
  /\ rushed' = TRUE
  /\ UNCHANGED <<cliState, startState, sawURL, readerDone, exiter, report, epoch, submitState>>

\* Wait returns the exit error, Cancel kills; both close stdin and remove the files.
WaitLogin ==
  /\ login = "given" /\ exiter = "exited" /\ ~cleaned
  /\ cleaned' = TRUE
  /\ UNCHANGED <<cliState, login, loginCtxEnded, watchState, report, epoch, submitState>>

CancelLogin ==
  /\ login = "given" /\ ~killed
  /\ FinishWith("cancelled")
  /\ cleaned' = TRUE /\ killed' = TRUE
  /\ UNCHANGED <<cli, codes, verdict, output, login, loginCtxEnded, watchState, submitState>>

-----------------------------------------------------------------------------
(* SubmitManualCode, Submit                                                *)

Submit(s) ==
  /\ login = "given" /\ submission[s] = "unused"
  /\ \A r \in 1..(s - 1) : submission[r] # "unused"
  /\ submission' = [submission EXCEPT ![s] = "locks"]
  /\ UNCHANGED <<cliState, startState, watchState, report, epoch, seenInvalid, asleepAt, submitMu,
                 abandoned>>

\* Mutant of BeginSubmit: an older "Invalid code" counts as well.
BeginSubmitFromZero(s) ==
  /\ submission[s] = "locks" /\ ~submitMu
  /\ submission' = [submission EXCEPT ![s] = IF report.finished THEN "finished" ELSE "writes"]
  /\ submitMu' = ~report.finished
  /\ seenInvalid' = [seenInvalid EXCEPT ![s] = 0]
  /\ UNCHANGED <<cliState, startState, watchState, report, epoch, asleepAt, abandoned>>

\* submitMu, begin
BeginSubmit(s) ==
  /\ submission[s] = "locks" /\ ~submitMu
  /\ submission' = [submission EXCEPT ![s] = IF report.finished THEN "finished" ELSE "writes"]
  /\ submitMu' = ~report.finished
  /\ seenInvalid' = [seenInvalid EXCEPT ![s] = report.invalid]
  /\ UNCHANGED <<cliState, startState, watchState, report, epoch, asleepAt, abandoned>>

SubmitReturns(s, with) ==
  /\ submission' = [submission EXCEPT ![s] = with]
  /\ submitMu' = FALSE

\* To stdin, or a request to the callback server.  Either may fail, and the request
\* also after the CLI took the code: its answer is an error, or ctx ends before it.
\* (The server is there also when Cancel closed stdin.)
WriteCode(s) ==
  /\ submission[s] = "writes"
  /\ \/ /\ ~CLIExited
        /\ codes' = Append(codes, s)
        /\ submission' = [submission EXCEPT ![s] = "awaits"]
        /\ UNCHANGED <<submitMu, abandoned>>
     \/ /\ SubmitReturns(s, "unsent")
        /\ UNCHANGED <<codes, abandoned>>
     \/ /\ ~CLIExited
        /\ codes' = Append(codes, s)
        /\ SubmitReturns(s, "unsent")
        /\ abandoned' = TRUE
  /\ UNCHANGED <<cli, killed, verdict, output, startState, watchState, report, epoch, seenInvalid,
                 asleepAt>>

\* await: look under the lock, sleep until the next notification or the context's end.
LookForVerdict(s) ==
  /\ submission[s] = "awaits"
  /\ CASE report.finished -> SubmitReturns(s, report.err) /\ UNCHANGED asleepAt
       [] ~report.finished /\ report.invalid > seenInvalid[s] ->
            SubmitReturns(s, "invalid") /\ UNCHANGED asleepAt
       [] OTHER -> /\ submission' = [submission EXCEPT ![s] = "sleeps"]
                   /\ asleepAt' = [asleepAt EXCEPT ![s] = epoch]
                   /\ UNCHANGED submitMu
  /\ UNCHANGED <<cliState, startState, watchState, report, epoch, seenInvalid, abandoned>>

WakeUp(s) ==
  /\ submission[s] = "sleeps" /\ epoch > asleepAt[s]
  /\ submission' = [submission EXCEPT ![s] = "awaits"]
  /\ UNCHANGED <<cliState, startState, watchState, report, epoch, seenInvalid, asleepAt, submitMu,
                 abandoned>>

AbandonSubmit(s) ==
  /\ submission[s] = "sleeps"
  /\ SubmitReturns(s, "ctx")
  /\ abandoned' = TRUE
  /\ UNCHANGED <<cliState, startState, watchState, report, epoch, seenInvalid, asleepAt>>

LoginNext ==
  \/ CLIPrintsURL \/ CLIJudges \/ CLIExits0or1
  \/ StartLogin \/ LoginHasURL \/ LoginSeesExit \/ LoginKills \/ LoginKilled \/ EndLoginCtx
  \/ ReadOutput \/ ReadOutputEnds \/ ReadOutputFails \/ SeeExit \/ GraceOver \/ WaitLogin \/ CancelLogin
  \/ \E s \in Submission : \/ Submit(s) \/ BeginSubmit(s) \/ WriteCode(s)
                           \/ LookForVerdict(s) \/ WakeUp(s) \/ AbandonSubmit(s)

LoginSpec == LoginInit /\ [][LoginNext]_loginVars

\* A killed CLI exits, timers fire, and the SDK's goroutines run.  The CLI need
\* never judge a code.
LoginFairness ==
  /\ WF_loginVars(killed /\ CLIExits0or1)
  /\ WF_loginVars(ReadOutput \/ ReadOutputEnds)
  /\ WF_loginVars(SeeExit) /\ WF_loginVars(GraceOver)
  /\ \A s \in Submission :
       /\ WF_loginVars(WriteCode(s) \/ LookForVerdict(s) \/ WakeUp(s))
       /\ SF_loginVars(BeginSubmit(s))

-----------------------------------------------------------------------------
LoginTypeOK ==
  /\ cli \in {"none", "starts", "asks", "exit0", "exit1"} \cup Final
  /\ killed \in BOOLEAN /\ codes \in Seq(Submission) /\ output \in Seq(Verdict \cup {"url"})
  /\ verdict \in [Submission -> Verdict \cup {"none"}]
  /\ login \in {"none", "waits", "kills", "given", "refused"}
  /\ loginCtxEnded \in BOOLEAN /\ cleaned \in BOOLEAN
  /\ sawURL \in BOOLEAN /\ readerDone \in BOOLEAN /\ exiter \in {"waits", "exited"}
  /\ rushed \in BOOLEAN
  /\ report \in [invalid : Nat, finished : BOOLEAN,
                 err : Final \cup {"none", "exit1", "cancelled"}]
  /\ epoch \in Nat
  /\ submission \in [Submission -> Final \cup {"unused", "locks", "writes", "awaits", "sleeps",
                       "finished", "unsent", "invalid", "ctx", "exit1", "cancelled"}]
  /\ seenInvalid \in [Submission -> Nat] /\ asleepAt \in [Submission -> Nat]
  /\ submitMu \in BOOLEAN /\ abandoned \in BOOLEAN

Printed(v) == \E s \in Submission : verdict[s] = v
Unread(v) == \E i \in 1..Len(output) : output[i] = v
Success == Printed("ok") \/ cli = "exit0"

\* What a submission is told is true.  Success: the CLI printed it or exited 0, and did
\* not print a failure.  The exit counts because its nil is told as success too, with
\* nothing printed, where auth_submit.go:38 promises "the CLI printed Login
\* successful".  Failure: it was printed.  "Invalid code": it is about the submission's
\* own code, unless one was given up before.  And exit 1 is the verdict only while a
\* printed one is unread: the reader failed, or was still behind 2 s later
\* (SubmitManualCode, loginOutcome, AuthLogin's goroutines).
VerdictIsTrue ==
  /\ \A told \in {report.err} \cup {submission[s] : s \in Submission} :
       /\ told = "ok" => Success /\ ~Printed("failed")
       /\ told = "failed" => Printed("failed")
  /\ \A s \in Submission : submission[s] = "invalid" => abandoned \/ verdict[s] = "invalid"
  /\ report.err = "exit1" => rushed \/ \A v \in Final : Printed(v) => Unread(v)

\* No submission outlasts the CLI or a Cancel (await, exit, Cancel).
NoSubmissionHangs ==
  LET Awaiting == \E s \in Submission : submission[s] \in {"awaits", "sleeps"}
  IN LoginFairness => (Awaiting /\ (killed \/ CLIExited)) ~> ~Awaiting
=============================================================================
