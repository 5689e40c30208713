---------------------------- MODULE LoginProofs ----------------------------
(***************************************************************************)
(* Proofs about Login, for any number of submissions: its types, and that  *)
(* what the submissions are told is true.  And about Installs, for any     *)
(* number of versions: that only a copy of the CLI's own is updated, and   *)
(* that a version is compared with its own stream.                         *)
(***************************************************************************)
EXTENDS Login, Installs, TLAPS

-----------------------------------------------------------------------------
\* A code is judged once: whoever wrote it did so once, and it has no verdict yet.
Unwritten == {"unused", "locks", "writes"}

CodesAreFresh ==
  /\ \A i \in 1..Len(codes) : verdict[codes[i]] = "none" /\ submission[codes[i]] \notin Unwritten
  /\ \A i, j \in 1..Len(codes) : codes[i] = codes[j] => i = j
  /\ \A s \in Submission : submission[s] \in Unwritten => verdict[s] = "none"

\* The CLI gives one verdict, and a failed login does not exit 0.
OneVerdict ==
  /\ \A v \in Final : Printed(v) => cli \in {v, "exit0", "exit1"}
  /\ Printed("failed") => cli # "exit0" /\ ~Printed("ok")

\* A success or failure that is on its way, or was reported, is one ...
IsTrue(told) ==
  /\ told = "ok" => Success
  /\ told = "failed" => Printed("failed")

ReportIsPrinted ==
  /\ \A i \in 1..Len(output) : output[i] \in Final => Printed(output[i])
  /\ IsTrue(report.err)
  /\ report.finished <=> report.err # "none"
  /\ \A s \in Submission : IsTrue(submission[s])

\* ... and one that was printed is unread until there is a report.  Exit 1 is reported of
\* a CLI that is gone, and in the place of a verdict only while that is unread.
PrintedIsReported ==
  /\ \A v \in Final : Printed(v) => report.finished \/ Unread(v)
  /\ report.err = "exit1" => CLIExited /\ (rushed \/ readerDone)
  /\ report.err = "exit1" => rushed \/ \A v \in Final : Printed(v) => Unread(v)
  /\ login = "none" => cli = "none"

\* One submission at a time is between its begin and its return.
Active == {"writes", "awaits", "sleeps"}

OneSubmits ==
  /\ \A s \in Submission : submission[s] \in Active => submitMu
  /\ \A r, s \in Submission : submission[r] \in Active /\ submission[s] \in Active => r = s

\* "Invalid code" is not on its way; it is, once.
NoInvalid == \A i \in 1..Len(output) : output[i] # "invalid"
OneInvalid == \E i \in 1..Len(output) : \A j \in 1..Len(output) : output[j] = "invalid" <=> j = i

\* Where a submission is that wrote its code: not judged, judged and on its way, or told.
Unjudged(s) ==
  /\ verdict[s] = "none" /\ report.invalid = seenInvalid[s] /\ NoInvalid
  /\ Len(codes) = 1 /\ codes[1] = s
Underway(s) ==
  /\ verdict[s] = "invalid" /\ report.invalid = seenInvalid[s] /\ OneInvalid
  /\ Len(codes) = 0
Told(s) ==
  /\ Len(codes) = 0 /\ NoInvalid
  /\ \/ verdict[s] \in Final /\ report.invalid = seenInvalid[s]
     \/ verdict[s] = "invalid" /\ report.invalid = seenInvalid[s] + 1

\* Until one is given up or the login is over, the CLI is about the current submission.
AboutCurrent ==
  ~abandoned /\ ~report.finished =>
    /\ ~submitMu => Len(codes) = 0 /\ NoInvalid
    /\ \A s \in Submission :
         /\ submission[s] = "writes" =>
              Len(codes) = 0 /\ NoInvalid /\ report.invalid = seenInvalid[s]
         /\ submission[s] \in {"awaits", "sleeps"} => Unjudged(s) \/ Underway(s) \/ Told(s)

InvalidIsTrue ==
  \A s \in Submission : submission[s] = "invalid" => abandoned \/ verdict[s] = "invalid"

LoginInv ==
  /\ LoginTypeOK
  /\ CodesAreFresh /\ OneVerdict /\ ReportIsPrinted /\ PrintedIsReported
  /\ OneSubmits /\ AboutCurrent /\ InvalidIsTrue

-----------------------------------------------------------------------------
LEMMA AppendElement ==
  ASSUME NEW S, NEW seq \in Seq(S), NEW x \in S
  PROVE  /\ Append(seq, x) \in Seq(S) /\ Len(seq) \in Nat /\ Len(Append(seq, x)) = Len(seq) + 1
         /\ \A i \in 1..Len(seq) : Append(seq, x)[i] = seq[i]
         /\ Append(seq, x)[Len(seq) + 1] = x
  OBVIOUS

LEMMA TakeHead ==
  ASSUME NEW S, NEW seq \in Seq(S), seq # <<>>
  PROVE  /\ Head(seq) = seq[1] /\ Head(seq) \in S
         /\ Tail(seq) \in Seq(S) /\ Len(seq) \in Nat \ {0} /\ Len(Tail(seq)) = Len(seq) - 1
         /\ \A i \in 1..(Len(seq) - 1) : Tail(seq)[i] = seq[i + 1]
  OBVIOUS

LEMMA EmptySequence ==
  ASSUME NEW S, NEW seq \in Seq(S)
  PROVE  seq = <<>> <=> Len(seq) = 0
  OBVIOUS

\* finish: the first verdict stays, and nothing else of the report changes.
LEMMA FinishChanges ==
  ASSUME LoginTypeOK, NEW err \in Final \cup {"exit1", "cancelled"}, FinishWith(err)
  PROVE  /\ report' \in [invalid : Nat, finished : BOOLEAN,
                         err : Final \cup {"none", "exit1", "cancelled"}]
         /\ epoch' \in Nat
         /\ report'.finished /\ report'.invalid = report.invalid
         /\ report'.err = IF report.finished THEN report.err ELSE err
  <1>1. CASE report.finished
    <2>1. report' = report /\ epoch' = epoch
      BY <1>1, Zenon DEF FinishWith
    <2> QED
      BY <1>1, <2>1 DEF LoginTypeOK
  <1>2. CASE ~report.finished
    <2>1. report' = [report EXCEPT !.finished = TRUE, !.err = err] /\ epoch' = epoch + 1
      BY <1>2, Zenon DEF FinishWith
    <2>2. report \in [invalid : Nat, finished : BOOLEAN,
                     err : Final \cup {"none", "exit1", "cancelled"}]
          /\ epoch \in Nat
      BY DEF LoginTypeOK
    <2>3. report' = [invalid |-> report.invalid, finished |-> TRUE, err |-> err]
      BY <2>1, <2>2
    <2>4. report'.finished = TRUE /\ report'.invalid = report.invalid /\ report'.err = err
      BY <2>3
    <2>5. report' \in [invalid : Nat, finished : BOOLEAN,
                      err : Final \cup {"none", "exit1", "cancelled"}]
      BY <2>2, <2>3
    <2>6. epoch' \in Nat
      BY <2>1, <2>2
    <2> QED
      BY <1>2, <2>4, <2>5, <2>6, Zenon
  <1> QED
    BY <1>1, <1>2

\* observe: a verdict finishes, "Invalid code" is counted, and other lines are nothing.
LEMMA ObserveChanges ==
  ASSUME LoginTypeOK, NEW line \in Verdict \cup {"url"}, ObserveLine(line)
  PROVE  /\ report' \in [invalid : Nat, finished : BOOLEAN,
                         err : Final \cup {"none", "exit1", "cancelled"}]
         /\ epoch' \in Nat
         /\ report'.invalid = IF line = "invalid" THEN report.invalid + 1 ELSE report.invalid
         /\ line \in Final => report'.finished
         /\ line \notin Final => report'.finished = report.finished
         /\ report'.err = IF line \in Final /\ ~report.finished THEN line ELSE report.err
  <1>1. CASE line \in Final
    <2>1. FinishWith(line) /\ line # "invalid"
      BY <1>1 DEF ObserveLine, Final
    <2> QED
      BY <1>1, <2>1, FinishChanges
  <1>2. CASE line = "invalid"
    <2>1. report' = [report EXCEPT !.invalid = @ + 1] /\ epoch' = epoch + 1 /\ line \notin Final
      BY <1>2 DEF ObserveLine, Final
    <2>2. report \in [invalid : Nat, finished : BOOLEAN,
                     err : Final \cup {"none", "exit1", "cancelled"}]
          /\ epoch \in Nat
      BY DEF LoginTypeOK
    <2>3. report' = [invalid |-> report.invalid + 1, finished |-> report.finished, err |-> report.err]
      BY <2>1, <2>2
    <2> QED
      BY <1>2, <2>1, <2>2, <2>3
  <1>3. CASE line = "url"
    <2>1. UNCHANGED <<report, epoch>> /\ line \notin Final /\ line # "invalid"
      BY <1>3 DEF ObserveLine, Final
    <2> QED
      BY <2>1 DEF LoginTypeOK
  <1> QED
    BY <1>1, <1>2, <1>3 DEF Verdict

LEMMA LoginInitInv == LoginInit => LoginInv
  <1> SUFFICES ASSUME LoginInit PROVE LoginInv
    OBVIOUS
  <1>1. <<>> \in Seq(Submission) /\ <<>> \in Seq(Verdict \cup {"url"}) /\ Len(<<>>) = 0
    OBVIOUS
  <1>2. codes \in Seq(Submission) /\ Len(codes) = 0
        /\ output \in Seq(Verdict \cup {"url"}) /\ Len(output) = 0
    BY <1>1 DEF LoginInit
  <1>3. LoginTypeOK
    BY <1>2 DEF LoginInit, LoginTypeOK
  <1>4. \A v \in Final : ~Printed(v)
    BY DEF LoginInit, Printed, Final
  <1>6. CodesAreFresh /\ OneVerdict /\ ReportIsPrinted /\ PrintedIsReported
    BY <1>2, <1>4 DEF LoginInit, CodesAreFresh, OneVerdict, ReportIsPrinted, IsTrue,
                      PrintedIsReported, Final
  <1>5. OneSubmits /\ AboutCurrent /\ InvalidIsTrue
    BY <1>2 DEF LoginInit, OneSubmits, AboutCurrent, InvalidIsTrue, NoInvalid, Active
  <1> QED
    BY <1>3, <1>5, <1>6 DEF LoginInv

-----------------------------------------------------------------------------
\* A success stays one: a CLI that exited 0 is gone.
LEMMA SuccessStays ==
  ASSUME UNCHANGED verdict, cli = "exit0" => cli' = "exit0"
  PROVE  /\ \A v : Printed(v)' <=> Printed(v)
         /\ \A told : IsTrue(told) => IsTrue(told)'
  BY DEF IsTrue, Success, Printed

\* A step that does not touch codes, output, reports and submissions.
LEMMA Untouched ==
  ASSUME LoginInv,
         UNCHANGED <<codes, verdict, output, report, submission, seenInvalid, submitMu, abandoned>>,
         cli = "exit0" => cli' = "exit0"
  PROVE  CodesAreFresh' /\ ReportIsPrinted' /\ OneSubmits' /\ AboutCurrent' /\ InvalidIsTrue'
  <1>1. CodesAreFresh' /\ ReportIsPrinted'
    BY SuccessStays DEF LoginInv, CodesAreFresh, ReportIsPrinted
  <1>2. OneSubmits' /\ InvalidIsTrue'
    BY DEF LoginInv, OneSubmits, InvalidIsTrue
  <1>3. AboutCurrent'
    BY DEF LoginInv, AboutCurrent, Unjudged, Underway, Told, NoInvalid, OneInvalid
  <1> QED
    BY <1>1, <1>2, <1>3

\* AuthLogin, Wait, and the ends of the CLI and its output.
LEMMA StartAndEndStep ==
  ASSUME LoginInv,
         \/ StartLogin \/ LoginHasURL \/ LoginSeesExit \/ LoginKills \/ LoginKilled \/ EndLoginCtx
         \/ CLIExits0or1 \/ ReadOutputEnds \/ ReadOutputFails \/ GraceOver \/ WaitLogin
  PROVE  LoginInv'
  <1> USE DEF cliState, startState, watchState, submitState
  <1>1. UNCHANGED <<codes, verdict, output, report, submission, seenInvalid, submitMu, abandoned>>
    BY DEF StartLogin, LoginHasURL, LoginSeesExit, LoginKills, LoginKilled, EndLoginCtx,
           CLIExits0or1, ReadOutputEnds, ReadOutputFails, GraceOver, WaitLogin
  <1>2. LoginTypeOK'
    <2>1. CASE StartLogin
      BY <2>1 DEF StartLogin, LoginInv, LoginTypeOK
    <2>2. CASE LoginHasURL
      BY <2>2 DEF LoginHasURL, LoginInv, LoginTypeOK
    <2>7. CASE LoginSeesExit
      BY <2>7 DEF LoginSeesExit, LoginInv, LoginTypeOK
    <2>8. CASE LoginKills
      BY <2>8 DEF LoginKills, LoginInv, LoginTypeOK
    <2>9. CASE LoginKilled
      BY <2>9 DEF LoginKilled, LoginInv, LoginTypeOK
    <2>10. CASE EndLoginCtx
      BY <2>10 DEF EndLoginCtx, LoginInv, LoginTypeOK
    <2>3. CASE CLIExits0or1
      <3>1. /\ cli' \in {"exit0", "exit1"}
            /\ UNCHANGED <<killed, codes, verdict, output, startState, watchState, report, epoch,
                           submitState>>
        BY <2>3, Zenon DEF CLIExits0or1
      <3> QED
        BY <3>1 DEF LoginInv, LoginTypeOK
    <2>4. CASE ReadOutputEnds \/ ReadOutputFails
      <3>1. readerDone' = TRUE /\ UNCHANGED <<cliState, startState, sawURL, exiter, rushed, report,
                                             epoch, submitState>>
        BY <2>4, Zenon DEF ReadOutputEnds, ReadOutputFails
      <3> QED
        BY <3>1 DEF LoginInv, LoginTypeOK
    <2>5. CASE GraceOver
      <3>1. rushed' = TRUE /\ UNCHANGED <<cliState, startState, sawURL, readerDone, exiter, report,
                                         epoch, submitState>>
        BY <2>5, Zenon DEF GraceOver
      <3> QED
        BY <3>1 DEF LoginInv, LoginTypeOK
    <2>6. CASE WaitLogin
      BY <2>6 DEF WaitLogin, LoginInv, LoginTypeOK
    <2> QED
      BY <2>1, <2>2, <2>3, <2>4, <2>5, <2>6, <2>7, <2>8, <2>9, <2>10
  <1>4. cli = "exit0" => cli' = "exit0"
    BY <1>1 DEF StartLogin, LoginHasURL, LoginSeesExit, LoginKills, LoginKilled, EndLoginCtx,
           CLIExits0or1, ReadOutputEnds, ReadOutputFails, GraceOver, WaitLogin,
           LoginInv, PrintedIsReported, Final
  <1>5. \A v : (Printed(v)' <=> Printed(v)) /\ (Unread(v)' <=> Unread(v))
    BY <1>1 DEF Printed, Unread
  <1>3. OneVerdict' /\ PrintedIsReported'
    <2>1. (CLIExited => CLIExited') /\ (rushed => rushed') /\ (readerDone => readerDone')
      BY DEF StartLogin, LoginHasURL, LoginSeesExit, LoginKills, LoginKilled, EndLoginCtx,
             CLIExits0or1, ReadOutputEnds, ReadOutputFails, GraceOver, WaitLogin,
             LoginInv, PrintedIsReported, CLIExited, Final
    <2>2. login' = "none" => login = "none" /\ cli' = "none"
      BY DEF StartLogin, LoginHasURL, LoginSeesExit, LoginKills, LoginKilled, EndLoginCtx,
             CLIExits0or1, ReadOutputEnds, ReadOutputFails, GraceOver, WaitLogin,
             LoginInv, PrintedIsReported, Final
    <2>3. PrintedIsReported'
      BY <1>1, <1>5, <2>1, <2>2 DEF LoginInv, PrintedIsReported
    <2>4. CASE UNCHANGED cli
      BY <1>5, <2>3, <2>4 DEF LoginInv, OneVerdict
    <2>5. CASE StartLogin
      BY <1>5, <2>3, <2>5 DEF StartLogin, LoginInv, OneVerdict, PrintedIsReported, Final
    <2>6. CASE CLIExits0or1
      BY <1>5, <2>3, <2>6 DEF CLIExits0or1, LoginInv, OneVerdict, Final
    <2> QED
      BY <2>3, <2>4, <2>5, <2>6 DEF LoginHasURL, LoginSeesExit, LoginKills, LoginKilled,
             EndLoginCtx, ReadOutputEnds, ReadOutputFails, GraceOver, WaitLogin
  <1> QED
    BY <1>1, <1>2, <1>3, <1>4, Untouched DEF LoginInv

\* The exit and Cancel: a verdict that nobody printed.
LEMMA FinishStep ==
  ASSUME LoginInv, SeeExit \/ CancelLogin
  PROVE  LoginInv'
  <1> USE DEF cliState, startState, watchState, submitState
  <1>1. PICK err \in {"ok", "exit1", "cancelled"} :
          /\ FinishWith(err)
          /\ err = "ok" => cli = "exit0"
          /\ err = "exit1" => CLIExited /\ ReaderCaughtUp
    BY DEF SeeExit, CancelLogin, ExitReported
  <1>2. /\ report' \in [invalid : Nat, finished : BOOLEAN,
                        err : Final \cup {"none", "exit1", "cancelled"}]
        /\ epoch' \in Nat
        /\ report'.finished /\ report'.invalid = report.invalid
        /\ report'.err = IF report.finished THEN report.err ELSE err
    BY <1>1, FinishChanges DEF LoginInv, Final
  <1>3. UNCHANGED <<cli, codes, verdict, output, submission, seenInvalid, submitMu, abandoned,
                    login, readerDone, rushed>>
    BY DEF SeeExit, CancelLogin
  <1>4. LoginTypeOK'
    <2>1. CASE SeeExit
      <3>1. exiter' = "exited" /\ UNCHANGED <<cliState, startState, sawURL, readerDone, rushed, submitState>>
        BY <2>1, Zenon DEF SeeExit
      <3> QED
        BY <1>2, <3>1 DEF LoginInv, LoginTypeOK
    <2>2. CASE CancelLogin
      <3>1. cleaned' = TRUE /\ killed' = TRUE
            /\ UNCHANGED <<cli, codes, verdict, output, login, loginCtxEnded, watchState, submitState>>
        BY <2>2, Zenon DEF CancelLogin
      <3> QED
        BY <1>2, <3>1 DEF LoginInv, LoginTypeOK
    <2> QED
      BY <2>1, <2>2
  <1>5. CodesAreFresh' /\ OneSubmits' /\ InvalidIsTrue' /\ AboutCurrent'
    BY <1>2, <1>3 DEF LoginInv, CodesAreFresh, OneSubmits, InvalidIsTrue, AboutCurrent
  <1>8. /\ \A v : (Printed(v)' <=> Printed(v)) /\ (Unread(v)' <=> Unread(v))
        /\ \A told : IsTrue(told) => IsTrue(told)'
    BY <1>3, SuccessStays DEF Printed, Unread
  <1>6. OneVerdict' /\ ReportIsPrinted'
    <2>1. ~report.finished => IsTrue(report'.err)
      BY <1>1, <1>2 DEF IsTrue, Success
    <2>2. report.finished => report'.err = report.err
      BY <1>2
    <2>3. IsTrue(report'.err)
      BY <2>1, <2>2 DEF LoginInv, ReportIsPrinted
    <2>4. (IsTrue(report.err))'
      BY <1>3, <2>3 DEF IsTrue, Success, Printed
    <2>5. (\A s \in Submission : IsTrue(submission[s]))'
      BY <1>3, <1>8 DEF LoginInv, ReportIsPrinted
    <2>6. (\A i \in 1..Len(output) : output[i] \in Final => Printed(output[i]))'
      BY <1>3, <1>8 DEF LoginInv, ReportIsPrinted
    <2>7. report'.finished <=> report'.err # "none"
      BY <1>2 DEF LoginInv, ReportIsPrinted
    <2>8. OneVerdict'
      BY <1>3, <1>8 DEF LoginInv, OneVerdict
    <2> QED
      BY <2>4, <2>5, <2>6, <2>7, <2>8 DEF ReportIsPrinted
  <1>7. PrintedIsReported'
    BY <1>1, <1>2, <1>3, <1>8 DEF ReaderCaughtUp, LoginInv, PrintedIsReported, CLIExited
  <1> QED
    BY <1>4, <1>5, <1>6, <1>7 DEF LoginInv

-----------------------------------------------------------------------------
\* The CLI prints its URL, or judges the code at the head, for the first time.
LEMMA PrintStep ==
  ASSUME LoginInv, CLIPrintsURL \/ CLIJudges
  PROVE  LoginInv'
  <1> USE DEF startState, watchState, submitState
  <1> DEFINE n == Len(output)
  <1>1. UNCHANGED <<killed, startState, watchState, report, epoch, submitState>> /\ ~CLIExited
        /\ cli \in {"starts", "asks"}
    BY DEF CLIPrintsURL, CLIJudges, CLIExited
  <1>2. PICK x \in Verdict \cup {"url"} : output' = Append(output, x)
    BY DEF CLIPrintsURL, CLIJudges
  <1>3. /\ n \in Nat /\ output' \in Seq(Verdict \cup {"url"}) /\ Len(output') = n + 1
        /\ output'[n + 1] = x /\ \A i \in 1..n : output'[i] = output[i]
    BY <1>2, AppendElement DEF LoginInv, LoginTypeOK
  <1>4. \/ x = "url" /\ UNCHANGED <<codes, verdict>> /\ cli' = "asks"
        \/ /\ x \in Verdict /\ codes # <<>> /\ cli' = IF x = "invalid" THEN "asks" ELSE x
           /\ codes' = Tail(codes) /\ verdict' = [verdict EXCEPT ![Head(codes)] = x]
    <2>1. CASE CLIPrintsURL
      <3>1. output' = Append(output, "url") /\ UNCHANGED <<codes, verdict>> /\ cli' = "asks"
        BY <2>1 DEF CLIPrintsURL
      <3>2. x = "url"
        BY <3>1, <1>2, AppendElement DEF LoginInv, LoginTypeOK, Verdict
      <3> QED
        BY <3>1, <3>2
    <2>2. CASE CLIJudges
      <3>1. PICK v \in Verdict : /\ codes # <<>> /\ codes' = Tail(codes)
                                /\ verdict' = [verdict EXCEPT ![Head(codes)] = v]
                                /\ output' = Append(output, v)
                                /\ cli' = IF v = "invalid" THEN "asks" ELSE v
        BY <2>2, Zenon DEF CLIJudges
      <3>2. output \in Seq(Verdict \cup {"url"}) /\ v \in Verdict \cup {"url"}
        BY DEF LoginInv, LoginTypeOK
      <3>3. Append(output, v)[n + 1] = v
        BY <3>2, AppendElement
      <3>4. x = v
        BY <3>1, <3>3, <1>3
      <3> QED
        BY <3>1, <3>4
    <2> QED
      BY <2>1, <2>2
  <1>7. \A v \in Final : ~Printed(v)
    BY <1>1 DEF LoginInv, OneVerdict, Final
  <1>8. \A v : Unread(v)' <=> Unread(v) \/ x = v
    BY <1>3 DEF Unread
  <1>5. CASE x = "url" /\ UNCHANGED <<codes, verdict>> /\ cli' = "asks"
    <2>1. LoginTypeOK'
      BY <1>1, <1>3, <1>5 DEF LoginInv, LoginTypeOK
    <2>2. CodesAreFresh' /\ OneSubmits' /\ InvalidIsTrue'
      BY <1>1, <1>5 DEF LoginInv, CodesAreFresh, OneSubmits, InvalidIsTrue
    <2>7. cli # "exit0" /\ \A v : Printed(v)' <=> Printed(v)
      BY <1>1, <1>5 DEF Printed
    <2>3. ReportIsPrinted'
      BY <1>1, <1>3, <1>5, <2>7, SuccessStays DEF LoginInv, ReportIsPrinted, Final
    <2>4. OneVerdict' /\ PrintedIsReported'
      BY <1>1, <1>5, <1>7, <1>8, <2>7 DEF LoginInv, OneVerdict, PrintedIsReported, CLIExited, Final
    <2>5. (NoInvalid => NoInvalid') /\ (OneInvalid => OneInvalid')
      <3>1. NoInvalid => NoInvalid'
        BY <1>3, <1>5 DEF NoInvalid
      <3>2. ASSUME OneInvalid PROVE OneInvalid'
        <4>1. PICK i \in 1..n : \A j \in 1..n : output[j] = "invalid" <=> j = i
          BY <3>2 DEF OneInvalid
        <4>2. i \in 1..(n + 1) /\ \A j \in 1..(n + 1) : output'[j] = "invalid" <=> j = i
          BY <4>1, <1>3, <1>5
        <4> QED
          BY <4>2, <1>3 DEF OneInvalid
      <3> QED
        BY <3>1, <3>2
    <2>6. AboutCurrent'
      BY <1>1, <1>5, <2>5 DEF LoginInv, AboutCurrent, Unjudged, Underway, Told
    <2> QED
      BY <2>1, <2>2, <2>3, <2>4, <2>6 DEF LoginInv
  <1>6. CASE /\ x \in Verdict /\ codes # <<>> /\ cli' = IF x = "invalid" THEN "asks" ELSE x
             /\ codes' = Tail(codes) /\ verdict' = [verdict EXCEPT ![Head(codes)] = x]
    <2> DEFINE h == Head(codes)
    <2>1. /\ h = codes[1] /\ h \in Submission /\ codes' \in Seq(Submission)
          /\ Len(codes) \in Nat \ {0} /\ Len(codes') = Len(codes) - 1
          /\ \A i \in 1..Len(codes') : codes'[i] = codes[i + 1]
      BY <1>6, TakeHead DEF LoginInv, LoginTypeOK
    <2>2. verdict[h] = "none" /\ submission[h] \notin Unwritten
      BY <2>1 DEF LoginInv, CodesAreFresh
    <2> HIDE DEF h
    <2>3. /\ verdict' \in [Submission -> Verdict \cup {"none"}] /\ verdict'[h] = x
          /\ \A s \in Submission : s # h => verdict'[s] = verdict[s]
      BY <1>6, <2>1 DEF LoginInv, LoginTypeOK, h
    <2>4. \A v \in Final : Printed(v) => Printed(v)'
      BY <2>2, <2>3 DEF Printed, Final
    <2>5. \A v \in Final : Printed(v)' => Printed(v) \/ x = v
      BY <2>3 DEF Printed
    <2>6. LoginTypeOK'
      BY <1>1, <1>3, <1>6, <2>1, <2>3 DEF LoginInv, LoginTypeOK, Verdict
    <2>7. CodesAreFresh'
      <3>1. \A i \in 1..Len(codes') : codes'[i] # h
        BY <2>1 DEF LoginInv, CodesAreFresh
      <3>2. \A i \in 1..Len(codes') : codes'[i] \in Submission
        BY <2>1
      <3>3. \A i \in 1..Len(codes') : verdict'[codes'[i]] = "none" /\ submission'[codes'[i]] \notin Unwritten
        BY <1>1, <2>1, <2>3, <3>1, <3>2 DEF LoginInv, CodesAreFresh
      <3>4. \A i, j \in 1..Len(codes') : codes'[i] = codes'[j] => i = j
        <4> SUFFICES ASSUME NEW i \in 1..Len(codes'), NEW j \in 1..Len(codes'),
                            codes'[i] = codes'[j]
                     PROVE  i = j
          OBVIOUS
        <4>1. i + 1 \in 1..Len(codes) /\ j + 1 \in 1..Len(codes) /\ codes[i + 1] = codes[j + 1]
          BY <2>1
        <4>2. i + 1 = j + 1
          BY <4>1 DEF LoginInv, CodesAreFresh
        <4> QED
          BY <4>2
      <3>5. \A s \in Submission : submission'[s] \in Unwritten => verdict'[s] = "none"
        BY <1>1, <2>2, <2>3 DEF LoginInv, CodesAreFresh
      <3> QED
        BY <3>3, <3>4, <3>5 DEF CodesAreFresh
    <2>8. ReportIsPrinted'
      <3>1. x \in Final => Printed(x)'
        BY <2>1, <2>3 DEF Printed
      <3>2. \A told : IsTrue(told) => told \notin Final
        BY <1>1, <1>7 DEF IsTrue, Success, Final
      <3>3. \A told : told \notin Final => IsTrue(told)'
        BY DEF IsTrue, Final
      <3> QED
        BY <1>1, <1>3, <2>4, <3>1, <3>2, <3>3 DEF LoginInv, ReportIsPrinted
    <2>9. OneVerdict' /\ PrintedIsReported'
      <3>1. \A v \in Final : Printed(v)' => x = v
        BY <1>7, <2>5
      <3>2. OneVerdict'
        BY <1>6, <3>1 DEF OneVerdict, Final
      <3>3. login' # "none" /\ report'.err # "exit1"
        BY <1>1 DEF LoginInv, PrintedIsReported
      <3>4. \A v \in Final : Printed(v)' => Unread(v)'
        BY <1>8, <3>1
      <3> QED
        BY <3>2, <3>3, <3>4 DEF PrintedIsReported
    <2>10. OneSubmits' /\ InvalidIsTrue'
      BY <1>1, <2>2, <2>3 DEF LoginInv, OneSubmits, InvalidIsTrue
    <2>11. AboutCurrent'
      <3> SUFFICES ASSUME ~abandoned, ~report.finished PROVE AboutCurrent'
        BY <1>1 DEF AboutCurrent
      <3>1. submitMu /\ \A s \in Submission : submission[s] # "writes"
        BY <2>1 DEF LoginInv, AboutCurrent
      <3>2. ASSUME NEW s \in Submission, submission[s] \in {"awaits", "sleeps"}
            PROVE  Unjudged(s)' \/ Underway(s)' \/ Told(s)'
        <4>1. Unjudged(s)
          BY <2>1, <3>2 DEF LoginInv, AboutCurrent, Underway, Told
        <4>2. s = h /\ Len(codes') = 0 /\ report'.invalid = seenInvalid'[s]
          BY <1>1, <2>1, <4>1 DEF Unjudged
        <4>3. CASE x = "invalid"
          <5>1. n + 1 \in 1..(n + 1) /\ \A j \in 1..(n + 1) : output'[j] = "invalid" <=> j = n + 1
            BY <1>3, <4>1, <4>3 DEF Unjudged, NoInvalid
          <5>2. OneInvalid'
            BY <5>1, <1>3 DEF OneInvalid
          <5> QED
            BY <2>3, <4>2, <4>3, <5>2 DEF Underway
        <4>4. CASE x \in Final
          <5>1. NoInvalid'
            BY <1>3, <4>1, <4>4 DEF Unjudged, NoInvalid, Final
          <5> QED
            BY <2>3, <4>2, <4>4, <5>1 DEF Told
        <4> QED
          BY <1>6, <4>3, <4>4 DEF Verdict
      <3> QED
        BY <1>1, <3>1, <3>2 DEF AboutCurrent
    <2> QED
      BY <2>6, <2>7, <2>8, <2>9, <2>10, <2>11 DEF LoginInv
  <1> QED
    BY <1>4, <1>5, <1>6

\* The reader takes a line off the output, and reports it.
LEMMA ReadStep ==
  ASSUME LoginInv, ReadOutput
  PROVE  LoginInv'
  <1> USE DEF startState, submitState
  <1> DEFINE n == Len(output)
             line == Head(output)
  <1>1. /\ ~readerDone /\ output # <<>> /\ output' = Tail(output)
        /\ sawURL' = (sawURL \/ line = "url") /\ ObserveLine(line)
        /\ UNCHANGED <<cli, killed, codes, verdict, startState, readerDone, exiter, rushed, submitState>>
    BY Zenon DEF ReadOutput
  <1>2. /\ line = output[1] /\ line \in Verdict \cup {"url"} /\ n \in Nat \ {0}
        /\ output' \in Seq(Verdict \cup {"url"}) /\ Len(output') = n - 1
        /\ \A i \in 1..(n - 1) : output'[i] = output[i + 1]
    BY <1>1, TakeHead DEF LoginInv, LoginTypeOK
  <1>3. /\ report' \in [invalid : Nat, finished : BOOLEAN,
                        err : Final \cup {"none", "exit1", "cancelled"}]
        /\ epoch' \in Nat
        /\ report'.invalid = IF line = "invalid" THEN report.invalid + 1 ELSE report.invalid
        /\ line \in Final => report'.finished
        /\ line \notin Final => report'.finished = report.finished
        /\ report'.err = IF line \in Final /\ ~report.finished THEN line ELSE report.err
    BY <1>1, <1>2, ObserveChanges DEF LoginInv
  <1> HIDE DEF line
  <1>4. LoginTypeOK'
    BY <1>1, <1>2, <1>3 DEF LoginInv, LoginTypeOK
  <1>5. CodesAreFresh' /\ OneSubmits' /\ InvalidIsTrue'
    BY <1>1 DEF LoginInv, CodesAreFresh, OneSubmits, InvalidIsTrue
  <1>6. \A v : Printed(v)' <=> Printed(v)
    BY <1>1 DEF Printed
  <1>7. OneVerdict' /\ ReportIsPrinted'
    <2>1. line \in Final => IsTrue(line)
      BY <1>2 DEF LoginInv, ReportIsPrinted, IsTrue, Success
    <2>2. (\A i \in 1..Len(output) : output[i] \in Final => Printed(output[i]))'
      BY <1>1, <1>2 DEF LoginInv, ReportIsPrinted, Printed
    <2>6. \A told : IsTrue(told) => IsTrue(told)'
      BY <1>1, SuccessStays
    <2>7. IsTrue(report'.err)
      BY <1>3, <2>1 DEF LoginInv, ReportIsPrinted
    <2>3. (IsTrue(report.err))'
      BY <1>1, <2>7 DEF IsTrue, Success, Printed
    <2>4. report'.finished <=> report'.err # "none"
      BY <1>3 DEF LoginInv, ReportIsPrinted, Final
    <2>5. (\A s \in Submission : IsTrue(submission[s]))'
      BY <1>1, <2>6 DEF LoginInv, ReportIsPrinted
    <2>8. OneVerdict'
      BY <1>1, <1>6 DEF LoginInv, OneVerdict
    <2> QED
      BY <2>2, <2>3, <2>4, <2>5, <2>8 DEF ReportIsPrinted
  <1>8. PrintedIsReported'
    <2>1. ASSUME NEW v \in Final, Printed(v)', ~report'.finished
          PROVE  Unread(v)'
      <3>1. line \notin Final /\ ~report.finished
        BY <1>3, <2>1
      <3>2. PICK i \in 1..n : output[i] = v
        BY <1>6, <2>1, <3>1 DEF LoginInv, PrintedIsReported, Unread
      <3>3. i # 1
        BY <1>2, <3>1, <3>2
      <3>4. i - 1 \in 1..(n - 1) /\ output'[i - 1] = output[(i - 1) + 1] /\ (i - 1) + 1 = i
        BY <1>2, <3>3
      <3>5. i - 1 \in 1..Len(output') /\ output'[i - 1] = v
        BY <1>2, <3>2, <3>4
      <3> QED
        BY <3>5 DEF Unread
    <2>2. report'.err = "exit1" => report.err = "exit1" /\ rushed
      BY <1>1, <1>3 DEF Final, LoginInv, PrintedIsReported
    <2> QED
      BY <1>1, <1>6, <2>1, <2>2 DEF LoginInv, PrintedIsReported, CLIExited
  <1>9. AboutCurrent'
    <2> SUFFICES ASSUME ~abandoned, ~report'.finished PROVE AboutCurrent'
      BY <1>1 DEF AboutCurrent
    <2>1. ~report.finished /\ line \notin Final
      BY <1>3
    <2>2. NoInvalid => NoInvalid' /\ report'.invalid = report.invalid
      BY <1>2, <1>3 DEF NoInvalid
    <2>3. CASE line # "invalid"
      <3>1. report'.invalid = report.invalid
        BY <1>3, <2>3
      <3>2. ASSUME OneInvalid PROVE OneInvalid'
        <4>1. PICK i \in 1..n : \A j \in 1..n : output[j] = "invalid" <=> j = i
          BY <3>2 DEF OneInvalid
        <4>2. i # 1
          BY <1>2, <2>3, <4>1
        <4>3. PICK k \in 1..(n - 1) : i = k + 1
          BY <1>2, <4>2
        <4>4. \A j \in 1..(n - 1) : output'[j] = "invalid" <=> j = k
          <5> TAKE j \in 1..(n - 1)
          <5>1. j + 1 \in 1..n /\ output'[j] = output[j + 1]
            BY <1>2
          <5>2. output[j + 1] = "invalid" <=> j + 1 = i
            BY <5>1, <4>1
          <5> QED
            BY <1>2, <5>1, <5>2, <4>3
        <4>5. k \in 1..Len(output') /\ \A j \in 1..Len(output') : output'[j] = "invalid" <=> j = k
          BY <1>2, <4>4
        <4> QED
          BY <4>5 DEF OneInvalid
      <3> QED
        BY <1>1, <2>1, <2>2, <3>1, <3>2 DEF LoginInv, AboutCurrent, Unjudged, Underway, Told
    <2>4. CASE line = "invalid"
      <3>1. 1 \in 1..n /\ output[1] = "invalid"
        BY <1>2, <2>4
      <3>2. ~NoInvalid
        BY <3>1 DEF NoInvalid
      <3>3. ASSUME OneInvalid PROVE NoInvalid'
        <4>1. \A j \in 1..n : output[j] = "invalid" => j = 1
          BY <3>1, <3>3 DEF OneInvalid
        <4>2. \A j \in 1..(n - 1) : j + 1 \in 1..n /\ j + 1 # 1
          BY <1>2
        <4> QED
          BY <1>2, <4>1, <4>2 DEF NoInvalid
      <3>4. report'.invalid = report.invalid + 1
        BY <1>3, <2>4
      <3>5. ASSUME NEW s \in Submission, submission[s] \in {"awaits", "sleeps"} PROVE Told(s)'
        <4>1. Underway(s)
          BY <2>1, <3>2, <3>5 DEF LoginInv, AboutCurrent, Unjudged, Told
        <4> QED
          BY <1>1, <3>3, <3>4, <4>1 DEF Underway, Told
      <3> QED
        BY <1>1, <2>1, <3>2, <3>5 DEF LoginInv, AboutCurrent
    <2> QED
      BY <2>3, <2>4
  <1> QED
    BY <1>4, <1>5, <1>7, <1>8, <1>9 DEF LoginInv

-----------------------------------------------------------------------------
\* A submission moves: the CLI, its output and the reports are as they were.
LEMMA MovePrinted ==
  ASSUME LoginInv,
         UNCHANGED <<cli, verdict, output, login, readerDone, rushed, report>>
  PROVE  OneVerdict' /\ PrintedIsReported' /\ \A told : IsTrue(told) => IsTrue(told)'
  BY SuccessStays DEF LoginInv, OneVerdict, PrintedIsReported, Printed, Unread, CLIExited

\* ... and what it is told is as true as before.
LEMMA Moved ==
  ASSUME LoginInv, NEW s \in Submission, UNCHANGED <<cli, verdict, output, report>>,
         \A r \in Submission : r # s => submission'[r] = submission[r],
         IsTrue(submission'[s])
  PROVE  ReportIsPrinted'
  <1>1. (Success' <=> Success) /\ \A v : Printed(v)' <=> Printed(v)
    BY DEF Success, Printed
  <1>2. \A r \in Submission : IsTrue(submission'[r])
    BY DEF LoginInv, ReportIsPrinted
  <1> QED
    BY <1>1, <1>2 DEF LoginInv, ReportIsPrinted, IsTrue

\* A call that has not begun, or wakes up.
LEMMA WaitStep ==
  ASSUME LoginInv, NEW s \in Submission, Submit(s) \/ WakeUp(s)
  PROVE  LoginInv'
  <1> USE DEF cliState, startState, watchState
  <1>1. /\ UNCHANGED <<cliState, startState, watchState, report, epoch, seenInvalid, asleepAt,
                       submitMu, abandoned>>
        /\ \/ /\ submission[s] = "unused"
              /\ submission' = [submission EXCEPT ![s] = "locks"]
           \/ /\ submission[s] = "sleeps"
              /\ submission' = [submission EXCEPT ![s] = "awaits"]
    BY Zenon DEF Submit, WakeUp
  <1>2. LoginTypeOK' /\ OneVerdict' /\ PrintedIsReported'
    <2>1. submission' \in [Submission -> Final \cup {"unused", "locks", "writes", "awaits", "sleeps",
             "finished", "unsent", "invalid", "ctx", "exit1", "cancelled"}]
      BY <1>1 DEF LoginInv, LoginTypeOK
    <2>2. OneVerdict' /\ PrintedIsReported'
      BY <1>1, MovePrinted
    <2> QED
      BY <1>1, <2>1, <2>2 DEF LoginInv, LoginTypeOK
  <1>3. \A r \in Submission : r # s => submission'[r] = submission[r]
    BY <1>1 DEF LoginInv, LoginTypeOK
  <1>4. submission'[s] \in {"locks", "awaits"}
        /\ (submission'[s] = "locks" => submission[s] = "unused")
        /\ (submission'[s] = "awaits" => submission[s] = "sleeps")
    BY <1>1 DEF LoginInv, LoginTypeOK
  <1>5. \A i \in 1..Len(codes) : codes[i] \in Submission
    BY DEF LoginInv, LoginTypeOK
  <1>6. CodesAreFresh'
    BY <1>1, <1>3, <1>4, <1>5 DEF LoginInv, CodesAreFresh, Unwritten
  <1>7. ReportIsPrinted' /\ InvalidIsTrue'
    BY <1>1, <1>3, <1>4, Moved DEF IsTrue, LoginInv, InvalidIsTrue
  <1>8. OneSubmits'
    BY <1>1, <1>3, <1>4 DEF LoginInv, OneSubmits, Active
  <1>9. AboutCurrent'
    <2> SUFFICES ASSUME ~abandoned, ~report.finished PROVE AboutCurrent'
      BY <1>1 DEF AboutCurrent
    <2>1. \A r \in Submission : submission'[r] = "writes" => submission[r] = "writes"
      BY <1>3, <1>4
    <2>2. \A r \in Submission : submission'[r] \in {"awaits", "sleeps"} =>
            submission[r] \in {"awaits", "sleeps"}
      BY <1>3, <1>4
    <2>3. (NoInvalid' <=> NoInvalid) /\ (OneInvalid' <=> OneInvalid)
      BY <1>1 DEF NoInvalid, OneInvalid
    <2>5. ~submitMu' => Len(codes') = 0 /\ NoInvalid'
      BY <1>1, <2>3 DEF LoginInv, AboutCurrent
    <2>6. ASSUME NEW r \in Submission, submission'[r] = "writes"
          PROVE  Len(codes') = 0 /\ NoInvalid' /\ report'.invalid = seenInvalid'[r]
      BY <1>1, <2>1, <2>3, <2>6 DEF LoginInv, AboutCurrent
    <2>7. ASSUME NEW r \in Submission, submission'[r] \in {"awaits", "sleeps"}
          PROVE  Unjudged(r)' \/ Underway(r)' \/ Told(r)'
      <3>1. Unjudged(r) \/ Underway(r) \/ Told(r)
        BY <2>2, <2>7 DEF LoginInv, AboutCurrent
      <3> QED
        BY <1>1, <2>3, <3>1 DEF Unjudged, Underway, Told
    <2> QED
      BY <2>5, <2>6, <2>7 DEF AboutCurrent
  <1> QED
    BY <1>2, <1>6, <1>7, <1>8, <1>9 DEF LoginInv

\* begin: nobody else has submitMu, so nothing of an earlier code is on its way.
LEMMA BeginStep ==
  ASSUME LoginInv, NEW s \in Submission, BeginSubmit(s)
  PROVE  LoginInv'
  <1> USE DEF cliState, startState, watchState
  <1>1. /\ submission[s] = "locks" /\ ~submitMu
        /\ submission' = [submission EXCEPT ![s] = IF report.finished THEN "finished" ELSE "writes"]
        /\ submitMu' = ~report.finished
        /\ seenInvalid' = [seenInvalid EXCEPT ![s] = report.invalid]
        /\ UNCHANGED <<cliState, startState, watchState, report, epoch, asleepAt, abandoned>>
    BY Zenon DEF BeginSubmit
  <1>2. report.finished \in BOOLEAN /\ report.invalid \in Nat
    BY DEF LoginInv, LoginTypeOK
  <1>3. LoginTypeOK' /\ OneVerdict' /\ PrintedIsReported'
    <2>1. submission' \in [Submission -> Final \cup {"unused", "locks", "writes", "awaits", "sleeps",
             "finished", "unsent", "invalid", "ctx", "exit1", "cancelled"}]
      BY <1>1 DEF LoginInv, LoginTypeOK
    <2>2. seenInvalid' \in [Submission -> Nat] /\ submitMu' \in BOOLEAN
      BY <1>1, <1>2 DEF LoginInv, LoginTypeOK
    <2> QED
      BY <1>1, <2>1, <2>2, MovePrinted DEF LoginInv, LoginTypeOK
  <1>4. \A r \in Submission : r # s => submission'[r] = submission[r]
    BY <1>1 DEF LoginInv, LoginTypeOK
  <1>5. /\ submission'[s] = IF report.finished THEN "finished" ELSE "writes"
        /\ seenInvalid'[s] = report.invalid
    BY <1>1 DEF LoginInv, LoginTypeOK
  <1>6. \A i \in 1..Len(codes) : codes[i] \in Submission /\ codes[i] # s
    BY <1>1 DEF LoginInv, LoginTypeOK, CodesAreFresh, Unwritten
  <1>7. CodesAreFresh'
    BY <1>1, <1>4, <1>6 DEF LoginInv, CodesAreFresh, Unwritten
  <1>8. ReportIsPrinted' /\ InvalidIsTrue'
    BY <1>1, <1>4, <1>5, Moved DEF IsTrue, LoginInv, InvalidIsTrue
  <1>9. \A r \in Submission : submission'[r] \in Active => r = s /\ ~report.finished
    BY <1>1, <1>4, <1>5 DEF LoginInv, OneSubmits, Active
  <1>10. OneSubmits'
    BY <1>1, <1>9 DEF OneSubmits
  <1>11. AboutCurrent'
    <2> SUFFICES ASSUME ~abandoned, ~report.finished PROVE AboutCurrent'
      BY <1>1 DEF AboutCurrent
    <2>1. Len(codes) = 0 /\ NoInvalid
      BY <1>1 DEF LoginInv, AboutCurrent
    <2>2. \A r \in Submission : submission'[r] \notin {"awaits", "sleeps"}
      BY <1>5, <1>9 DEF Active
    <2> QED
      BY <1>1, <1>5, <1>9, <2>1, <2>2 DEF AboutCurrent, NoInvalid, Active
  <1> QED
    BY <1>3, <1>7, <1>8, <1>10, <1>11 DEF LoginInv

\* A submission returns, with a verdict or without one.
LEMMA ReturnStep ==
  ASSUME LoginInv, NEW s \in Submission, submission[s] \in Active,
         NEW with \in Final \cup {"unsent", "invalid", "ctx", "exit1", "cancelled"},
         SubmitReturns(s, with),
         UNCHANGED <<cliState, startState, watchState, report, epoch, seenInvalid, asleepAt>>,
         IsTrue(with),
         with = "invalid" => abandoned \/ verdict[s] = "invalid",
         abandoned' \in BOOLEAN, abandoned => abandoned',
         ~abandoned' /\ ~report.finished => Len(codes) = 0 /\ NoInvalid,
         submission[s] = "writes" => with = "unsent" /\ \A i \in 1..Len(codes) : codes[i] # s
  PROVE  LoginInv'
  <1> USE DEF cliState, startState, watchState
  <1>1. submission' = [submission EXCEPT ![s] = with] /\ submitMu' = FALSE
    BY DEF SubmitReturns
  <1>2. LoginTypeOK' /\ OneVerdict' /\ PrintedIsReported'
    <2>1. submission' \in [Submission -> Final \cup {"unused", "locks", "writes", "awaits", "sleeps",
             "finished", "unsent", "invalid", "ctx", "exit1", "cancelled"}]
      BY <1>1 DEF LoginInv, LoginTypeOK
    <2>2. OneVerdict' /\ PrintedIsReported'
      BY MovePrinted
    <2>3. submitMu' \in BOOLEAN
      BY <1>1
    <2> QED
      BY <2>1, <2>2, <2>3 DEF LoginInv, LoginTypeOK
  <1>3. submission'[s] = with /\ \A r \in Submission : r # s => submission'[r] = submission[r]
    BY <1>1 DEF LoginInv, LoginTypeOK
  <1>4. \A r \in Submission : submission'[r] \notin Active
    BY <1>3 DEF LoginInv, OneSubmits, Active, Final
  <1>5. with \notin Unwritten /\ \A i \in 1..Len(codes) : codes[i] \in Submission
    BY DEF Final, Unwritten, LoginInv, LoginTypeOK
  <1>6. CodesAreFresh'
    BY <1>3, <1>5 DEF LoginInv, CodesAreFresh
  <1>7. ReportIsPrinted'
    BY <1>3, Moved
  <1>8. InvalidIsTrue'
    BY <1>3 DEF LoginInv, InvalidIsTrue
  <1>9. OneSubmits'
    BY <1>4 DEF OneSubmits
  <1>10. AboutCurrent'
    BY <1>4 DEF AboutCurrent, Active, NoInvalid
  <1> QED
    BY <1>2, <1>6, <1>7, <1>8, <1>9, <1>10 DEF LoginInv

LEMMA WriteStep ==
  ASSUME LoginInv, NEW s \in Submission, WriteCode(s)
  PROVE  LoginInv'
  <1> USE DEF cliState, startState, watchState
  <1> DEFINE n == Len(codes)
  <1>1. /\ submission[s] = "writes"
        /\ UNCHANGED <<cli, killed, verdict, output, startState, watchState, report, epoch,
                       seenInvalid, asleepAt>>
    BY DEF WriteCode
  <1>2. ~abandoned /\ ~report.finished =>
          Len(codes) = 0 /\ NoInvalid /\ report.invalid = seenInvalid[s]
    BY <1>1 DEF LoginInv, AboutCurrent
  <1>3. \A i \in 1..n : codes[i] \in Submission /\ codes[i] # s
    BY <1>1 DEF LoginInv, LoginTypeOK, CodesAreFresh, Unwritten
  <1>4. CASE SubmitReturns(s, "unsent") /\ UNCHANGED <<codes, abandoned>>
    <2>1. submission[s] \in Active /\ abandoned' \in BOOLEAN /\ (abandoned => abandoned')
      BY <1>1, <1>4 DEF Active, LoginInv, LoginTypeOK
    <2>2. IsTrue("unsent")
      BY DEF IsTrue
    <2> QED
      BY <1>1, <1>2, <1>3, <1>4, <2>1, <2>2, ReturnStep
  <1>5. ASSUME NEW then \in {"awaits", "unsent"}, codes' = Append(codes, s),
               submission' = [submission EXCEPT ![s] = then],
               then = "awaits" => UNCHANGED <<submitMu, abandoned>>,
               then = "unsent" => submitMu' = FALSE /\ abandoned' = TRUE
        PROVE  LoginInv'
    <2>1. /\ n \in Nat /\ codes' \in Seq(Submission) /\ Len(codes') = n + 1 /\ codes'[n + 1] = s
          /\ \A i \in 1..n : codes'[i] = codes[i]
      BY <1>5, AppendElement DEF LoginInv, LoginTypeOK
    <2>2. submission'[s] = then /\ \A r \in Submission : r # s => submission'[r] = submission[r]
      BY <1>5 DEF LoginInv, LoginTypeOK
    <2>3. LoginTypeOK' /\ OneVerdict' /\ PrintedIsReported'
      <3>1. submission' \in [Submission -> Final \cup {"unused", "locks", "writes", "awaits", "sleeps",
               "finished", "unsent", "invalid", "ctx", "exit1", "cancelled"}]
        BY <1>5 DEF LoginInv, LoginTypeOK
      <3>2. submitMu' \in BOOLEAN /\ abandoned' \in BOOLEAN
        BY <1>5 DEF LoginInv, LoginTypeOK
      <3> QED
        BY <1>1, <2>1, <3>1, <3>2, MovePrinted DEF LoginInv, LoginTypeOK
    <2>4. CodesAreFresh'
      <3>1. \A i \in 1..(n + 1) : verdict[codes'[i]] = "none" /\ submission'[codes'[i]] \notin Unwritten
        BY <1>1, <1>3, <1>5, <2>1, <2>2 DEF LoginInv, CodesAreFresh, Unwritten
      <3>2. \A i, j \in 1..(n + 1) : codes'[i] = codes'[j] => i = j
        BY <1>3, <2>1 DEF LoginInv, CodesAreFresh
      <3>3. \A r \in Submission : submission'[r] \in Unwritten => verdict[r] = "none"
        BY <1>5, <2>2 DEF LoginInv, CodesAreFresh, Unwritten
      <3> QED
        BY <1>1, <2>1, <3>1, <3>2, <3>3 DEF CodesAreFresh
    <2>5. ReportIsPrinted' /\ InvalidIsTrue'
      <3>1. ReportIsPrinted'
        BY <1>1, <1>5, <2>2, Moved DEF IsTrue
      <3>2. abandoned => abandoned'
        BY <1>5
      <3> QED
        BY <1>1, <1>5, <2>2, <3>1, <3>2 DEF LoginInv, InvalidIsTrue
    <2>6. OneSubmits'
      BY <1>1, <1>5, <2>2 DEF LoginInv, OneSubmits, Active
    <2>7. AboutCurrent'
      <3> SUFFICES ASSUME then = "awaits", ~abandoned, ~report.finished PROVE AboutCurrent'
        BY <1>1, <1>5 DEF AboutCurrent
      <3>1. verdict[s] = "none"
        BY <1>1 DEF LoginInv, CodesAreFresh, Unwritten
      <3>2. Unjudged(s)'
        BY <1>1, <1>2, <2>1, <3>1 DEF Unjudged, NoInvalid
      <3>3. submitMu /\ \A r \in Submission : r # s => submission[r] \notin Active
        BY <1>1 DEF LoginInv, OneSubmits, Active
      <3> QED
        BY <1>5, <2>2, <3>2, <3>3 DEF AboutCurrent, Active
    <2> QED
      BY <2>3, <2>4, <2>5, <2>6, <2>7 DEF LoginInv
  <1>6. \/ SubmitReturns(s, "unsent") /\ UNCHANGED <<codes, abandoned>>
        \/ /\ codes' = Append(codes, s) /\ UNCHANGED <<submitMu, abandoned>>
           /\ submission' = [submission EXCEPT ![s] = "awaits"]
        \/ codes' = Append(codes, s) /\ SubmitReturns(s, "unsent") /\ abandoned' = TRUE
    BY Zenon DEF WriteCode
  <1>7. CASE /\ codes' = Append(codes, s) /\ UNCHANGED <<submitMu, abandoned>>
             /\ submission' = [submission EXCEPT ![s] = "awaits"]
    BY <1>5, <1>7
  <1>8. CASE codes' = Append(codes, s) /\ SubmitReturns(s, "unsent") /\ abandoned' = TRUE
    BY <1>5, <1>8 DEF SubmitReturns
  <1> QED
    BY <1>4, <1>6, <1>7, <1>8

\* await: a verdict returns, otherwise the submission sleeps.
LEMMA LookStep ==
  ASSUME LoginInv, NEW s \in Submission, LookForVerdict(s)
  PROVE  LoginInv'
  <1> USE DEF cliState, startState, watchState
  <1>1. /\ submission[s] = "awaits"
        /\ UNCHANGED <<cliState, startState, watchState, report, epoch, seenInvalid, abandoned>>
    BY Zenon DEF LookForVerdict
  <1>2. submission[s] \in Active /\ abandoned' \in BOOLEAN /\ (abandoned => abandoned')
    BY <1>1 DEF Active, LoginInv, LoginTypeOK
  <1>3. CASE report.finished
    <2>1. SubmitReturns(s, report.err) /\ UNCHANGED asleepAt
      BY <1>3, Zenon DEF LookForVerdict
    <2>2. report.err \in Final \cup {"exit1", "cancelled"}
      BY <1>3 DEF LoginInv, LoginTypeOK, ReportIsPrinted
    <2>3. IsTrue(report.err)
      BY DEF LoginInv, ReportIsPrinted
    <2>4. report.err # "invalid"
      BY <2>2 DEF Final
    <2> QED
      BY <1>1, <1>2, <1>3, <2>1, <2>2, <2>3, <2>4, ReturnStep
  <1>4. CASE ~report.finished /\ report.invalid > seenInvalid[s]
    <2>1. SubmitReturns(s, "invalid") /\ UNCHANGED asleepAt
      BY <1>4, Zenon DEF LookForVerdict
    <2>2. ~abandoned => Told(s) /\ verdict[s] = "invalid"
      <3>1. seenInvalid[s] \in Nat
        BY DEF LoginInv, LoginTypeOK
      <3> QED
        BY <1>1, <1>4, <3>1 DEF LoginInv, AboutCurrent, Unjudged, Underway, Told
    <2>3. IsTrue("invalid")
      BY DEF IsTrue
    <2> QED
      BY <1>1, <1>2, <2>1, <2>2, <2>3, ReturnStep DEF Told
  <1>5. CASE ~report.finished /\ ~(report.invalid > seenInvalid[s])
    <2>1. /\ submission' = [submission EXCEPT ![s] = "sleeps"]
          /\ asleepAt' = [asleepAt EXCEPT ![s] = epoch] /\ UNCHANGED submitMu
      BY <1>5, Zenon DEF LookForVerdict
    <2>2. submission'[s] = "sleeps" /\ \A r \in Submission : r # s => submission'[r] = submission[r]
      BY <2>1 DEF LoginInv, LoginTypeOK
    <2>3. LoginTypeOK'
      <3>1. /\ submission' \in [Submission -> Final \cup {"unused", "locks", "writes", "awaits", "sleeps",
                 "finished", "unsent", "invalid", "ctx", "exit1", "cancelled"}]
            /\ asleepAt' \in [Submission -> Nat]
        BY <2>1 DEF LoginInv, LoginTypeOK
      <3> QED
        BY <1>1, <2>1, <3>1 DEF LoginInv, LoginTypeOK
    <2>4. OneVerdict' /\ PrintedIsReported'
      BY <1>1, MovePrinted
    <2>5. \A i \in 1..Len(codes) : codes[i] \in Submission
      BY DEF LoginInv, LoginTypeOK
    <2>6. CodesAreFresh'
      BY <1>1, <2>2, <2>5 DEF LoginInv, CodesAreFresh, Unwritten
    <2>7. ReportIsPrinted' /\ InvalidIsTrue'
      BY <1>1, <2>2, Moved DEF IsTrue, LoginInv, InvalidIsTrue
    <2>8. OneSubmits'
      BY <1>1, <2>1, <2>2 DEF LoginInv, OneSubmits, Active
    <2>9. AboutCurrent'
      <3>1. (NoInvalid' <=> NoInvalid) /\ (OneInvalid' <=> OneInvalid)
        BY <1>1 DEF NoInvalid, OneInvalid
      <3>2. ASSUME ~abandoned, ~report.finished, NEW r \in Submission, submission'[r] = "writes"
            PROVE  Len(codes') = 0 /\ NoInvalid' /\ report'.invalid = seenInvalid'[r]
        BY <1>1, <2>2, <3>1, <3>2 DEF LoginInv, AboutCurrent
      <3>3. ASSUME ~abandoned, ~report.finished, NEW r \in Submission,
                   submission'[r] \in {"awaits", "sleeps"}
            PROVE  Unjudged(r)' \/ Underway(r)' \/ Told(r)'
        <4>1. Unjudged(r) \/ Underway(r) \/ Told(r)
          BY <1>1, <2>2, <3>3 DEF LoginInv, AboutCurrent
        <4> QED
          BY <1>1, <3>1, <4>1 DEF Unjudged, Underway, Told
      <3>4. ~abandoned /\ ~report.finished /\ ~submitMu => Len(codes) = 0 /\ NoInvalid
        BY DEF LoginInv, AboutCurrent
      <3> QED
        BY <1>1, <2>1, <3>1, <3>2, <3>3, <3>4 DEF AboutCurrent
    <2> QED
      BY <2>3, <2>4, <2>6, <2>7, <2>8, <2>9 DEF LoginInv
  <1> QED
    BY <1>3, <1>4, <1>5

\* From here on an "Invalid code" may be about the code that was given up.
LEMMA AbandonStep ==
  ASSUME LoginInv, NEW s \in Submission, AbandonSubmit(s)
  PROVE  LoginInv'
  <1>1. /\ submission[s] = "sleeps" /\ SubmitReturns(s, "ctx") /\ abandoned' = TRUE
        /\ UNCHANGED <<cliState, startState, watchState, report, epoch, seenInvalid, asleepAt>>
    BY DEF AbandonSubmit
  <1>2. submission[s] \in Active /\ IsTrue("ctx")
    BY <1>1 DEF Active, IsTrue
  <1> QED
    BY <1>1, <1>2, ReturnStep

LEMMA LoginStep == LoginInv /\ [LoginNext]_loginVars => LoginInv'
  <1> SUFFICES ASSUME LoginInv, [LoginNext]_loginVars PROVE LoginInv'
    OBVIOUS
  <1>1. CASE UNCHANGED loginVars
    <2>1. /\ UNCHANGED <<cliState, startState, watchState, report, epoch, submitState>>
      BY <1>1 DEF loginVars
    <2>2. LoginTypeOK' /\ OneVerdict' /\ PrintedIsReported'
      BY <2>1, MovePrinted DEF LoginInv, LoginTypeOK, cliState, startState, watchState, submitState
    <2> QED
      BY <2>1, <2>2, Untouched DEF LoginInv, cliState, submitState
  <1>2. CASE LoginNext
    BY <1>2, PrintStep, StartAndEndStep, ReadStep, FinishStep, WaitStep, BeginStep, WriteStep,
       LookStep, AbandonStep, Zenon DEF LoginNext
  <1> QED
    BY <1>1, <1>2

LEMMA LoginInvariant == LoginSpec => []LoginInv
  BY LoginInitInv, LoginStep, PTL DEF LoginSpec

-----------------------------------------------------------------------------
\* At most one submission at a time is between its begin and its return (submitMu).
THEOREM OneSubmissionAtATime == LoginSpec => []OneSubmits
  BY LoginInvariant, PTL DEF LoginInv

\* What a submission is told is true: success only where the CLI printed it or exited
\* 0, never where it printed a failure; and exit 1 only in the place of a verdict that
\* is unread.  For any number of submissions (loginOutcome, SubmitManualCode).
THEOREM LoginVerdictIsTrue == LoginSpec => []VerdictIsTrue
  <1>1. ASSUME LoginInv PROVE VerdictIsTrue
    <2>1. Success => ~Printed("failed")
      BY <1>1 DEF LoginInv, OneVerdict, Success
    <2>2. ASSUME NEW told \in {report.err} \cup {submission[s] : s \in Submission}
          PROVE  IsTrue(told)
      BY <1>1 DEF LoginInv, ReportIsPrinted
    <2> QED
      BY <1>1, <2>1, <2>2 DEF IsTrue, LoginInv, PrintedIsReported, InvalidIsTrue, VerdictIsTrue
  <1> QED
    BY <1>1, LoginInvariant, PTL

-----------------------------------------------------------------------------
(* Installs: what a copy's layout tells, whatever the config and settings say *)

Configs == {"none", "native", "global", "local"}
Settings == {"unset", "latest", "stable", "bogus"}

\* What ResolvePath stores of the copy, for a config and a setting.
PackageName(c, config) ==
  IF MethodOf(Layout[c].evidence, config) = "package-manager" THEN Layout[c].evidence.name ELSE "none"
PackageOS(c, config) ==
  IF MethodOf(Layout[c].evidence, config) = "package-manager" THEN Layout[c].evidence.os ELSE "none"

Found(config, setting) ==
  [NoInfo EXCEPT
    !.method = MethodOf(Layout[copy].evidence, config),
    !.os = PackageOS(copy, config), !.name = PackageName(copy, config),
    !.command = UpdateCommand(MethodOf(Layout[copy].evidence, config), PackageOS(copy, config)),
    !.channel = ResolveChannel(PackageOS(copy, config), PackageName(copy, config), setting),
    !.real = Real("here").version]

LEMMA ResolveFinds ==
  ASSUME ResolvePath
  PROVE  \/ ReturnCall([reply EXCEPT !.err = TRUE]) /\ UNCHANGED info
         \/ \E config \in Configs, setting \in Settings :
              info' = Found(config, setting) /\ installPc' = "path" /\ UNCHANGED reply
BY DEF ResolvePath, Found, PackageOS, PackageName, Configs, Settings

Located(config, setting) ==
  /\ info.method = MethodOf(Layout[copy].evidence, config)
  /\ info.name = PackageName(copy, config)
  /\ info.channel = ResolveChannel(PackageOS(copy, config), PackageName(copy, config), setting)

LEMMA ChannelTypes ==
  ASSUME NEW os, NEW name, NEW setting \in Settings
  PROVE  ResolveChannel(os, name, setting) \in Channel
BY DEF ResolveChannel, Channel, Settings

LEMMA Layouts ==
  DOMAIN Layout = {"npmLocal", "npmGlobal", "npmUnderNvm", "npmUnderMise", "shim", "lostShim",
                   "caskStable", "caskLatest", "caskOther", "mise", "volta", "native", "moved",
                   "script"}
BY DEF Layout

Class(c) ==
  CASE c = "npmLocal" -> "npm-local"
    [] c \in {"npmGlobal", "npmUnderNvm", "npmUnderMise", "shim"} -> "npm-global"
    [] c \in {"caskStable", "caskLatest", "caskOther", "mise"} -> "package-manager"
    [] c = "volta" -> "version-manager"
    [] c \in {"native", "moved"} -> "native"
    [] OTHER -> "unknown"

LEMMA ClassOfLayout ==
  ASSUME NEW c \in DOMAIN Layout
  PROVE  Classify(Layout[c].evidence) = Class(c)
<1>1. CASE c = "npmLocal"
  <2>1. Layout[c].evidence = [NPMTree EXCEPT !.local = TRUE]
    BY <1>1 DEF Layout
  <2>2. Classify([NPMTree EXCEPT !.local = TRUE]) = "npm-local"
    BY DEF Classify, NPMEvidence, NPMTree, Nothing
  <2> QED
    BY <1>1, <2>1, <2>2 DEF Class
<1>2. CASE c = "npmGlobal"
  <2>1. Layout[c].evidence = NPMTree
    BY <1>2 DEF Layout
  <2>2. Classify(NPMTree) = "npm-global"
    BY DEF Classify, NPMEvidence, NPMTree, Nothing
  <2> QED
    BY <1>2, <2>1, <2>2 DEF Class
<1>3. CASE c = "npmUnderNvm"
  <2>1. Layout[c].evidence = [NPMTree EXCEPT !.vm = "nvm"]
    BY <1>3 DEF Layout
  <2>2. Classify([NPMTree EXCEPT !.vm = "nvm"]) = "npm-global"
    BY DEF Classify, NPMEvidence, NPMTree, Nothing
  <2> QED
    BY <1>3, <2>1, <2>2 DEF Class
<1>4. CASE c = "npmUnderMise"
  <2>1. Layout[c].evidence = [NPMTree EXCEPT !.os = "mise", !.vm = "mise"]
    BY <1>4 DEF Layout
  <2>2. Classify([NPMTree EXCEPT !.os = "mise", !.vm = "mise"]) = "npm-global"
    BY DEF Classify, NPMEvidence, NPMTree, Nothing
  <2> QED
    BY <1>4, <2>1, <2>2 DEF Class
<1>5. CASE c = "shim"
  <2>1. Layout[c].evidence = [Nothing EXCEPT !.shim = TRUE, !.pkg = TRUE]
    BY <1>5 DEF Layout
  <2>2. Classify([Nothing EXCEPT !.shim = TRUE, !.pkg = TRUE]) = "npm-global"
    BY DEF Classify, NPMEvidence, Nothing
  <2> QED
    BY <1>5, <2>1, <2>2 DEF Class
<1>6. CASE c = "lostShim"
  <2>1. Layout[c].evidence = [Nothing EXCEPT !.shim = TRUE]
    BY <1>6 DEF Layout
  <2>2. Classify([Nothing EXCEPT !.shim = TRUE]) = "unknown"
    BY DEF Classify, NPMEvidence, Nothing
  <2> QED
    BY <1>6, <2>1, <2>2 DEF Class
<1>7. CASE c = "caskStable"
  <2>1. Layout[c].evidence = Brewed("claude-code")
    BY <1>7 DEF Layout
  <2>2. Classify(Brewed("claude-code")) = "package-manager"
    BY DEF Classify, NPMEvidence, Brewed, Nothing
  <2> QED
    BY <1>7, <2>1, <2>2 DEF Class
<1>8. CASE c = "caskLatest"
  <2>1. Layout[c].evidence = Brewed("claude-code@latest")
    BY <1>8 DEF Layout
  <2>2. Classify(Brewed("claude-code@latest")) = "package-manager"
    BY DEF Classify, NPMEvidence, Brewed, Nothing
  <2> QED
    BY <1>8, <2>1, <2>2 DEF Class
<1>9. CASE c = "caskOther"
  <2>1. Layout[c].evidence = Brewed("mine")
    BY <1>9 DEF Layout
  <2>2. Classify(Brewed("mine")) = "package-manager"
    BY DEF Classify, NPMEvidence, Brewed, Nothing
  <2> QED
    BY <1>9, <2>1, <2>2 DEF Class
<1>10. CASE c = "mise"
  <2>1. Layout[c].evidence = [Nothing EXCEPT !.os = "mise", !.vm = "mise", !.exe = TRUE]
    BY <1>10 DEF Layout
  <2>2. Classify([Nothing EXCEPT !.os = "mise", !.vm = "mise", !.exe = TRUE]) = "package-manager"
    BY DEF Classify, NPMEvidence, Nothing
  <2> QED
    BY <1>10, <2>1, <2>2 DEF Class
<1>11. CASE c = "volta"
  <2>1. Layout[c].evidence = [Nothing EXCEPT !.vm = "volta", !.exe = TRUE]
    BY <1>11 DEF Layout
  <2>2. Classify([Nothing EXCEPT !.vm = "volta", !.exe = TRUE]) = "version-manager"
    BY DEF Classify, NPMEvidence, Nothing
  <2> QED
    BY <1>11, <2>1, <2>2 DEF Class
<1>12. CASE c = "native"
  <2>1. Layout[c].evidence = [Nothing EXCEPT !.versions = TRUE, !.exe = TRUE]
    BY <1>12 DEF Layout
  <2>2. Classify([Nothing EXCEPT !.versions = TRUE, !.exe = TRUE]) = "native"
    BY DEF Classify, NPMEvidence, Nothing
  <2> QED
    BY <1>12, <2>1, <2>2 DEF Class
<1>13. CASE c = "moved"
  <2>1. Layout[c].evidence = [Nothing EXCEPT !.exe = TRUE]
    BY <1>13 DEF Layout
  <2>2. Classify([Nothing EXCEPT !.exe = TRUE]) = "native"
    BY DEF Classify, NPMEvidence, Nothing
  <2> QED
    BY <1>13, <2>1, <2>2 DEF Class
<1>14. CASE c = "script"
  <2>1. Layout[c].evidence = Nothing
    BY <1>14 DEF Layout
  <2>2. Classify(Nothing) = "unknown"
    BY DEF Classify, NPMEvidence, Nothing
  <2> QED
    BY <1>14, <2>1, <2>2 DEF Class
<1> QED
  BY Layouts, <1>1, <1>2, <1>3, <1>4, <1>5, <1>6, <1>7, <1>8, <1>9, <1>10, <1>11, <1>12, <1>13, <1>14

LEMMA MethodTypes ==
  ASSUME NEW c \in DOMAIN Layout, NEW config \in Configs
  PROVE  MethodOf(Layout[c].evidence, config) \in Method
BY ClassOfLayout DEF MethodOf, Class, MethodFromConfig, Method, Configs

\* Who owns a copy, and which cask it is.
LEMMA OwnerOfLayout ==
  ASSUME NEW c \in DOMAIN Layout
  PROVE  /\ Class(c) = "npm-global" => Layout[c].owner = "npm"
         /\ Class(c) = "npm-local" => c = "npmLocal" /\ Layout[c].owner = "cli"
         /\ Class(c) = "native" => c \in {"native", "moved"} /\ Layout[c].owner = "cli"
         /\ Class(c) = "unknown" => Layout[c].owner = "unknown"
         /\ Class(c) = "package-manager" => c \in {"caskStable", "caskLatest", "caskOther", "mise"}
         /\ Class(c) = "version-manager" => c = "volta"
BY Layouts DEF Class, Layout

LEMMA CaskOfLayout ==
  /\ Layout["caskStable"].evidence.name = "claude-code"
  /\ Layout["caskStable"].evidence.os = "homebrew"
  /\ Layout["caskLatest"].evidence.name = "claude-code@latest"
  /\ Layout["caskLatest"].evidence.os = "homebrew"
  /\ Layout["caskOther"].evidence.name = "mine"
  /\ Layout["caskOther"].evidence.os = "homebrew"
  /\ Layout["mise"].evidence.name = "none"
<1>1. Layout["caskStable"].evidence.name = "claude-code"
  BY DEF Layout, Brewed, Nothing
<1>2. Layout["caskStable"].evidence.os = "homebrew"
  BY DEF Layout, Brewed, Nothing
<1>3. Layout["caskLatest"].evidence.name = "claude-code@latest"
  BY DEF Layout, Brewed, Nothing
<1>4. Layout["caskLatest"].evidence.os = "homebrew"
  BY DEF Layout, Brewed, Nothing
<1>5. Layout["caskOther"].evidence.name = "mine"
  BY DEF Layout, Brewed, Nothing
<1>6. Layout["caskOther"].evidence.os = "homebrew"
  BY DEF Layout, Brewed, Nothing
<1>7. Layout["mise"].evidence.name = "none"
  BY DEF Layout, Nothing
<1> QED
  BY <1>1, <1>2, <1>3, <1>4, <1>5, <1>6, <1>7

\* The updater is for the CLI's own copies, and for those nobody is known to own.
LEMMA SelfManagedOwner ==
  ASSUME NEW c \in DOMAIN Layout, NEW config \in Configs,
         SelfManaged(MethodOf(Layout[c].evidence, config))
  PROVE  Layout[c].owner \in {"cli", "unknown"}
BY ClassOfLayout, OwnerOfLayout DEF SelfManaged, MethodOf, Class

-----------------------------------------------------------------------------
(* Installs: the inductive invariant *)

Steps == {"idle", "resolve", "path", "walk", "probe", "update", "reprobe", "published"}
OSName == {"none", "homebrew", "mise"}
CaskName == {"none", "claude-code", "claude-code@latest", "mine"}
Commands == {"none", "claude-update", "npm-install"} \cup OSName
Resolution == [copy : DOMAIN Layout \cup {"other"}, version : Version]
PathEntry == [real : Resolution, active : BOOLEAN]
Stream == [source : {"none", "npm", "release"} \cup CaskName, channel : Channel]

InstallInfo ==
  [method : Method, os : OSName, name : CaskName, command : Commands, channel : Channel,
   real : Version, entries : SUBSET PathEntry, version : Version]

Reply ==
  [ran : BOOLEAN, err : BOOLEAN, after : Version, changed : BOOLEAN, stream : Stream,
   comparable : BOOLEAN]

InstallsTypes ==
  /\ copy \in DOMAIN Layout \cup {"none"} /\ target \in Version \ {0} /\ updated \in BOOLEAN
  /\ op \in [name : {"none", "detect", "update", "published"},
             override : {"none", "latest", "stable"}]
  /\ installPc \in Steps
  /\ path \in Seq({"here", "alias", "other"})
  /\ info \in InstallInfo /\ reply \in Reply

\* What the call in progress has found so far.
Resolved == {"path", "walk", "probe", "update", "reprobe", "published"}

CallProgress ==
  /\ copy = "none" => installPc = "idle" /\ reply = NoReply
  /\ op.name = "none" => installPc = "idle"
  /\ installPc \in Resolved => \E config \in Configs, setting \in Settings : Located(config, setting)
  /\ installPc \notin {"idle", "reprobe"} => ~reply.ran
  /\ installPc # "idle" => ~reply.changed /\ ~reply.comparable

\* A version that was read is the copy's, or the copy was replaced after the call began.
ProbedVersion ==
  /\ info.version <= target
  /\ info.version # 0 /\ info.version # target => updated

InstallsInv ==
  InstallsTypes /\ CallProgress /\ ProbedVersion /\ UpdateIsEarned /\ VerdictIsOfOwnStream

LEMMA Versions ==
  MaxVersion \in Nat \ {0} /\ 0 \in Version /\ 1 \in Version
BY InstallsAssumption DEF InstallsAssumption, Version

LEMMA InstallsInitially ==
  ASSUME InstallsInit
  PROVE  InstallsInv
<1>1. 1 \in Version \ {0} /\ 0 \in Version
  BY Versions
<1>2. << >> \in Seq({"here", "alias", "other"})
  OBVIOUS
<1>3. InstallsTypes
  <2>1. info \in InstallInfo
    BY <1>1 DEF InstallsInit, NoInfo, Method, Commands, Channel, InstallInfo, OSName, CaskName
  <2>2. reply \in Reply
    BY <1>1 DEF InstallsInit, NoReply, NoStream, Channel, Reply, Stream, CaskName
  <2> QED
    BY <1>1, <1>2, <2>1, <2>2 DEF InstallsInit, InstallsTypes, Steps
<1>4. CallProgress
  BY DEF InstallsInit, CallProgress, Resolved, NoReply
<1>5. ProbedVersion
  BY Versions DEF InstallsInit, ProbedVersion, NoInfo
<1>6. UpdateIsEarned /\ VerdictIsOfOwnStream
  BY DEF InstallsInit, UpdateIsEarned, VerdictIsOfOwnStream, NoReply
<1> QED
  BY <1>3, <1>4, <1>5, <1>6 DEF InstallsInv

LEMMA EvidenceTypes ==
  ASSUME NEW c \in DOMAIN Layout
  PROVE  Layout[c].evidence.os \in OSName /\ Layout[c].evidence.name \in CaskName
<1> USE DEF Layout, Nothing, OSName, CaskName
<1>1. CASE c \in {"caskStable", "caskLatest", "caskOther"}
  BY <1>1, CaskOfLayout
<1>2. CASE c = "npmLocal"
  BY <1>2 DEF NPMTree
<1>3. CASE c = "npmGlobal"
  BY <1>3 DEF NPMTree
<1>4. CASE c = "npmUnderNvm"
  BY <1>4 DEF NPMTree
<1>5. CASE c = "npmUnderMise"
  BY <1>5 DEF NPMTree
<1>6. CASE c = "shim"
  BY <1>6
<1>7. CASE c = "lostShim"
  BY <1>7
<1>8. CASE c = "mise"
  BY <1>8
<1>9. CASE c = "volta"
  BY <1>9
<1>10. CASE c = "native"
  BY <1>10
<1>11. CASE c = "moved"
  BY <1>11
<1>12. CASE c = "script"
  BY <1>12
<1> QED
  BY Layouts, <1>1, <1>2, <1>3, <1>4, <1>5, <1>6, <1>7, <1>8, <1>9, <1>10, <1>11, <1>12

LEMMA CommandTypes ==
  ASSUME NEW m, NEW os \in OSName
  PROVE  UpdateCommand(m, os) \in Commands
BY DEF UpdateCommand, Commands, OSName

LEMMA EntryTypes ==
  ASSUME InstallsTypes, copy # "none", NEW name
  PROVE  EntryFor(name) \subseteq PathEntry
<1>1. Real(name) \in Resolution
  BY Versions DEF Real, InstallsTypes, Resolution
<1> DEFINE active == Real(name) = [copy |-> copy, version |-> info.real]
<1>2. active \in BOOLEAN
  OBVIOUS
<1>3. EntryFor(name) \in {{}, {[real |-> Real(name), active |-> active]}}
  BY DEF EntryFor
<1> HIDE DEF active
<1> QED
  BY <1>1, <1>2, <1>3 DEF PathEntry

LEMMA TargetGrows ==
  ASSUME InstallsTypes, Replace
  PROVE  target' \in Version \ {0} /\ target < target' /\ updated' = TRUE
BY Versions DEF InstallsTypes, Replace, Version

\* Each step keeps the types.
LEMMA InstallsTypesStep ==
  ASSUME InstallsTypes, CallProgress, [InstallsNext]_installVars
  PROVE  InstallsTypes'
<1> USE DEF InstallsTypes
<1>1. CASE SetUp
  BY <1>1 DEF SetUp
<1>2. CASE BackgroundUpdate
  BY <1>2, TargetGrows DEF BackgroundUpdate
<1>3. CASE Call
  <2>1. 0 \in Version
    BY Versions
  <2>2. info' \in InstallInfo
    BY <1>3, <2>1 DEF Call, NoInfo, Method, Commands, Channel, InstallInfo, OSName, CaskName
  <2>3. reply' \in Reply
    BY <1>3, <2>1 DEF Call, NoReply, NoStream, Channel, Reply, Stream, CaskName
  <2> QED
    BY <1>3, <2>2, <2>3 DEF Call, Steps
<1>4. CASE ResolvePath
  <2>1. ASSUME ReturnCall([reply EXCEPT !.err = TRUE]), UNCHANGED info
        PROVE  InstallsTypes'
    BY <1>4, <2>1 DEF ResolvePath, Reply, ReturnCall, Steps
  <2>2. ASSUME NEW config \in Configs, NEW setting \in Settings,
               info' = Found(config, setting), installPc' = "path", UNCHANGED reply
        PROVE  InstallsTypes'
    <3> DEFINE m == MethodOf(Layout[copy].evidence, config)
               os == PackageOS(copy, config)
               name == PackageName(copy, config)
               command == UpdateCommand(m, os)
               channel == ResolveChannel(os, name, setting)
               real == Real("here").version
    <3>1. copy \in DOMAIN Layout
      BY <1>4 DEF CallProgress, ResolvePath
    <3>2. m \in Method /\ os \in OSName /\ name \in CaskName
      BY <3>1, MethodTypes, EvidenceTypes DEF OSName, CaskName, PackageOS, PackageName
    <3>3. command \in Commands
      BY <3>2, CommandTypes
    <3>4. channel \in Channel
      BY ChannelTypes
    <3>5. real \in Version /\ 0 \in Version
      BY Versions DEF Real
    <3>6. info' = [method |-> m, os |-> os, name |-> name, command |-> command,
                   channel |-> channel, real |-> real, entries |-> {}, version |-> 0]
      BY <2>2 DEF NoInfo, Found
    <3> HIDE DEF m, os, name, command, channel, real
    <3>7. info' \in InstallInfo
      BY <3>2, <3>3, <3>4, <3>5, <3>6 DEF InstallInfo
    <3> QED
      BY <1>4, <2>2, <3>7 DEF ResolvePath, Steps
  <2> QED
    BY <1>4, <2>1, <2>2, ResolveFinds
<1>5. CASE ReadPath
  <2>1. path' \in Seq({"here", "alias", "other"})
    <3> DEFINE S == {"here", "alias", "other"}
    <3>1. <<"here">> \in Seq(S) /\ <<"other">> \in Seq(S) /\ << >> \in Seq(S)
      OBVIOUS
    <3>2. <<"here", "alias", "other">> \in Seq(S) /\ <<"other", "here">> \in Seq(S)
      OBVIOUS
    <3> HIDE DEF S
    <3>3. path' \in Seq(S)
      BY <1>5, <3>1, <3>2 DEF ReadPath
    <3> QED
      BY <3>3 DEF S
  <2> QED
    BY <1>5, <2>1 DEF ReadPath, Steps
<1>6. CASE WalkPath
  <2>1. path' \in Seq({"here", "alias", "other"})
    <3>1. path \in Seq({"here", "alias", "other"}) /\ path # << >> /\ path' = Tail(path)
      BY <1>6 DEF WalkPath
    <3> QED
      BY <3>1
  <2>2. EntryFor(Head(path)) \subseteq PathEntry
    BY <1>6, EntryTypes DEF WalkPath, CallProgress
  <2> QED
    BY <1>6, <2>1, <2>2 DEF WalkPath, InstallInfo
<1>7. CASE EndWalk
  <2>1. ActiveEntry \subseteq PathEntry
    BY <1>7, EntryTypes DEF EndWalk, CallProgress, ActiveEntry
  <2>2. {[r EXCEPT !.active = TRUE] : r \in ActiveEntry}
          \subseteq PathEntry
    <3>1. ASSUME NEW r \in ActiveEntry  PROVE [r EXCEPT !.active = TRUE] \in PathEntry
      BY <2>1 DEF PathEntry
    <3> QED
      BY <3>1
  <2> QED
    BY <1>7, <2>2 DEF EndWalk, Steps, InstallInfo
<1>8. CASE Probe
  <2>1. op'.name \in {"none", "detect", "update", "published"} /\ installPc' \in Steps
    BY <1>8 DEF Probe, ReturnCall, Steps, CallProgress
  <2> QED
    BY <1>8, <2>1 DEF Probe, ReturnCall, InstallInfo
<1>9. CASE RefuseUpdate
  BY <1>9 DEF RefuseUpdate, Reply, ReturnCall, Steps
<1>10. CASE RunUpdater
  <2>1. reply' \in Reply
    BY <1>10 DEF RunUpdater, Reply
  <2>2. target' \in Version \ {0} /\ updated' \in BOOLEAN
    BY <1>10, TargetGrows DEF RunUpdater
  <2> QED
    BY <1>10, <2>1, <2>2 DEF RunUpdater, Steps
<1>11. CASE Reprobe
  <2>1. PICK after \in {target, 0}, failed \in BOOLEAN :
           ReturnCall([reply EXCEPT !.err = @ \/ failed, !.after = after,
                                  !.changed = Changed(info.version, after)])
    BY <1>11 DEF Reprobe
  <2>2. after \in Version /\ (reply.err \/ failed) \in BOOLEAN
    BY Versions
  <2>3. Changed(info.version, after) \in BOOLEAN
    BY DEF Changed
  <2>4. reply' \in Reply
    BY <2>1, <2>2, <2>3 DEF Reply, ReturnCall
  <2> QED
    BY <1>11, <2>1, <2>4 DEF Reprobe, ReturnCall, Steps
<1>12. CASE NothingPublished
  BY <1>12 DEF NothingPublished, Reply, ReturnCall, Steps
<1>13. CASE FetchPublished
  <2>1. PICK published \in {0, 1} :
           ReturnCall([reply EXCEPT !.stream = StreamOf, !.comparable = Comparable(published)])
    BY <1>13 DEF FetchPublished
  <2>2. ChannelAsked \in Channel
    BY DEF ChannelAsked, Channel, InstallInfo
  <2>3. StreamOf \in Stream
    BY <2>2 DEF StreamOf, Stream, NoStream, InstallInfo, CaskName, Channel
  <2>4. Comparable(published) \in BOOLEAN
    BY DEF Comparable
  <2>5. reply' \in Reply
    BY <2>1, <2>3, <2>4 DEF Reply, ReturnCall
  <2> QED
    BY <1>13, <2>1, <2>5 DEF FetchPublished, ReturnCall, Steps
<1>14. CASE UNCHANGED installVars
  BY <1>14 DEF installVars
<1> QED
  BY <1>1, <1>2, <1>3, <1>4, <1>5, <1>6, <1>7, <1>8, <1>9, <1>10, <1>11, <1>12, <1>13, <1>14
     DEF InstallsNext

\* What was found stays found: only ResolvePath and Call change it, and nothing the copy.
LEMMA LocatedStays ==
  ASSUME NEW config, NEW setting, Located(config, setting), UNCHANGED copy,
         info'.method = info.method, info'.name = info.name, info'.channel = info.channel
  PROVE  Located(config, setting)'
BY DEF Located, PackageName, PackageOS

LEMMA FoundIsLocated ==
  ASSUME NEW config, NEW setting, info' = Found(config, setting), UNCHANGED copy
  PROVE  Located(config, setting)'
BY DEF Located, Found, NoInfo, PackageName, PackageOS

LEMMA LocatedStep ==
  ASSUME InstallsTypes, CallProgress, [InstallsNext]_installVars, installPc' \in Resolved
  PROVE  \E config \in Configs, setting \in Settings : Located(config, setting)'
<1>1. CASE ResolvePath
  <2>1. \E config \in Configs, setting \in Settings : info' = Found(config, setting)
    BY <1>1, ResolveFinds DEF ReturnCall, Resolved
  <2> QED
    BY <1>1, <2>1, FoundIsLocated DEF ResolvePath
<1>2. CASE ~ResolvePath
  <2>1. UNCHANGED copy /\ installPc \in Resolved
    BY <1>2 DEF InstallsNext, installVars, SetUp, BackgroundUpdate, Call, ReadPath, WalkPath,
       EndWalk, Probe, RefuseUpdate, RunUpdater, Reprobe, NothingPublished, FetchPublished,
       ReturnCall, CallProgress, Resolved
  <2>2. info'.method = info.method /\ info'.name = info.name /\ info'.channel = info.channel
    BY <1>2 DEF InstallsNext, installVars, SetUp, BackgroundUpdate, Call, ReadPath, WalkPath,
       EndWalk, Probe, RefuseUpdate, RunUpdater, Reprobe, NothingPublished, FetchPublished,
       ReturnCall, CallProgress, Resolved, InstallsTypes, InstallInfo
  <2> QED
    BY <2>1, <2>2, LocatedStays DEF CallProgress
<1> QED
  BY <1>1, <1>2

LEMMA CallProgressStep ==
  ASSUME InstallsTypes, CallProgress, [InstallsNext]_installVars
  PROVE  CallProgress'
<1>1. /\ copy' = "none" => installPc' = "idle" /\ reply' = NoReply
      /\ op'.name = "none" => installPc' = "idle"
      /\ installPc' \notin {"idle", "reprobe"} => ~reply'.ran
      /\ installPc' # "idle" => ~reply'.changed /\ ~reply'.comparable
  <2>1. CASE SetUp
    BY <2>1 DEF SetUp, ReturnCall, CallProgress, InstallsTypes, Reply, NoReply
  <2>2. CASE BackgroundUpdate
    BY <2>2 DEF BackgroundUpdate, ReturnCall, CallProgress, InstallsTypes, Reply, NoReply
  <2>3. CASE Call
    BY <2>3 DEF Call, ReturnCall, CallProgress, InstallsTypes, Reply, NoReply
  <2>4. CASE ResolvePath
    BY <2>4 DEF ResolvePath, ReturnCall, CallProgress, InstallsTypes, Reply, NoReply
  <2>5. CASE ReadPath
    BY <2>5 DEF ReadPath, ReturnCall, CallProgress, InstallsTypes, Reply, NoReply
  <2>6. CASE WalkPath
    BY <2>6 DEF WalkPath, ReturnCall, CallProgress, InstallsTypes, Reply, NoReply
  <2>7. CASE EndWalk
    BY <2>7 DEF EndWalk, ReturnCall, CallProgress, InstallsTypes, Reply, NoReply
  <2>8. CASE Probe
    BY <2>8 DEF Probe, ReturnCall, CallProgress, InstallsTypes, Reply, NoReply
  <2>9. CASE RefuseUpdate
    BY <2>9 DEF RefuseUpdate, ReturnCall, CallProgress, InstallsTypes, Reply, NoReply
  <2>10. CASE RunUpdater
    BY <2>10 DEF RunUpdater, ReturnCall, CallProgress, InstallsTypes, Reply, NoReply
  <2>11. CASE Reprobe
    BY <2>11 DEF Reprobe, ReturnCall, CallProgress, InstallsTypes, Reply, NoReply
  <2>12. CASE NothingPublished
    BY <2>12 DEF NothingPublished, ReturnCall, CallProgress, InstallsTypes, Reply, NoReply
  <2>13. CASE FetchPublished
    BY <2>13 DEF FetchPublished, ReturnCall, CallProgress, InstallsTypes, Reply, NoReply
  <2>14. CASE UNCHANGED installVars
    BY <2>14 DEF installVars, CallProgress, InstallsTypes, Reply, NoReply
  <2> QED
    BY <2>1, <2>2, <2>3, <2>4, <2>5, <2>6, <2>7, <2>8, <2>9, <2>10, <2>11, <2>12, <2>13, <2>14
       DEF InstallsNext
<1> QED
  BY <1>1, LocatedStep DEF CallProgress

\* A step reads the version, forgets it, replaces the copy, or leaves both alone.
LEMMA ProbedVersionStep ==
  ASSUME InstallsTypes, ProbedVersion, [InstallsNext]_installVars
  PROVE  ProbedVersion'
<1>1. info.version \in Nat /\ target \in Nat
  BY Versions DEF InstallsTypes, InstallInfo, Version
<1>2. CASE info'.version = 0 /\ target' = target
  BY <1>1, <1>2 DEF ProbedVersion
<1>3. CASE info'.version = target /\ target' = target
  BY <1>1, <1>3 DEF ProbedVersion
<1>4. CASE info'.version = info.version /\ target' = target /\ updated' = updated
  BY <1>1, <1>4 DEF ProbedVersion
<1>5. CASE Replace /\ info' = info
  BY <1>1, <1>5 DEF ProbedVersion, Replace
<1>6. \/ info'.version = 0 /\ target' = target
      \/ info'.version = target /\ target' = target
      \/ info'.version = info.version /\ target' = target /\ updated' = updated
      \/ Replace /\ info' = info
  <2>1. CASE ResolvePath
    BY <2>1, ResolveFinds DEF ResolvePath, Found, NoInfo
  <2>2. CASE Probe
    BY <2>2 DEF Probe, InstallsTypes, InstallInfo
  <2>3. CASE Call
    BY <2>3 DEF Call, NoInfo
  <2>4. CASE BackgroundUpdate \/ RunUpdater
    BY <2>4 DEF BackgroundUpdate, RunUpdater
  <2>5. CASE WalkPath \/ EndWalk
    BY <2>5 DEF WalkPath, EndWalk, InstallsTypes, InstallInfo
  <2>6. CASE SetUp \/ ReadPath \/ RefuseUpdate \/ Reprobe \/ NothingPublished \/ FetchPublished
    BY <2>6 DEF SetUp, ReadPath, RefuseUpdate, Reprobe, NothingPublished, FetchPublished
  <2>7. CASE UNCHANGED installVars
    BY <2>7 DEF installVars
  <2> QED
    BY <2>1, <2>2, <2>3, <2>4, <2>5, <2>6, <2>7 DEF InstallsNext
<1> QED
  BY <1>2, <1>3, <1>4, <1>5, <1>6

\* The updater is started only after the layout was looked at, and what it changed shows
\* in the version read afterwards.
LEMMA UpdateIsEarnedStep ==
  ASSUME InstallsInv, [InstallsNext]_installVars
  PROVE  UpdateIsEarned'
<1> USE DEF InstallsInv
<1>1. CASE RunUpdater
  <2>1. PICK config \in Configs, setting \in Settings : Located(config, setting)
    BY <1>1 DEF RunUpdater, CallProgress, Resolved
  <2>2. copy \in DOMAIN Layout
    BY <1>1 DEF RunUpdater, CallProgress, InstallsTypes
  <2>3. Layout[copy].owner \in {"cli", "unknown"}
    BY <1>1, <2>1, <2>2, SelfManagedOwner DEF RunUpdater, MayRunUpdater, Located
  <2>4. ~reply'.changed /\ copy' = copy
    BY <1>1 DEF RunUpdater, CallProgress, InstallsTypes, Reply
  <2> QED
    BY <2>3, <2>4 DEF UpdateIsEarned
<1>2. CASE Reprobe
  <2>1. reply'.ran => reply.ran
    BY <1>2 DEF Reprobe, ReturnCall, InstallsTypes, Reply
  <2>2. PICK after \in {target, 0} : reply'.after = after /\ reply'.changed = Changed(info.version, after)
    BY <1>2 DEF Reprobe, ReturnCall, InstallsTypes, Reply
  <2>3. UNCHANGED <<copy, target, updated>>
    BY <1>2 DEF Reprobe
  <2>4. info.version \in Nat /\ target \in Nat
    BY Versions DEF InstallsTypes, InstallInfo, Version
  <2>5. ASSUME reply'.changed
        PROVE  updated' /\ reply'.after \in 2..target'
    <3>1. info.version # 0 /\ after # 0 /\ info.version # after
      BY <2>2, <2>5 DEF Changed
    <3>2. after = target
      BY <3>1
    <3>3. updated /\ info.version < target
      BY <2>4, <3>1, <3>2 DEF ProbedVersion
    <3>4. target \in 2..target
      BY <2>4, <3>1, <3>3
    <3> QED
      BY <2>2, <2>3, <3>2, <3>3, <3>4
  <2> QED
    BY <2>1, <2>3, <2>5 DEF UpdateIsEarned
<1>3. CASE ~RunUpdater /\ ~Reprobe
  <2>1. CASE ~reply'.ran /\ ~reply'.changed
    BY <2>1 DEF UpdateIsEarned
  <2>2. CASE /\ reply'.ran = reply.ran /\ reply'.changed = reply.changed
             /\ reply'.after = reply.after
             /\ UNCHANGED copy /\ UNCHANGED <<target, updated>>
    BY <2>2 DEF UpdateIsEarned
  <2>3. CASE BackgroundUpdate
    <3>1. updated' /\ target \in Nat /\ target' = target + 1 /\ UNCHANGED <<copy, reply>>
      BY <2>3, Versions DEF BackgroundUpdate, Replace, InstallsTypes, Version
    <3>2. \A v \in 2..target : v \in 2..(target + 1)
      BY <3>1
    <3> QED
      BY <3>1, <3>2 DEF UpdateIsEarned
  <2>4. \/ ~reply'.ran /\ ~reply'.changed
        \/ /\ reply'.ran = reply.ran /\ reply'.changed = reply.changed
           /\ reply'.after = reply.after
           /\ UNCHANGED copy /\ UNCHANGED <<target, updated>>
        \/ BackgroundUpdate
    <3>1. CASE SetUp \/ Call
      BY <3>1 DEF SetUp, Call, NoReply, CallProgress
    <3>2. CASE ResolvePath \/ RefuseUpdate \/ NothingPublished \/ FetchPublished
      BY <3>2 DEF ResolvePath, RefuseUpdate, NothingPublished, FetchPublished, ReturnCall,
         InstallsTypes, Reply
    <3>3. CASE ReadPath \/ WalkPath \/ EndWalk \/ Probe
      BY <3>3 DEF ReadPath, WalkPath, EndWalk, Probe, ReturnCall
    <3>4. CASE UNCHANGED installVars
      BY <3>4 DEF installVars
    <3> QED
      BY <1>3, <3>1, <3>2, <3>3, <3>4 DEF InstallsNext
  <2> QED
    BY <2>1, <2>2, <2>3, <2>4
<1> QED
  BY <1>1, <1>2, <1>3

\* A comparison is made on the stream that the layout gives, for the channel of the install.
LEMMA StreamIsOwn ==
  ASSUME copy \in DOMAIN Layout, NEW config \in Configs, NEW setting \in Settings,
         Located(config, setting), Layout[copy].owner # "unknown",
         StreamOf # NoStream, StreamOf.channel = info.channel
  PROVE  StreamOf = OwnStream(info.channel)
<1>1. info.method = Class(copy)
  BY ClassOfLayout, OwnerOfLayout, Layouts DEF Located, MethodOf, Class
<1>2. Class(copy) # "package-manager" => info.name = "none"
  BY <1>1 DEF Located, PackageName
<1>3. copy \in {"caskStable", "caskLatest", "native", "moved"} => Layout[copy].owner # "npm"
  BY DEF Layout
<1>4. CASE Class(copy) \in {"npm-global", "npm-local"}
  <2>1. StreamOf = [source |-> "npm", channel |-> info.channel]
    <3>1. info.method \in {"npm-global", "npm-local"} /\ info.name = "none"
      BY <1>1, <1>4, <1>2
    <3>2. StreamOf = [source |-> "npm", channel |-> ChannelAsked]
      BY <3>1 DEF StreamOf
    <3> QED
      BY <3>2
  <2>2. copy \notin {"caskStable", "caskLatest", "native", "moved"}
    BY <1>4 DEF Class
  <2>3. Layout[copy].owner = "npm" \/ copy = "npmLocal"
    BY <1>4, OwnerOfLayout
  <2> QED
    BY <2>1, <2>2, <2>3 DEF OwnStream
<1>5. CASE Class(copy) = "native"
  <2>1. StreamOf = [source |-> "release", channel |-> info.channel]
    <3>1. info.method = "native" /\ info.name = "none"
      BY <1>1, <1>5, <1>2
    <3>2. StreamOf = [source |-> "release", channel |-> ChannelAsked]
      BY <3>1 DEF StreamOf
    <3> QED
      BY <3>2
  <2>2. copy \in {"native", "moved"}
    BY <1>5, OwnerOfLayout
  <2> QED
    BY <2>1, <2>2, <1>3 DEF OwnStream
<1>6. CASE Class(copy) = "package-manager"
  <2>1. copy \in {"caskStable", "caskLatest", "caskOther", "mise"}
    BY <1>6, OwnerOfLayout
  <2>2. /\ info.name = Layout[copy].evidence.name
        /\ info.channel = ResolveChannel(Layout[copy].evidence.os, info.name, setting)
    BY <1>1, <1>6 DEF Located, PackageName, PackageOS
  <2>3. info.name \in {"claude-code", "claude-code@latest"}
    BY <1>1, <1>6 DEF StreamOf
  <2>4. CASE copy = "caskStable"
    <3>1. info.name = "claude-code" /\ info.channel = "stable"
      BY <2>2, <2>4, CaskOfLayout DEF ResolveChannel
    <3>2. StreamOf = [source |-> info.name, channel |-> info.channel]
      BY <1>1, <1>6, <2>3 DEF StreamOf
    <3> QED
      BY <2>4, <3>1, <3>2, <1>3 DEF OwnStream
  <2>5. CASE copy = "caskLatest"
    <3>1. info.name = "claude-code@latest" /\ info.channel = "latest"
      BY <2>2, <2>5, CaskOfLayout DEF ResolveChannel
    <3>2. StreamOf = [source |-> info.name, channel |-> info.channel]
      BY <1>1, <1>6, <2>3 DEF StreamOf
    <3> QED
      BY <2>5, <3>1, <3>2, <1>3 DEF OwnStream
  <2> QED
    BY <2>1, <2>2, <2>3, <2>4, <2>5, CaskOfLayout
<1>7. CASE Class(copy) = "version-manager"
  BY <1>1, <1>7, OwnerOfLayout DEF StreamOf, Located, PackageName
<1> QED
  BY <1>4, <1>5, <1>6, <1>7, OwnerOfLayout DEF Class

LEMMA VerdictIsOfOwnStreamStep ==
  ASSUME InstallsInv, [InstallsNext]_installVars
  PROVE  VerdictIsOfOwnStream'
<1> USE DEF InstallsInv
<1>1. CASE FetchPublished
  <2>1. PICK config \in Configs, setting \in Settings : Located(config, setting)
    BY <1>1 DEF FetchPublished, CallProgress, Resolved
  <2>2. copy \in DOMAIN Layout
    BY <1>1 DEF FetchPublished, CallProgress, InstallsTypes
  <2>3. /\ reply'.stream = StreamOf /\ StreamOf # NoStream
        /\ reply'.comparable => StreamOf.channel = info.channel
        /\ info' = info /\ copy' = copy
    BY <1>1 DEF FetchPublished, ReturnCall, InstallsTypes, Reply, Comparable
  <2>4. OwnStream(info.channel)' = OwnStream(info.channel)
    BY <2>3 DEF OwnStream
  <2> QED
    BY <2>1, <2>2, <2>3, <2>4, StreamIsOwn DEF VerdictIsOfOwnStream
<1>2. CASE ~reply'.comparable
  BY <1>2 DEF VerdictIsOfOwnStream
<1>3. CASE UNCHANGED copy /\ UNCHANGED info /\ UNCHANGED reply
  BY <1>3 DEF VerdictIsOfOwnStream, OwnStream
<1>4. \/ FetchPublished \/ ~reply'.comparable
      \/ UNCHANGED copy /\ UNCHANGED info /\ UNCHANGED reply
  <2>1. CASE SetUp \/ Call
    BY <2>1 DEF SetUp, Call, NoReply, CallProgress
  <2>2. CASE ResolvePath
    BY <2>2 DEF ResolvePath, CallProgress, ReturnCall, InstallsTypes, Reply
  <2>3. CASE ReadPath \/ WalkPath \/ EndWalk \/ Probe
    BY <2>3 DEF ReadPath, WalkPath, EndWalk, Probe, CallProgress, ReturnCall
  <2>4. CASE RefuseUpdate \/ NothingPublished \/ RunUpdater
    BY <2>4 DEF RefuseUpdate, NothingPublished, RunUpdater, CallProgress, ReturnCall,
       InstallsTypes, Reply
  <2>5. CASE Reprobe
    BY <2>5 DEF Reprobe, CallProgress, ReturnCall, InstallsTypes, Reply
  <2>6. CASE BackgroundUpdate \/ UNCHANGED installVars
    BY <2>6 DEF BackgroundUpdate, installVars
  <2> QED
    BY <2>1, <2>2, <2>3, <2>4, <2>5, <2>6 DEF InstallsNext
<1> QED
  BY <1>1, <1>2, <1>3, <1>4

LEMMA InstallsInvariant == InstallsSpec => []InstallsInv
<1>1. InstallsInit => InstallsInv
  BY InstallsInitially
<1>2. InstallsInv /\ [InstallsNext]_installVars => InstallsInv'
  BY InstallsTypesStep, CallProgressStep, ProbedVersionStep, UpdateIsEarnedStep,
     VerdictIsOfOwnStreamStep DEF InstallsInv
<1> QED
  BY <1>1, <1>2, PTL DEF InstallsSpec

\* Whatever the copy's layout, the config, and the background updater's timing, Update
\* (src/update.go) runs the CLI's updater only where the CLI, or nobody known, is the one to
\* replace the copy, and reports a change only when one was made during the call.
THEOREM UpdateRunsOnlyOwnCopies == InstallsSpec => []UpdateIsEarned
<1>1. InstallsInv => UpdateIsEarned
  BY DEF InstallsInv
<1> QED
  BY <1>1, InstallsInvariant, PTL

\* LatestPublished (src/published.go) compares the installed version only with the stream its
\* owner follows, for any channel asked for, setting and config.
THEOREM VerdictFollowsOwner == InstallsSpec => []VerdictIsOfOwnStream
<1>1. InstallsInv => VerdictIsOfOwnStream
  BY DEF InstallsInv
<1> QED
  BY <1>1, InstallsInvariant, PTL
=============================================================================
