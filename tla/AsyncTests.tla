----------------------------- MODULE AsyncTests -----------------------------
(***************************************************************************)
(* The test framework's way to run programs in parallel (AsyncBundle,      *)
(* AsyncTest): each test starts two programs one after the other, reads    *)
(* what they write, and compares it.  The framework itself is sequential;  *)
(* its calls that are not finished are kept on a stack, the programs run   *)
(* beside it.                                                              *)
(***************************************************************************)
EXTENDS Naturals, Sequences, FiniteSets, Functions

CONSTANTS
  Sessions,       \* the subjects of a test, in order, whether with --reduce, and
                  \* whether the PHP that runs it has the function posix_kill
  get_num_procs,  \* how many programs are run at the same time
  Out,            \* how much a program writes
  PipeSize        \* how much of it a pipe holds

ASSUME SessionsOfFiles ==
  \A s \in Sessions : /\ s.reduce \in BOOLEAN /\ s.posix_kill \in BOOLEAN
                       /\ s.files \in Seq(Range(s.files)) /\ IsInjective(s.files)
ASSUME ProcsPositive == get_num_procs \in Nat \ {0}
ASSUME SizesPositive == Out \in Nat /\ PipeSize \in Nat \ {0}

Subjects == UNION {Range(s.files) : s \in Sessions}
NumCommands == 2

(* A subject, or the smaller program made of it by --reduce. *)
Test(s) == [subject |-> s, reduced |-> FALSE]
Bundles == [subject : Subjects, reduced : BOOLEAN]

VARIABLES
  session,        \* the one of Sessions
  stack,          \* the calls that are not finished, innermost first
  files,          \* the subjects run_test is still to be called for
  waiting_procs,  \* bundles waiting to run a program
  running_procs,  \* index |-> bundle
  indices,        \* the next index of running_procs
  out,            \* what has been read from the program of a bundle
  outs,           \* what had been read from each of them at its end
  verdicts,       \* the verdicts on each bundle
  procs,          \* the program of each bundle
  overdue,        \* bundles whose program has had its time before it was seen to end
  did             \* what the programs of a bundle returned

queues == <<waiting_procs, running_procs, indices>>
results == <<outs, verdicts>>
vars == <<session, stack, files, queues, out, results, procs, overdue, did>>

Call(f) == [call |-> f]
CheckCall(copy, at, ended) == [call |-> "check_running_procs", copy |-> copy, at |-> at, ended |-> ended]
Top == Head(stack)
opt_reduce == session.reduce
In(f) == stack # << >> /\ Top.call = f

NoProc == [is |-> "none", wrote |-> 0, pipe |-> 0, exit |-> 0]
NewProc == [NoProc EXCEPT !.is = "runs"]

(* Mutated form of kill_properly: the children are looked for when their   *)
(* parent is gone.                                                         *)
KillParentFirst(p) == [NoProc EXCEPT !.is = IF p.is = "runs" THEN "orphan" ELSE "killed", !.exit = 1]

(* What is left of a program by kill_properly: its pipes are closed and    *)
(* the shell it was started by is gone, so that no exit code will be told. *)
(* It is killed itself only if there is posix_kill.                        *)
kill_properly(p) ==
  [NoProc EXCEPT !.is = IF p.is = "runs" /\ ~session.posix_kill THEN "orphan" ELSE "killed",
                 !.exit = 1]

Init ==
  /\ session \in Sessions
  /\ stack = <<Call("run")>>
  /\ files = session.files
  /\ waiting_procs = << >> /\ running_procs = << >> /\ indices = 1
  /\ out = [b \in Bundles |-> 0]
  /\ outs = [b \in Bundles |-> << >>]
  /\ verdicts = [b \in Bundles |-> << >>]
  /\ procs = [b \in Bundles |-> NoProc]
  /\ overdue = {}
  /\ did = [b \in Bundles |-> << >>]

-----------------------------------------------------------------------------
(* The programs.  A program writes Out and exits, unless it hangs for      *)
(* ever, for nothing is assumed of its speed; it cannot write while its    *)
(* pipe is full.                                                           *)
Write(b) ==
  /\ procs[b].is = "runs" /\ procs[b].wrote < Out /\ procs[b].pipe < PipeSize
  /\ procs' = [procs EXCEPT ![b].wrote = @ + 1, ![b].pipe = @ + 1]
  /\ UNCHANGED <<session, stack, files, queues, out, results, overdue, did>>

Exit(b, code) ==
  /\ procs[b].is = "runs" /\ procs[b].wrote = Out
  /\ procs' = [procs EXCEPT ![b].is = "exited", ![b].exit = code]
  /\ did' = [did EXCEPT ![b] = Append(@, code)]
  /\ UNCHANGED <<session, stack, files, queues, out, results, overdue>>

Program(b) == Write(b) \/ \E code \in {0, 1} : Exit(b, code)

(* An orphan ends by itself or because it writes to a closed pipe, if ever. *)
OrphanEnds(b) ==
  /\ procs[b].is = "orphan"
  /\ procs' = [procs EXCEPT ![b].is = "killed"]
  /\ UNCHANGED <<session, stack, files, queues, out, results, overdue, did>>

(* time () comes to be more than max_time after the start of a program.    *)
TimePasses(b) ==
  /\ b \in Range(running_procs) \ overdue
  /\ overdue' = overdue \cup {b}
  /\ UNCHANGED <<session, stack, files, queues, out, results, procs, did>>

-----------------------------------------------------------------------------
(* The framework: the loops of Test::run and of run_out_all_procs.         *)
RunTest ==
  /\ In("run") /\ files # << >>
  /\ files' = Tail(files)
  /\ waiting_procs' = Append(waiting_procs, Test(Head(files)))
  /\ stack' = <<Call("check_capacity")>> \o stack
  /\ UNCHANGED <<session, running_procs, indices, out, results, procs, overdue, did>>

FinishTest ==
  /\ In("run") /\ files = << >>
  /\ stack' = <<Call("run_out_all_procs")>> \o Tail(stack)
  /\ UNCHANGED <<session, files, queues, out, results, procs, overdue, did>>

(* Mutated form of RunOutAllProcs: it stops when no program runs. *)
RunOutAllProcsRunning ==
  /\ In("run_out_all_procs")
  /\ stack' = IF running_procs # << >>
              THEN <<Call("run_waiting_procs"), CheckCall(<< >>, "start", FALSE)>> \o stack
              ELSE Tail(stack)
  /\ UNCHANGED <<session, files, queues, out, results, procs, overdue, did>>

RunOutAllProcs ==
  /\ In("run_out_all_procs")
  /\ stack' = IF running_procs # << >> \/ waiting_procs # << >>
              THEN <<Call("run_waiting_procs"), CheckCall(<< >>, "start", FALSE)>> \o stack
              ELSE Tail(stack)
  /\ UNCHANGED <<session, files, queues, out, results, procs, overdue, did>>

NumRunning == Cardinality(DOMAIN running_procs)

CheckCapacity ==
  /\ In("check_capacity")
  /\ stack' = (IF NumRunning >= get_num_procs THEN <<CheckCall(<< >>, "start", FALSE)>> ELSE << >>)
                \o <<Call("start_waiting")>> \o Tail(stack)
  /\ UNCHANGED <<session, files, queues, out, results, procs, overdue, did>>

StartWaiting ==
  /\ In("start_waiting")
  /\ stack' = (IF Len(waiting_procs) > 1 THEN <<Call("run_waiting_procs")>> ELSE << >>) \o Tail(stack)
  /\ UNCHANGED <<session, files, queues, out, results, procs, overdue, did>>

HasCapacity == NumRunning < get_num_procs

(* One turn of the loop of run_waiting_procs: run_program. *)
RunProgram ==
  /\ In("run_waiting_procs") /\ HasCapacity /\ waiting_procs # << >>
  /\ LET b == Head(waiting_procs)
     IN /\ running_procs' = [i \in DOMAIN running_procs \cup {indices} |->
                               IF i = indices THEN b ELSE running_procs[i]]
        /\ procs' = [procs EXCEPT ![b] = NewProc]
        /\ out' = [out EXCEPT ![b] = 0]
        /\ overdue' = overdue \ {b}
  /\ waiting_procs' = Tail(waiting_procs)
  /\ indices' = indices + 1
  /\ UNCHANGED <<session, stack, files, results, did>>

StopRunning ==
  /\ In("run_waiting_procs") /\ ~(HasCapacity /\ waiting_procs # << >>)
  /\ stack' = Tail(stack)
  /\ UNCHANGED <<session, files, queues, out, results, procs, overdue, did>>

-----------------------------------------------------------------------------
(* check_running_procs: a loop over a copy of running_procs.               *)
Checking(at) == In("check_running_procs") /\ Top.at = at
First(copy) == CHOOSE i \in DOMAIN copy : \A j \in DOMAIN copy : i <= j
Without(f, i) == [j \in DOMAIN f \ {i} |-> f[j]]
Index == First(Top.copy)
Bundle == Top.copy[Index]

(* The call with its loop at the next bundle. *)
Onward == CheckCall(Without(Top.copy, Index), "poll", FALSE)

StartCheck ==
  /\ Checking("start")
  /\ stack' = <<CheckCall(running_procs, "poll", FALSE)>> \o Tail(stack)
  /\ UNCHANGED <<session, files, queues, out, results, procs, overdue, did>>

StopCheck ==
  /\ Checking("poll") /\ Top.copy = << >>
  /\ stack' = Tail(stack)
  /\ UNCHANGED <<session, files, queues, out, results, procs, overdue, did>>

(* proc_get_status, before the streams are read. *)
Poll ==
  /\ Checking("poll") /\ Top.copy # << >>
  /\ stack' = <<CheckCall(Top.copy, "decide", procs[Bundle].is # "runs")>> \o Tail(stack)
  /\ UNCHANGED <<session, files, queues, out, results, procs, overdue, did>>

(* Mutated form of ReadStreams: the streams of an ended program are not    *)
(* read again.                                                             *)
ReadStreamsRunning(b) == out[b] + IF Top.ended THEN 0 ELSE procs[b].pipe

(* read_streams, which comes next and is one step here with what follows.  *)
ReadStreams(b) == out[b] + procs[b].pipe

(* mark_success, mark_failure and mark_timeout. *)
Mark(b, v) == verdicts' = [verdicts EXCEPT ![b] = Append(@, v)]

(* A failure, with the calls still to be made.  With --reduce a smaller    *)
(* program is made and tested before the failure is marked.                *)
Failure(b, calls) ==
  IF opt_reduce /\ ~b.reduced
  THEN /\ waiting_procs' = Append(waiting_procs, [b EXCEPT !.reduced = TRUE])
       /\ stack' = <<Call("check_capacity"), Call("run_out_all_procs"),
                     [call |-> "reduce_failure", bundle |-> b]>> \o calls
       /\ UNCHANGED verdicts
  ELSE /\ Mark(b, "failure")
       /\ stack' = calls
       /\ UNCHANGED waiting_procs

ReduceFailure ==
  /\ In("reduce_failure")
  /\ Mark(Top.bundle, "failure")
  /\ stack' = Tail(stack)
  /\ UNCHANGED <<session, files, queues, out, outs, procs, overdue, did>>

(* Mutated form of StartProgram: it goes to the back of the queue. *)
StartProgramLast(b) == waiting_procs' = Append(waiting_procs, b)

StartProgram(b) == waiting_procs' = <<b>> \o waiting_procs

(* continuation: the exit handler, the next program or two_command_finish. *)
Continuation(b, calls) ==
  IF procs[b].exit # 0 THEN Failure(b, calls)
  ELSE IF Len(outs'[b]) < NumCommands
  THEN /\ StartProgram(b)
       /\ stack' = <<Call("check_capacity")>> \o calls
       /\ UNCHANGED verdicts
  ELSE IF outs'[b][1] # outs'[b][2] THEN Failure(b, calls)
  ELSE /\ Mark(b, "success")
       /\ stack' = calls
       /\ UNCHANGED waiting_procs

(* The program has ended; its exit code is told only once.                 *)
Ended ==
  /\ Checking("decide") /\ Top.ended
  /\ outs' = [outs EXCEPT ![Bundle] = Append(@, ReadStreams(Bundle))]
  /\ out' = [out EXCEPT ![Bundle] = 0]
  /\ procs' = [procs EXCEPT ![Bundle].pipe = 0, ![Bundle].exit = 1]
  /\ running_procs' = Without(running_procs, Index)
  /\ overdue' = overdue \ {Bundle}
  /\ Continuation(Bundle, <<Onward>> \o Tail(stack))
  /\ UNCHANGED <<session, files, indices, did>>

TimedOut ==
  /\ Checking("decide") /\ ~Top.ended /\ Bundle \in overdue
  /\ outs' = [outs EXCEPT ![Bundle] = Append(@, ReadStreams(Bundle))]
  /\ out' = [out EXCEPT ![Bundle] = 0]
  /\ procs' = [procs EXCEPT ![Bundle] = kill_properly(procs[Bundle])]
  /\ running_procs' = Without(running_procs, Index)
  /\ Mark(Bundle, "timeout")
  /\ stack' = <<Onward>> \o Tail(stack)
  /\ UNCHANGED <<session, files, waiting_procs, indices, overdue, did>>

(* Mutated form of KeepRunning: what is read stays in the pipe. *)
KeepRunningFull ==
  /\ Checking("decide") /\ ~Top.ended /\ Bundle \notin overdue
  /\ out' = [out EXCEPT ![Bundle] = ReadStreams(Bundle)]
  /\ stack' = <<Onward>> \o Tail(stack)
  /\ UNCHANGED <<session, files, queues, results, procs, overdue, did>>

KeepRunning ==
  /\ Checking("decide") /\ ~Top.ended /\ Bundle \notin overdue
  /\ out' = [out EXCEPT ![Bundle] = ReadStreams(Bundle)]
  /\ procs' = [procs EXCEPT ![Bundle].pipe = 0]
  /\ stack' = <<Onward>> \o Tail(stack)
  /\ UNCHANGED <<session, files, queues, results, overdue, did>>

Framework ==
  \/ RunTest \/ FinishTest \/ RunOutAllProcs \/ CheckCapacity \/ StartWaiting
  \/ RunProgram \/ StopRunning \/ StartCheck \/ StopCheck \/ Poll
  \/ Ended \/ TimedOut \/ KeepRunning \/ ReduceFailure

Next == Framework \/ (\E b \in Bundles : Program(b) \/ OrphanEnds(b) \/ TimePasses(b))

Spec ==
  /\ Init /\ [][Next]_vars
  /\ WF_vars(Framework) /\ WF_vars(\E b \in Bundles : TimePasses(b))

-----------------------------------------------------------------------------
IndexedBundles(f) == DOMAIN f \in SUBSET (1..indices - 1) /\ \A i \in DOMAIN f : f[i] \in Bundles

(* The calls on the stack: run or run_out_all_procs at the bottom, at most *)
(* one loop over the running programs in its first turn above each of      *)
(* them, and an index is used for one program only.                        *)
AsyncTypeOK ==
  /\ session \in Sessions
  /\ waiting_procs \in Seq(Bundles)
  /\ IndexedBundles(running_procs)
  /\ \A n \in DOMAIN stack :
       stack[n].call = "check_running_procs" =>
         /\ IndexedBundles(stack[n].copy)
         /\ stack[n].at = "decide" => n = 1 /\ stack[n].copy # << >>
  /\ \A b \in Bundles :
       /\ procs[b].pipe \in 0..PipeSize /\ procs[b].wrote \in 0..Out /\ out[b] \in 0..Out

Live == {b \in Bundles : procs[b].is \in {"runs", "orphan"}}
Orphans == Live \ Range(running_procs)

(* With posix_kill no program is left behind: what lives is on the list of *)
(* running programs, so that no more than PHC_NUM_PROCS live at the same   *)
(* time.  Without it what is left behind was timed out.                    *)
NoOrphans ==
  /\ session.posix_kill => Orphans = {}
  /\ \A b \in Orphans : "timeout" \in Range(verdicts[b])
  /\ NumRunning <= get_num_procs

(* A verdict says what happened: a success is a test both of whose         *)
(* programs returned 0, a failure one of which a program did not, and a    *)
(* timeout one that was given up because its program had its time, those   *)
(* before it having returned 0.  Nothing that a program wrote before its   *)
(* end is lost, for then the outputs would not match.                      *)
VerdictsTrue ==
  \A b \in Bundles : verdicts[b] # << >> =>
    CASE Head(verdicts[b]) = "success" -> Range(did[b]) = {0} /\ Len(did[b]) = NumCommands
      [] Head(verdicts[b]) = "failure" -> 1 \in Range(did[b])
      [] Head(verdicts[b]) = "timeout" ->
           /\ b \in overdue /\ procs[b].is \in {"killed", "orphan"}
           /\ \A i \in 1..Len(outs[b]) - 1 : did[b][i] = 0

StatusOf(s) ==
  LET b == Test(s)
  IN IF Len(verdicts[b]) > 1 THEN "twice"
     ELSE IF verdicts[b] # << >> THEN Head(verdicts[b])
     ELSE IF procs[b] # NoProc THEN "open"
     ELSE "queued"

Pool == INSTANCE TestPool WITH
  Open <- get_num_procs,
  Verdicts <- {"success", "failure", "timeout"},
  status <- [s \in Subjects |-> StatusOf(s)]

(* Without --reduce, the framework does what a TestPool may do: it judges  *)
(* a subject once, and begins with no more subjects than programs may run, *)
(* because a test that is under way goes before those that are not.        *)
ImplementsPool ==
  /\ Pool!Init
  /\ [][~opt_reduce => Pool!Next \/ UNCHANGED [s \in Subjects |-> StatusOf(s)]]_vars

(* Each subject gets a verdict, whatever its programs do.                  *)
AllJudged == <>(opt_reduce \/ \A s \in Range(session.files) : verdicts[Test(s)] # << >>)
=============================================================================
