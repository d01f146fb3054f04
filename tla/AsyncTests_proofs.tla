------------------------- MODULE AsyncTests_proofs -------------------------
(***************************************************************************)
(* Proofs for AsyncTests, for any sessions, any number of processors, any  *)
(* amount of output and any size of a pipe: whatever the programs do, and  *)
(* however often check_running_procs is entered from within itself, no     *)
(* program is lost from the list of running programs but one that was      *)
(* timed out and could not be killed.                                      *)
(***************************************************************************)
EXTENDS AsyncTests, FiniteSetTheorems, SequenceTheorems, WellFoundedInduction, TLAPS

(* A set of indices has a first element, so that the loop of               *)
(* check_running_procs is at a bundle as long as its copy is not empty.    *)
LEMMA HasFirst ==
  ASSUME NEW D \in SUBSET Nat, D # {}
  PROVE  \E i \in D : \A j \in D : i <= j
<1>1. PICK x \in D : \A y \in D : ~ (<<y, x>> \in OpToRel(<, Nat))
  BY NatLessThanWellFounded, WFMin
<1>2. \A y \in D : ~ (y < x)
  BY <1>1 DEF OpToRel
<1> QED
  BY <1>2

LEMMA NonEmpty ==
  ASSUME NEW D, NEW f \in [D -> Bundles], f # << >>
  PROVE  D # {}
  OBVIOUS

-----------------------------------------------------------------------------
(* The calls on the stack, and lists of indexed bundles. *)
Copies == UNION {[D -> Bundles] : D \in SUBSET Nat}
SimpleFrame ==
  [call : {"run", "run_out_all_procs", "check_capacity", "start_waiting", "run_waiting_procs"}]
    \cup [call : {"reduce_failure"}, bundle : Bundles]
CheckFrame ==
  [call : {"check_running_procs"}, copy : Copies, at : {"start", "poll", "decide"}, ended : BOOLEAN]
Frame == SimpleFrame \cup CheckFrame

Indexed(f, ix) == f \in Copies /\ DOMAIN f \subseteq 1..(ix - 1)

(* A copy may name bundles that have left the list since, but at an index  *)
(* both have, there is one bundle.                                         *)
Agrees(f, rp, ix) ==
  f.call = "check_running_procs" =>
    /\ Indexed(f.copy, ix)
    /\ \A i \in DOMAIN f.copy \cap DOMAIN rp : f.copy[i] = rp[i]
Deciding(f) == f.call = "check_running_procs" /\ f.at = "decide"

(* Only the call on top has asked for the state of a program and not acted *)
(* on it yet.                                                              *)
Idle(st, rp, ix) ==
  /\ st \in Seq(Frame)
  /\ \A n \in 1..Len(st) : Agrees(st[n], rp, ix) /\ ~Deciding(st[n])
StackOK(st, rp, ix) ==
  /\ st \in Seq(Frame)
  /\ st # << >> => /\ Idle(Tail(st), rp, ix)
                   /\ Agrees(Head(st), rp, ix)
                   /\ Deciding(Head(st)) => Head(st).copy # << >>

Proc == [is : {"none", "runs", "exited", "killed", "orphan"}, wrote : Nat, pipe : Nat, exit : {0, 1}]

(* What a program has written is in its pipe, was read, or is forgotten. *)
Counted ==
  \A b \in Bundles : /\ procs[b].wrote <= Out /\ procs[b].pipe <= PipeSize
                     /\ out[b] + procs[b].pipe <= procs[b].wrote

Typed ==
  /\ session \in Sessions
  /\ files \in Seq(Subjects)
  /\ waiting_procs \in Seq(Bundles)
  /\ indices \in Nat \ {0}
  /\ procs \in [Bundles -> Proc]
  /\ out \in [Bundles -> Nat]

(* What runs and has not been given up is on the list. *)
Running == {b \in Bundles : procs[b].is = "runs"}
Listed ==
  /\ Running \subseteq Range(running_procs)
  /\ NumRunning <= get_num_procs

(* A program found to have ended does not run when that is acted upon. *)
EndedStays == Checking("decide") /\ Top.ended => procs[Bundle].is # "runs"

IInv ==
  /\ Typed /\ Counted
  /\ Indexed(running_procs, indices)
  /\ StackOK(stack, running_procs, indices)
  /\ EndedStays
  /\ Listed

-----------------------------------------------------------------------------
LEMMA IdleTop ==
  ASSUME NEW rp, NEW ix, NEW st, Idle(st, rp, ix)
  PROVE  StackOK(st, rp, ix)
<1>1. SUFFICES ASSUME st # << >>
      PROVE /\ Idle(Tail(st), rp, ix) /\ Agrees(Head(st), rp, ix) /\ ~Deciding(Head(st))
  BY DEF StackOK, Idle
<1>2. Len(st) \in Nat \ {0} /\ Head(st) = st[1]
  BY <1>1 DEF Idle
<1>3. /\ Tail(st) \in Seq(Frame) /\ Len(Tail(st)) = Len(st) - 1
      /\ \A i \in 1 .. Len(Tail(st)) : Tail(st)[i] = st[i + 1]
  BY <1>1, HeadTailProperties DEF Idle
<1> QED
  BY <1>2, <1>3 DEF Idle

LEMMA PushIdle ==
  ASSUME NEW rp, NEW ix, NEW p, Idle(p, rp, ix), NEW st, Idle(st, rp, ix)
  PROVE  Idle(p \o st, rp, ix)
<1>1. p \in Seq(Frame) /\ st \in Seq(Frame)
  BY DEF Idle
<1>2. /\ p \o st \in Seq(Frame)
      /\ Len(p \o st) = Len(p) + Len(st)
      /\ \A i \in 1 .. Len(p) + Len(st) : (p \o st)[i] = IF i <= Len(p) THEN p[i] ELSE st[i - Len(p)]
  BY <1>1, ConcatProperties
<1>3. ASSUME NEW i \in 1 .. Len(p \o st)
      PROVE  Agrees((p \o st)[i], rp, ix) /\ ~Deciding((p \o st)[i])
  <2>1. CASE i <= Len(p)
    <3>1. i \in 1 .. Len(p) /\ (p \o st)[i] = p[i]
      BY <1>1, <1>2, <2>1
    <3> QED BY <3>1 DEF Idle
  <2>2. CASE ~(i <= Len(p))
    <3>1. i - Len(p) \in 1 .. Len(st) /\ (p \o st)[i] = st[i - Len(p)]
      BY <1>1, <1>2, <2>2
    <3> QED BY <3>1 DEF Idle
  <2> QED BY <2>1, <2>2
<1> QED
  BY <1>2, <1>3 DEF Idle

(* Calls that copy nothing may be put on an idle stack. *)
LEMMA PushSimple ==
  ASSUME NEW rp, NEW ix, NEW st, Idle(st, rp, ix), NEW p \in Seq(SimpleFrame)
  PROVE  Idle(p \o st, rp, ix)
<1>1. \A f \in SimpleFrame : Agrees(f, rp, ix) /\ ~Deciding(f)
  BY DEF SimpleFrame, Agrees, Deciding
<1>2. p \in Seq(Frame) /\ \A i \in 1 .. Len(p) : p[i] \in SimpleFrame
  BY ElementOfSeq DEF Frame
<1>3. Idle(p, rp, ix)
  BY <1>1, <1>2 DEF Idle
<1> QED
  BY <1>3, PushIdle

(* A loop over the running programs may be put on an idle stack. *)
LEMMA PushCheck ==
  ASSUME NEW rp, NEW ix, NEW st, Idle(st, rp, ix), NEW f \in CheckFrame, Agrees(f, rp, ix),
         Deciding(f) => f.copy # << >>
  PROVE  /\ StackOK(<<f>> \o st, rp, ix)
         /\ ~Deciding(f) => Idle(<<f>> \o st, rp, ix)
         /\ <<f>> \o st # << >> /\ Head(<<f>> \o st) = f /\ Tail(<<f>> \o st) = st
<1>1. <<f>> \in Seq(Frame) /\ st \in Seq(Frame) /\ Len(<<f>>) = 1 /\ <<f>>[1] = f
  BY DEF Frame, Idle
<1> DEFINE s == <<f>> \o st
<1>2. /\ s \in Seq(Frame)
      /\ Len(s) = 1 + Len(st)
      /\ \A i \in 1 .. 1 + Len(st) : s[i] = IF i <= 1 THEN f ELSE st[i - 1]
  BY <1>1, ConcatProperties
<1>3. Len(st) \in Nat
  BY <1>1
<1> HIDE DEF s
<1>4. s # << >> /\ Head(s) = f
  BY <1>2, <1>3
<1>5. /\ Tail(s) \in Seq(Frame) /\ Len(Tail(s)) = Len(st)
      /\ \A i \in 1 .. Len(st) : Tail(s)[i] = st[i]
  <2>1. /\ Tail(s) \in Seq(Frame) /\ Len(Tail(s)) = Len(s) - 1
        /\ \A i \in 1 .. Len(Tail(s)) : Tail(s)[i] = s[i + 1]
    BY <1>2, <1>4, HeadTailProperties
  <2> QED BY <1>2, <1>3, <2>1
<1>6. Tail(s) = st
  BY <1>1, <1>5
<1>7. StackOK(s, rp, ix)
  BY <1>2, <1>4, <1>6 DEF StackOK
<1>8. ASSUME ~Deciding(f) PROVE Idle(s, rp, ix)
  <2>1. ASSUME NEW i \in 1 .. Len(s) PROVE Agrees(s[i], rp, ix) /\ ~Deciding(s[i])
    <3>1. CASE i = 1
      BY <1>2, <1>3, <1>8, <3>1
    <3>2. CASE i # 1
      <4>1. i - 1 \in 1 .. Len(st) /\ s[i] = st[i - 1]
        BY <1>2, <1>3, <3>2
      <4> QED BY <4>1 DEF Idle
    <3> QED BY <3>1, <3>2
  <2> QED BY <1>2, <2>1 DEF Idle
<1> QED
  BY <1>4, <1>6, <1>7, <1>8 DEF s

LEMMA TopIdle ==
  ASSUME NEW rp, NEW ix, NEW st, StackOK(st, rp, ix), st # << >>, ~Deciding(Head(st))
  PROVE  Idle(st, rp, ix)
<1>1. st \in Seq(Frame) /\ Len(st) \in Nat \ {0} /\ Head(st) = st[1]
  BY DEF StackOK
<1>2. /\ Tail(st) \in Seq(Frame) /\ Len(Tail(st)) = Len(st) - 1
      /\ \A i \in 1 .. Len(Tail(st)) : Tail(st)[i] = st[i + 1]
  BY <1>1, HeadTailProperties
<1>3. ASSUME NEW i \in 1 .. Len(st) PROVE Agrees(st[i], rp, ix) /\ ~Deciding(st[i])
  <2>1. CASE i = 1
    BY <1>1, <2>1 DEF StackOK
  <2>2. CASE i # 1
    <3>1. i - 1 \in 1 .. Len(Tail(st)) /\ st[i] = Tail(st)[i - 1]
      BY <1>1, <1>2, <2>2
    <3> QED BY <3>1 DEF StackOK, Idle
  <2> QED BY <2>1, <2>2
<1> QED
  BY <1>1, <1>3 DEF Idle

(* The stack does not mind that a bundle leaves the list ... *)
LEMMA Fewer ==
  ASSUME NEW rp, NEW ix, Indexed(rp, ix), NEW i
  PROVE  /\ Indexed(Without(rp, i), ix)
         /\ \A f : Agrees(f, rp, ix) => Agrees(f, Without(rp, i), ix)
         /\ \A st : Idle(st, rp, ix) => Idle(st, Without(rp, i), ix)
<1>1. PICK D \in SUBSET Nat : rp \in [D -> Bundles] /\ D \subseteq 1 .. (ix - 1)
  BY DEF Indexed, Copies
<1>2. Without(rp, i) \in [D \ {i} -> Bundles] /\ \A j \in D \ {i} : Without(rp, i)[j] = rp[j]
  BY <1>1 DEF Without
<1>3. Indexed(Without(rp, i), ix)
  BY <1>1, <1>2 DEF Indexed, Copies
<1>4. \A f : Agrees(f, rp, ix) => Agrees(f, Without(rp, i), ix)
  BY <1>1, <1>2 DEF Agrees
<1> QED
  BY <1>3, <1>4 DEF Idle

(* ... or that another gets an index of its own. *)
LEMMA More ==
  ASSUME NEW rp, NEW ix \in Nat \ {0}, Indexed(rp, ix), NEW b \in Bundles, NEW rq,
         rq = [i \in DOMAIN rp \cup {ix} |-> IF i = ix THEN b ELSE rp[i]]
  PROVE  /\ Indexed(rq, ix + 1)
         /\ \A st : Idle(st, rp, ix) => Idle(st, rq, ix + 1)
<1>1. PICK D \in SUBSET Nat : rp \in [D -> Bundles] /\ D \subseteq 1 .. (ix - 1)
  BY DEF Indexed, Copies
<1>2. rq \in [D \cup {ix} -> Bundles] /\ D \cup {ix} \subseteq 1 .. ((ix + 1) - 1)
  BY <1>1
<1>3. Indexed(rq, ix + 1)
  BY <1>2 DEF Indexed, Copies
<1>4. ASSUME NEW f, Agrees(f, rp, ix) PROVE Agrees(f, rq, ix + 1)
  <2>1. SUFFICES ASSUME f.call = "check_running_procs"
        PROVE /\ Indexed(f.copy, ix + 1)
              /\ \A i \in DOMAIN f.copy \cap DOMAIN rq : f.copy[i] = rq[i]
    BY DEF Agrees
  <2>2. Indexed(f.copy, ix) /\ \A i \in DOMAIN f.copy \cap DOMAIN rp : f.copy[i] = rp[i]
    BY <1>4, <2>1 DEF Agrees
  <2>3. ix \notin DOMAIN f.copy /\ Indexed(f.copy, ix + 1)
    BY <2>2 DEF Indexed
  <2> QED BY <1>1, <2>2, <2>3
<1> QED
  BY <1>3, <1>4 DEF Idle

(* The loop of check_running_procs: its bundle, and its next turn. *)
LEMMA LoopStep ==
  ASSUME NEW f \in CheckFrame, NEW rp, NEW ix, Agrees(f, rp, ix), f.copy # << >>
  PROVE  LET i == First(f.copy) IN
         /\ i \in DOMAIN f.copy /\ f.copy[i] \in Bundles
         /\ CheckCall(Without(f.copy, i), "poll", FALSE) \in CheckFrame
         /\ Agrees(CheckCall(Without(f.copy, i), "poll", FALSE), rp, ix)
<1>1. f.call = "check_running_procs" /\ Indexed(f.copy, ix)
  BY DEF Agrees, CheckFrame
<1>2. PICK D \in SUBSET Nat : f.copy \in [D -> Bundles] /\ D \subseteq 1 .. (ix - 1)
  BY <1>1 DEF Indexed, Copies
<1>3. D # {}
  BY <1>2, NonEmpty
<1>4. First(f.copy) \in D
  BY <1>2, <1>3, HasFirst DEF First
<1> DEFINE i == First(f.copy)
           g == CheckCall(Without(f.copy, i), "poll", FALSE)
<1>5. Indexed(Without(f.copy, i), ix) /\ Without(f.copy, i) \in Copies
  BY <1>1, Fewer DEF Indexed
<1>6. \A j \in D \ {i} : Without(f.copy, i)[j] = f.copy[j]
  BY <1>2 DEF Without
<1>7. DOMAIN Without(f.copy, i) = D \ {i}
  BY <1>2 DEF Without
<1>8. g \in CheckFrame
  BY <1>5 DEF CheckCall, CheckFrame
<1>9. Agrees(g, rp, ix)
  <2>1. g.copy = Without(f.copy, i)
    BY DEF CheckCall
  <2>2. \A j \in DOMAIN f.copy \cap DOMAIN rp : f.copy[j] = rp[j]
    BY <1>1 DEF Agrees
  <2>3. \A j \in DOMAIN g.copy \cap DOMAIN rp : g.copy[j] = rp[j]
    BY <1>2, <1>6, <1>7, <2>1, <2>2
  <2> QED BY <1>5, <2>1, <2>3 DEF Agrees
<1> QED
  BY <1>2, <1>4, <1>8, <1>9

-----------------------------------------------------------------------------
(* The facts about a stack whose top is one of the calls. *)
LEMMA InCall ==
  ASSUME IInv, NEW f, In(f), f # "check_running_procs"
  PROVE  /\ Idle(stack, running_procs, indices)
         /\ Idle(Tail(stack), running_procs, indices)
         /\ stack \in Seq(Frame) /\ Top \in Frame /\ Top.call = f
<1>1. StackOK(stack, running_procs, indices) /\ stack # << >> /\ Top.call = f
  BY DEF IInv, In
<1>2. stack \in Seq(Frame) /\ Top \in Frame
  BY <1>1, HeadTailProperties DEF StackOK, Top
<1>3. ~Deciding(Head(stack))
  BY <1>1 DEF Deciding, Top
<1> QED
  BY <1>1, <1>2, <1>3, TopIdle DEF StackOK

LEMMA InCheck ==
  ASSUME IInv, NEW at, Checking(at)
  PROVE  /\ stack # << >> /\ Idle(Tail(stack), running_procs, indices)
         /\ Top \in CheckFrame /\ Top.at = at
         /\ Agrees(Top, running_procs, indices)
         /\ at = "decide" => Top.copy # << >>
<1>1. StackOK(stack, running_procs, indices) /\ stack # << >> /\ Top.call = "check_running_procs"
  BY DEF IInv, In, Checking
<1>2. Top \in CheckFrame
  BY <1>1, HeadTailProperties DEF StackOK, Top, Frame, SimpleFrame
<1> QED
  BY <1>1, <1>2 DEF StackOK, Top, Checking, Deciding

(* A stack whose top does not decide leaves nothing for EndedStays to say. *)
LEMMA IdleStays ==
  ASSUME Idle(stack, running_procs, indices)
  PROVE  EndedStays
<1>1. SUFFICES ASSUME Checking("decide") PROVE FALSE
  BY DEF EndedStays
<1>2. stack \in Seq(Frame) /\ stack # << >> /\ Top = stack[1] /\ 1 \in 1 .. Len(stack)
  BY <1>1 DEF Idle, Checking, In, Top
<1> QED
  BY <1>1, <1>2 DEF Idle, Deciding, Checking, In

(* Three calls at most are made at once. *)
LEMMA Calls ==
  /\ << >> \in Seq(SimpleFrame)
  /\ \A f \in SimpleFrame : <<f>> \in Seq(SimpleFrame)
  /\ \A f, g \in SimpleFrame : <<f, g>> \in Seq(SimpleFrame)
  /\ \A f, g, h \in SimpleFrame : <<f, g, h>> \in Seq(SimpleFrame)
OBVIOUS

(* The calls of the framework that only change its stack. *)
LEMMA StackStep ==
  ASSUME IInv, Idle(stack', running_procs', indices'),
         UNCHANGED <<session, waiting_procs, running_procs, indices, out, procs>>,
         files' \in Seq(Subjects)
  PROVE  IInv'
<1>1. Typed' /\ Counted' /\ Indexed(running_procs, indices)'
  BY DEF IInv, Typed, Counted
<1>2. Listed'
  BY DEF IInv, Listed, Running, NumRunning
<1>3. StackOK(stack, running_procs, indices)'
  BY IdleTop
<1>4. (Idle(stack, running_procs, indices) => EndedStays)'
  BY IdleStays, PTL
<1> QED
  BY <1>1, <1>2, <1>3, <1>4 DEF IInv

-----------------------------------------------------------------------------
(* Initially there is only the loop of Test::run. *)
LEMMA InitIInv == Init => IInv
<1> SUFFICES ASSUME Init PROVE IInv
  OBVIOUS
<1>1. files \in Seq(Subjects)
  <2>1. session.files \in Seq(Range(session.files)) /\ Range(session.files) \subseteq Subjects
    BY SessionsOfFiles DEF Init, Subjects
  <2> QED BY <2>1 DEF Init
<1>2. Typed
  BY <1>1 DEF Init, Typed, Proc, NoProc
<1>3. Counted
  BY SizesPositive DEF Init, Counted, NoProc
<1>4. running_procs \in [{} -> Bundles] /\ DOMAIN running_procs = {}
  BY DEF Init
<1>5. Indexed(running_procs, indices)
  BY <1>4 DEF Indexed, Copies
<1>6. Idle(<< >>, running_procs, indices)
  BY DEF Idle
<1>7. Idle(stack, running_procs, indices)
  <2>1. Call("run") \in SimpleFrame
    BY DEF Call, SimpleFrame
  <2>2. stack = <<Call("run")>> \o << >>
    BY DEF Init
  <2> QED BY <1>6, <2>1, <2>2, Calls, PushSimple
<1>8. Listed
  <2>1. Running = {}
    BY DEF Running, Init, NoProc
  <2>2. NumRunning = 0
    BY <1>4, FS_EmptySet DEF NumRunning
  <2> QED BY <2>1, <2>2, ProcsPositive DEF Listed
<1> QED
  BY <1>2, <1>3, <1>5, <1>7, <1>8, IdleTop, IdleStays DEF IInv

LEMMA WriteProc ==
  ASSUME NEW p \in Proc
  PROVE  [p EXCEPT !.wrote = p.wrote + 1, !.pipe = p.pipe + 1] \in Proc
<1>1. /\ p.wrote \in Nat /\ p.pipe \in Nat
      /\ p = [is |-> p.is, wrote |-> p.wrote, pipe |-> p.pipe, exit |-> p.exit]
  BY DEF Proc
<1>2. p.wrote + 1 \in Nat /\ p.pipe + 1 \in Nat
  BY <1>1
<1> QED
  BY <1>2 DEF Proc

(* The programs and the clock. *)
LEMMA ProgramStep ==
  ASSUME IInv, NEW b \in Bundles, Program(b) \/ OrphanEnds(b) \/ TimePasses(b)
  PROVE  IInv'
<1>1. UNCHANGED <<session, stack, files, waiting_procs, running_procs, indices, out>>
  BY DEF Program, Write, Exit, OrphanEnds, TimePasses, queues
<1>2. /\ procs' \in [Bundles -> Proc]
      /\ Counted'
      /\ \A c \in Bundles : procs'[c].is = "runs" => procs[c].is = "runs"
  <2>1. CASE Write(b)
    <3>1. procs' = [procs EXCEPT ![b] = [procs[b] EXCEPT !.wrote = procs[b].wrote + 1, !.pipe = procs[b].pipe + 1]]
      BY <2>1 DEF Write, IInv, Typed
    <3>2. procs[b] \in Proc /\ procs[b].wrote < Out /\ procs[b].pipe < PipeSize
      BY <2>1 DEF Write, IInv, Typed
    <3>3. [procs[b] EXCEPT !.wrote = procs[b].wrote + 1, !.pipe = procs[b].pipe + 1] \in Proc
      BY <3>2, WriteProc
    <3>4. \A c \in Bundles : procs[c] \in Proc /\ out[c] \in Nat
      BY DEF IInv, Typed
    <3>5. \A c \in Bundles : c # b => procs'[c] = procs[c]
      BY <3>1 DEF IInv, Typed
    <3>6. /\ procs'[b].wrote = procs[b].wrote + 1 /\ procs'[b].pipe = procs[b].pipe + 1
          /\ procs'[b].is = procs[b].is
      BY <3>1, <3>2 DEF IInv, Typed, Proc
    <3>7. Counted'
      BY <1>1, <3>2, <3>4, <3>5, <3>6, SizesPositive DEF IInv, Counted, Proc
    <3> QED BY <3>1, <3>3, <3>5, <3>6, <3>7 DEF IInv, Typed
  <2>2. ASSUME NEW code \in {0, 1}, Exit(b, code)
        PROVE  /\ procs' \in [Bundles -> Proc]
               /\ Counted'
               /\ \A c \in Bundles : procs'[c].is = "runs" => procs[c].is = "runs"
    <3>1. procs' = [procs EXCEPT ![b] = [procs[b] EXCEPT !.is = "exited", !.exit = code]]
      BY <2>2 DEF Exit, IInv, Typed
    <3>2. procs[b] \in Proc
      BY DEF IInv, Typed
    <3>3. [procs[b] EXCEPT !.is = "exited", !.exit = code] \in Proc
      BY <3>2, <2>2 DEF Proc
    <3>5. \A c \in Bundles : c # b => procs'[c] = procs[c]
      BY <3>1 DEF IInv, Typed
    <3>6. /\ procs'[b].wrote = procs[b].wrote /\ procs'[b].pipe = procs[b].pipe
          /\ procs'[b].is = "exited"
      BY <3>1, <3>2 DEF IInv, Typed, Proc
    <3>7. Counted'
      BY <1>1, <3>5, <3>6 DEF IInv, Counted
    <3> QED BY <3>1, <3>3, <3>5, <3>6, <3>7 DEF IInv, Typed
  <2>3. CASE TimePasses(b)
    BY <1>1, <2>3 DEF TimePasses, IInv, Typed, Counted
  <2>4. CASE OrphanEnds(b)
    <3>1. procs' = [procs EXCEPT ![b] = [procs[b] EXCEPT !.is = "killed"]] /\ procs[b] \in Proc
      BY <2>4 DEF OrphanEnds, IInv, Typed
    <3>2. [procs[b] EXCEPT !.is = "killed"] \in Proc
      BY <3>1 DEF Proc
    <3>3. /\ procs'[b].wrote = procs[b].wrote /\ procs'[b].pipe = procs[b].pipe
          /\ procs'[b].is = "killed" /\ \A c \in Bundles : c # b => procs'[c] = procs[c]
      BY <3>1 DEF IInv, Typed, Proc
    <3>4. Counted'
      BY <1>1, <3>3 DEF IInv, Counted
    <3> QED BY <3>1, <3>2, <3>3, <3>4 DEF IInv, Typed
  <2> QED BY <2>1, <2>2, <2>3, <2>4 DEF Program
<1>3. Typed'
  BY <1>1, <1>2 DEF IInv, Typed
<1>4. Listed'
  <2>1. Running' \subseteq Running
    BY <1>2 DEF Running
  <2> QED BY <1>1, <2>1 DEF IInv, Listed, NumRunning
<1>5. EndedStays'
  <2> SUFFICES ASSUME Checking("decide")', Top'.ended PROVE procs'[Bundle'].is # "runs"
    BY DEF EndedStays
  <2>1. Checking("decide") /\ Top.ended /\ Bundle' = Bundle
    BY <1>1 DEF Checking, In, Top, Bundle, Index
  <2>2. Bundle \in Bundles
    BY <2>1, InCheck, LoopStep DEF Bundle, Index
  <2> QED BY <1>2, <2>1, <2>2 DEF IInv, EndedStays
<1> QED
  BY <1>1, <1>2, <1>3, <1>4, <1>5 DEF IInv

-----------------------------------------------------------------------------
(* The call that is about to copy the list of running programs. *)
LEMMA NewCheck ==
  ASSUME NEW rp, NEW ix
  PROVE  /\ CheckCall(<< >>, "start", FALSE) \in CheckFrame
         /\ Idle(<<CheckCall(<< >>, "start", FALSE)>>, rp, ix)
<1> DEFINE f == CheckCall(<< >>, "start", FALSE)
<1>1. << >> \in [{} -> Bundles] /\ DOMAIN << >> = {}
  OBVIOUS
<1>2. << >> \in Copies
  BY <1>1 DEF Copies
<1>3. f \in CheckFrame
  BY <1>2 DEF CheckCall, CheckFrame
<1>4. Agrees(f, rp, ix) /\ ~Deciding(f)
  BY <1>1, <1>2 DEF Agrees, Indexed, Deciding, CheckCall
<1> HIDE DEF f
<1>5. <<f>> \in Seq(Frame) /\ Len(<<f>>) = 1 /\ <<f>>[1] = f
  BY <1>3 DEF Frame
<1>6. Idle(<<f>>, rp, ix)
  BY <1>4, <1>5 DEF Idle
<1> QED
  BY <1>3, <1>6 DEF f

LEMMA SimpleCalls ==
  \A f \in {"run", "run_out_all_procs", "check_capacity", "start_waiting", "run_waiting_procs"} :
    Call(f) \in SimpleFrame /\ <<Call(f)>> \in Seq(SimpleFrame)
BY Calls DEF Call, SimpleFrame

(* The calls that only arrange for other calls. *)
LEMMA CallStep ==
  ASSUME IInv, FinishTest \/ RunOutAllProcs \/ CheckCapacity \/ StartWaiting \/ StopRunning
  PROVE  IInv'
<1>1. UNCHANGED <<session, files, waiting_procs, running_procs, indices, out, procs>>
  BY DEF FinishTest, RunOutAllProcs, CheckCapacity, StartWaiting, StopRunning, queues
<1>2. files' \in Seq(Subjects)
  BY <1>1 DEF IInv, Typed
<1> DEFINE rp == running_procs
           ix == indices
           check == CheckCall(<< >>, "start", FALSE)
<1>3. Idle(<<check>>, rp, ix)
  BY NewCheck
<1>4. /\ Idle(stack, rp, ix) /\ Idle(Tail(stack), rp, ix)
  BY InCall DEF FinishTest, RunOutAllProcs, CheckCapacity, StartWaiting, StopRunning
<1>5. Idle(stack', rp, ix)
  <2>1. CASE FinishTest
    BY <1>4, <2>1, PushSimple, SimpleCalls DEF FinishTest
  <2>2. CASE RunOutAllProcs
    <3>1. Idle(<<Call("run_waiting_procs")>> \o (<<check>> \o stack), rp, ix)
      BY <1>3, <1>4, PushIdle, PushSimple, SimpleCalls
    <3>2. <<Call("run_waiting_procs"), check>> \o stack
            = <<Call("run_waiting_procs")>> \o (<<check>> \o stack)
      <4>1. /\ <<Call("run_waiting_procs")>> \in Seq(Frame) /\ <<check>> \in Seq(Frame)
            /\ stack \in Seq(Frame)
        <5>1. <<Call("run_waiting_procs")>> \in Seq(SimpleFrame)
          BY SimpleCalls
        <5> HIDE DEF check
        <5> QED BY <1>3, <1>4, <5>1 DEF Idle, Frame
      <4> HIDE DEF check
      <4>2. <<Call("run_waiting_procs"), check>> = <<Call("run_waiting_procs")>> \o <<check>>
        OBVIOUS
      <4>3. (<<Call("run_waiting_procs")>> \o <<check>>) \o stack
              = <<Call("run_waiting_procs")>> \o (<<check>> \o stack)
        BY <4>1, ConcatAssociative
      <4> QED BY <4>2, <4>3
    <3> QED BY <1>4, <2>2, <3>1, <3>2 DEF RunOutAllProcs
  <2>3. CASE CheckCapacity
    <3>1. Idle(<< >>, rp, ix)
      BY DEF Idle
    <3>2. Idle(<<Call("start_waiting")>>, rp, ix)
      <4>1. <<Call("start_waiting")>> \in Seq(SimpleFrame)
        BY SimpleCalls
      <4>2. <<Call("start_waiting")>> \o << >> = <<Call("start_waiting")>>
        BY <4>1, ConcatEmptySeq
      <4> QED BY <3>1, <4>1, <4>2, PushSimple
    <3>3. Idle(<<check>> \o <<Call("start_waiting")>>, rp, ix)
          /\ Idle(<< >> \o <<Call("start_waiting")>>, rp, ix)
      BY <1>3, <3>1, <3>2, PushIdle
    <3> QED BY <1>4, <2>3, <3>3, PushIdle DEF CheckCapacity
  <2>4. CASE StartWaiting
    BY <1>4, <2>4, PushSimple, SimpleCalls, Calls DEF StartWaiting
  <2>5. CASE StopRunning
    BY <1>4, <2>5 DEF StopRunning
  <2> QED BY <2>1, <2>2, <2>3, <2>4, <2>5
<1> QED
  BY <1>1, <1>2, <1>5, StackStep

LEMMA RunTestStep ==
  ASSUME IInv, RunTest
  PROVE  IInv'
<1>1. Idle(stack', running_procs, indices)
  BY InCall, PushSimple, SimpleCalls DEF RunTest
<1>2. files' \in Seq(Subjects) /\ Head(files) \in Subjects
  BY HeadTailProperties DEF RunTest, IInv, Typed
<1>3. waiting_procs' \in Seq(Bundles)
  <2>1. Test(Head(files)) \in Bundles
    BY <1>2 DEF Test, Bundles
  <2> QED BY <2>1 DEF RunTest, IInv, Typed
<1>4. Typed' /\ Counted' /\ Indexed(running_procs, indices)'
  BY <1>2, <1>3 DEF RunTest, IInv, Typed, Counted
<1>5. Listed'
  BY DEF RunTest, IInv, Listed, Running, NumRunning
<1>6. (Idle(stack, running_procs, indices) => EndedStays)'
  BY IdleStays, PTL
<1>7. Idle(stack, running_procs, indices)'
  BY <1>1 DEF RunTest
<1> QED
  BY <1>4, <1>5, <1>6, <1>7, IdleTop DEF IInv

(* run_program: the program that starts is on the list. *)
LEMMA RunProgramStep ==
  ASSUME IInv, RunProgram
  PROVE  IInv'
<1> DEFINE b == Head(waiting_procs)
<1>1. /\ b \in Bundles /\ waiting_procs' \in Seq(Bundles)
  BY HeadTailProperties DEF RunProgram, IInv, Typed
<1>2. /\ running_procs' = [i \in DOMAIN running_procs \cup {indices} |->
                             IF i = indices THEN b ELSE running_procs[i]]
      /\ indices' = indices + 1 /\ indices \in Nat \ {0}
      /\ Indexed(running_procs, indices)
      /\ procs' = [procs EXCEPT ![b] = NewProc]
      /\ out' = [out EXCEPT ![b] = 0]
      /\ stack' = stack /\ NumRunning < get_num_procs
      /\ UNCHANGED <<session, files>>
  BY DEF RunProgram, IInv, Typed, HasCapacity
<1> HIDE DEF b
<1>3. Indexed(running_procs', indices') /\ Idle(stack', running_procs', indices')
  <2>1. Idle(stack, running_procs, indices)
    BY InCall DEF RunProgram
  <2> QED BY <1>1, <1>2, <2>1, More
<1>4. NewProc \in Proc /\ NewProc.is = "runs" /\ NewProc.wrote = 0 /\ NewProc.pipe = 0
  BY DEF NewProc, NoProc, Proc
<1>5. Typed'
  BY <1>1, <1>2, <1>4 DEF IInv, Typed
<1>6. Counted'
  <2>1. \A c \in Bundles : procs'[c] = (IF c = b THEN NewProc ELSE procs[c])
                         /\ out'[c] = (IF c = b THEN 0 ELSE out[c])
    BY <1>2 DEF IInv, Typed
  <2> QED BY <1>4, <2>1, SizesPositive DEF IInv, Counted
<1>7. Listed'
  <2>1. ASSUME NEW c \in Bundles, procs'[c].is = "runs" PROVE c \in Range(running_procs')
    <3>1. CASE c = b
      <4>1. indices \in DOMAIN running_procs' /\ running_procs'[indices] = b
        BY <1>2
      <4> QED BY <3>1, <4>1 DEF Range
    <3>2. CASE c # b
      <4>1. c \in Range(running_procs)
        BY <1>1, <1>2, <2>1, <3>2 DEF IInv, Typed, Listed, Running
      <4>2. PICK i \in DOMAIN running_procs : running_procs[i] = c
        BY <4>1 DEF Range
      <4>3. i # indices
        BY <1>2 DEF Indexed
      <4>4. i \in DOMAIN running_procs' /\ running_procs'[i] = c
        BY <1>2, <4>2, <4>3
      <4> QED BY <4>4 DEF Range
    <3> QED BY <3>1, <3>2
  <2>2. Cardinality(DOMAIN running_procs') <= get_num_procs
    <3>1. IsFiniteSet(DOMAIN running_procs) /\ indices \notin DOMAIN running_procs
      <4>1. DOMAIN running_procs \subseteq 1 .. (indices - 1) /\ 1 \in Int /\ indices - 1 \in Int
        BY <1>2 DEF Indexed
      <4>2. IsFiniteSet(1 .. (indices - 1))
        BY <4>1, FS_Interval
      <4> QED BY <1>2, <4>1, <4>2, FS_Subset
    <3>2. DOMAIN running_procs' = DOMAIN running_procs \cup {indices}
      BY <1>2
    <3>3. Cardinality(DOMAIN running_procs') = Cardinality(DOMAIN running_procs) + 1
      BY <3>1, <3>2, FS_AddElement
    <3>4. Cardinality(DOMAIN running_procs) \in Nat
      BY <3>1, FS_CardinalityType
    <3> QED BY <1>2, <3>3, <3>4, ProcsPositive DEF NumRunning
  <2> QED BY <2>1, <2>2 DEF Listed, Running, NumRunning
<1>8. (Idle(stack, running_procs, indices) => EndedStays)'
  BY IdleStays, PTL
<1> QED
  BY <1>3, <1>5, <1>6, <1>7, <1>8, IdleTop DEF IInv

(* The copy is made, and the loop over it ends. *)
LEMMA StartStopStep ==
  ASSUME IInv, StartCheck \/ StopCheck
  PROVE  IInv'
<1>1. UNCHANGED <<session, files, waiting_procs, running_procs, indices, out, procs>>
  BY DEF StartCheck, StopCheck, queues
<1>2. files' \in Seq(Subjects)
  BY <1>1 DEF IInv, Typed
<1>3. Idle(Tail(stack), running_procs, indices)
  BY InCheck DEF StartCheck, StopCheck
<1>4. CASE StartCheck
  <2> DEFINE f == CheckCall(running_procs, "poll", FALSE)
  <2>1. f \in CheckFrame /\ Agrees(f, running_procs, indices) /\ ~Deciding(f)
    BY DEF f, IInv, Indexed, CheckCall, CheckFrame, Agrees, Deciding
  <2>2. stack' = <<f>> \o Tail(stack)
    BY <1>4 DEF StartCheck
  <2> HIDE DEF f
  <2>3. Idle(stack', running_procs, indices)
    BY <1>3, <2>1, <2>2, PushCheck
  <2> QED BY <1>1, <1>2, <2>3, StackStep
<1>5. CASE StopCheck
  <2>1. Idle(stack', running_procs, indices)
    BY <1>3, <1>5 DEF StopCheck
  <2> QED BY <1>1, <1>2, <2>1, StackStep
<1> QED
  BY <1>4, <1>5

(* proc_get_status: a program found to have ended has ended. *)
LEMMA PollStep ==
  ASSUME IInv, Poll
  PROVE  IInv'
<1>1. UNCHANGED <<session, files, waiting_procs, running_procs, indices, out, procs>>
  BY DEF Poll, queues
<1> DEFINE f == CheckCall(Top.copy, "decide", procs[Bundle].is # "runs")
<1>2. /\ Idle(Tail(stack), running_procs, indices) /\ Top \in CheckFrame
      /\ Agrees(Top, running_procs, indices) /\ Top.copy # << >>
  BY InCheck DEF Poll
<1>3. f \in CheckFrame /\ f.copy = Top.copy /\ f.ended = (procs[Bundle].is # "runs")
  BY <1>2 DEF CheckCall, CheckFrame
<1>4. Agrees(f, running_procs, indices)
  BY <1>2, <1>3 DEF Agrees, CheckFrame
<1>5. stack' = <<f>> \o Tail(stack)
  BY DEF Poll
<1> HIDE DEF f
<1>6. StackOK(stack', running_procs, indices) /\ Top' = f
  BY <1>2, <1>3, <1>4, <1>5, PushCheck DEF Top
<1>7. EndedStays'
  <2>1. Bundle' = Bundle
    BY <1>3, <1>6 DEF Bundle, Index
  <2> QED BY <1>1, <1>3, <1>6, <2>1 DEF EndedStays
<1>8. Typed' /\ Counted' /\ Indexed(running_procs, indices)'
  BY <1>1 DEF IInv, Typed, Counted
<1>9. Listed'
  BY <1>1 DEF IInv, Listed, Running, NumRunning
<1> QED
  BY <1>1, <1>6, <1>7, <1>8, <1>9 DEF IInv

-----------------------------------------------------------------------------
(* What the loop is about to decide on, and where it goes on. *)
LEMMA DecideFacts ==
  ASSUME IInv, Checking("decide")
  PROVE  /\ Bundle \in Bundles
         /\ Idle(<<Onward>> \o Tail(stack), running_procs, indices)
         /\ \A i \in DOMAIN running_procs : i = Index => running_procs[i] = Bundle
<1>1. /\ Idle(Tail(stack), running_procs, indices) /\ Top \in CheckFrame
      /\ Agrees(Top, running_procs, indices) /\ Top.copy # << >>
  BY InCheck
<1>2. /\ Index \in DOMAIN Top.copy /\ Bundle \in Bundles
      /\ Onward \in CheckFrame /\ Agrees(Onward, running_procs, indices)
  BY <1>1, LoopStep DEF Index, Bundle, Onward
<1>3. ~Deciding(Onward)
  BY DEF Onward, CheckCall, Deciding
<1>4. Idle(<<Onward>> \o Tail(stack), running_procs, indices)
  BY <1>1, <1>2, <1>3, PushCheck
<1>5. \A i \in DOMAIN running_procs : i = Index => running_procs[i] = Bundle
  BY <1>1, <1>2 DEF Agrees, CheckFrame, Bundle
<1> QED
  BY <1>2, <1>4, <1>5

(* A bundle whose program does not run any more leaves the list: even if   *)
(* the copy is stale, no other bundle goes with it.                        *)
LEMMA Leave ==
  ASSUME IInv, Checking("decide"),
         running_procs' = Without(running_procs, Index), indices' = indices,
         procs'[Bundle].is # "runs",
         \A c \in Bundles : c # Bundle => procs'[c] = procs[c]
  PROVE  /\ Listed'
         /\ Indexed(running_procs', indices')
         /\ Idle(<<Onward>> \o Tail(stack), running_procs', indices')
<1>1. Indexed(running_procs, indices)
  BY DEF IInv
<1>2. /\ Indexed(running_procs', indices')
      /\ Idle(<<Onward>> \o Tail(stack), running_procs', indices')
  BY <1>1, DecideFacts, Fewer
<1>3. DOMAIN running_procs' = DOMAIN running_procs \ {Index}
      /\ \A i \in DOMAIN running_procs' : running_procs'[i] = running_procs[i]
  BY DEF Without
<1>4. ASSUME NEW c \in Bundles, procs'[c].is = "runs" PROVE c \in Range(running_procs')
  <2>1. c # Bundle /\ procs[c].is = "runs"
    BY <1>4
  <2>2. c \in Range(running_procs)
    BY <2>1 DEF IInv, Listed, Running
  <2>3. PICK i \in DOMAIN running_procs : running_procs[i] = c
    BY <2>2 DEF Range
  <2>4. i # Index
    BY <2>1, <2>3, DecideFacts
  <2>5. i \in DOMAIN running_procs' /\ running_procs'[i] = c
    BY <1>3, <2>3, <2>4
  <2> QED BY <2>5 DEF Range
<1>5. Cardinality(DOMAIN running_procs') <= get_num_procs
  <2>1. IsFiniteSet(DOMAIN running_procs)
    <3>1. DOMAIN running_procs \subseteq 1 .. (indices - 1) /\ 1 \in Int /\ indices - 1 \in Int
      BY <1>1 DEF Indexed, IInv, Typed
    <3>2. IsFiniteSet(1 .. (indices - 1))
      BY <3>1, FS_Interval
    <3> QED BY <3>1, <3>2, FS_Subset
  <2>2. /\ Cardinality(DOMAIN running_procs') <= Cardinality(DOMAIN running_procs)
        /\ IsFiniteSet(DOMAIN running_procs')
    BY <1>3, <2>1, FS_Subset
  <2>3. Cardinality(DOMAIN running_procs) \in Nat /\ Cardinality(DOMAIN running_procs') \in Nat
    BY <2>1, <2>2, FS_CardinalityType
  <2>4. Cardinality(DOMAIN running_procs) <= get_num_procs
    BY DEF IInv, Listed, NumRunning
  <2> QED BY <2>2, <2>3, <2>4, ProcsPositive
<1> QED
  BY <1>2, <1>4, <1>5 DEF Listed, Running, NumRunning

(* continuation queues programs and makes calls, no more. *)
LEMMA FailureCalls ==
  ASSUME IInv, NEW b \in Bundles, NEW calls \in Seq(Frame), Failure(b, calls)
  PROVE  /\ waiting_procs' \in Seq(Bundles)
         /\ \E p \in Seq(SimpleFrame) : stack' = p \o calls
<1>1. CASE opt_reduce /\ ~b.reduced
  <2> DEFINE f == [call |-> "reduce_failure", bundle |-> b]
             g == Call("check_capacity")
             h == Call("run_out_all_procs")
  <2>1. [b EXCEPT !.reduced = TRUE] \in Bundles
    BY DEF Bundles
  <2>2. waiting_procs' \in Seq(Bundles)
    <3> DEFINE c == [b EXCEPT !.reduced = TRUE]
    <3>1. waiting_procs' = Append(waiting_procs, c)
      BY <1>1 DEF Failure
    <3> HIDE DEF c
    <3> QED BY <2>1, <3>1 DEF IInv, Typed, c
  <2>3. f \in SimpleFrame /\ g \in SimpleFrame /\ h \in SimpleFrame
    BY SimpleCalls DEF SimpleFrame
  <2>4. stack' = <<g, h, f>> \o calls
    BY <1>1 DEF Failure
  <2>5. <<g, h, f>> \in Seq(SimpleFrame)
    BY <2>3, Calls
  <2> QED BY <2>2, <2>4, <2>5
<1>2. CASE ~(opt_reduce /\ ~b.reduced)
  <2>1. stack' = << >> \o calls
    BY <1>2, ConcatEmptySeq DEF Failure
  <2> QED BY <1>2, <2>1, Calls DEF Failure, IInv, Typed
<1> QED
  BY <1>1, <1>2

LEMMA ContinuationCalls ==
  ASSUME IInv, NEW b \in Bundles, NEW calls \in Seq(Frame), Continuation(b, calls)
  PROVE  /\ waiting_procs' \in Seq(Bundles)
         /\ \E p \in Seq(SimpleFrame) : stack' = p \o calls
<1>1. CASE Failure(b, calls)
  BY <1>1, FailureCalls
<1>2. CASE StartProgram(b) /\ stack' = <<Call("check_capacity")>> \o calls
  <2>1. waiting_procs' \in Seq(Bundles)
    BY <1>2 DEF StartProgram, IInv, Typed
  <2> QED BY <1>2, <2>1, SimpleCalls
<1>3. CASE stack' = calls /\ UNCHANGED waiting_procs
  <2>1. stack' = << >> \o calls
    BY <1>3, ConcatEmptySeq
  <2> QED BY <1>3, <2>1, Calls DEF IInv, Typed
<1> QED
  BY <1>1, <1>2, <1>3 DEF Continuation

(* A program that has ended leaves the list, and its test goes on. *)
LEMMA EndedStep ==
  ASSUME IInv, Ended
  PROVE  IInv'
<1> DEFINE b == Bundle
           calls == <<Onward>> \o Tail(stack)
           q == [procs[b] EXCEPT !.pipe = 0, !.exit = 1]
<1>1. Checking("decide") /\ b \in Bundles /\ procs[b].is # "runs" /\ procs[b] \in Proc
  BY DecideFacts DEF Ended, IInv, EndedStays, Typed
<1>2. /\ procs' = [procs EXCEPT ![b] = q]
      /\ out' = [out EXCEPT ![b] = 0]
      /\ running_procs' = Without(running_procs, Index) /\ indices' = indices
      /\ Continuation(b, calls)
      /\ UNCHANGED <<session, files>>
  BY <1>1 DEF Ended, IInv, Typed
<1>3. q \in Proc /\ q.is = procs[b].is /\ q.wrote = procs[b].wrote /\ q.pipe = 0
  BY <1>1 DEF Proc
<1> HIDE DEF b, q
<1>4. \A c \in Bundles : procs'[c] = (IF c = b THEN q ELSE procs[c])
                       /\ out'[c] = (IF c = b THEN 0 ELSE out[c])
  BY <1>2 DEF IInv, Typed
<1>5. /\ Listed'
      /\ Indexed(running_procs', indices')
      /\ Idle(calls, running_procs', indices')
  BY <1>1, <1>2, <1>3, <1>4, Leave DEF b
<1>6. calls \in Seq(Frame)
  BY <1>5 DEF Idle
<1> HIDE DEF calls
<1>7. /\ waiting_procs' \in Seq(Bundles)
      /\ \E p \in Seq(SimpleFrame) : stack' = p \o calls
  BY <1>1, <1>2, <1>6, ContinuationCalls
<1>8. Idle(stack', running_procs', indices')
  BY <1>5, <1>7, PushSimple
<1>9. Typed'
  BY <1>1, <1>2, <1>3, <1>7 DEF IInv, Typed
<1>10. Counted'
  BY <1>1, <1>3, <1>4, SizesPositive DEF IInv, Counted, Proc
<1>11. (Idle(stack, running_procs, indices) => EndedStays)'
  BY IdleStays, PTL
<1> QED
  BY <1>5, <1>8, <1>9, <1>10, <1>11, IdleTop DEF IInv

(* What kill_properly leaves does not run, and its pipes are closed. *)
LEMMA KilledProperly ==
  ASSUME NEW p
  PROVE  LET q == kill_properly(p) IN
         /\ q \in Proc /\ q.is \in {"killed", "orphan"} /\ q.wrote = 0 /\ q.pipe = 0
         /\ q.is = "orphan" => ~session.posix_kill
<1> DEFINE is == IF p.is = "runs" /\ ~session.posix_kill THEN "orphan" ELSE "killed"
<1>1. is \in {"killed", "orphan"} /\ (is = "orphan" => ~session.posix_kill)
  OBVIOUS
<1>2. kill_properly(p) = [NoProc EXCEPT !.is = is, !.exit = 1]
  BY DEF kill_properly
<1> HIDE DEF is
<1>3. kill_properly(p) = [is |-> is, wrote |-> 0, pipe |-> 0, exit |-> 1]
  BY <1>2 DEF NoProc
<1> QED
  BY <1>1, <1>3 DEF Proc

(* A program that takes too long is killed before it leaves the list, or   *)
(* does not run on as one of them.                                         *)
LEMMA TimedOutStep ==
  ASSUME IInv, TimedOut
  PROVE  IInv'
<1> DEFINE b == Bundle
           calls == <<Onward>> \o Tail(stack)
           k == kill_properly(procs[b])
<1>1. Checking("decide") /\ b \in Bundles
  BY DecideFacts DEF TimedOut
<1>2. /\ procs' = [procs EXCEPT ![b] = k]
      /\ out' = [out EXCEPT ![b] = 0]
      /\ running_procs' = Without(running_procs, Index) /\ indices' = indices
      /\ stack' = calls
      /\ UNCHANGED <<session, files, waiting_procs>>
  BY DEF TimedOut
<1>3. k \in Proc /\ k.is # "runs" /\ k.wrote = 0 /\ k.pipe = 0
  BY KilledProperly
<1> HIDE DEF b, k
<1>4. \A c \in Bundles : procs'[c] = (IF c = b THEN k ELSE procs[c])
                       /\ out'[c] = (IF c = b THEN 0 ELSE out[c])
  BY <1>2 DEF IInv, Typed
<1>5. /\ Listed'
      /\ Indexed(running_procs', indices')
      /\ Idle(calls, running_procs', indices')
  BY <1>1, <1>2, <1>3, <1>4, Leave DEF b
<1>6. Typed'
  BY <1>1, <1>2, <1>3 DEF IInv, Typed
<1>7. Counted'
  BY <1>3, <1>4, SizesPositive DEF IInv, Counted
<1>8. (Idle(stack, running_procs, indices) => EndedStays)'
  BY IdleStays, PTL
<1> QED
  BY <1>2, <1>5, <1>6, <1>7, <1>8, IdleTop DEF IInv

LEMMA KeepRunningStep ==
  ASSUME IInv, KeepRunning
  PROVE  IInv'
<1> DEFINE b == Bundle
           q == [procs[b] EXCEPT !.pipe = 0]
<1>1. /\ b \in Bundles /\ procs[b] \in Proc
      /\ Idle(<<Onward>> \o Tail(stack), running_procs, indices)
  BY DecideFacts DEF KeepRunning, IInv, Typed
<1>2. /\ procs' = [procs EXCEPT ![b] = q]
      /\ out' = [out EXCEPT ![b] = out[b] + procs[b].pipe]
      /\ stack' = <<Onward>> \o Tail(stack)
      /\ UNCHANGED <<session, files, waiting_procs, running_procs, indices>>
  BY DEF KeepRunning, ReadStreams, queues
<1>3. q \in Proc /\ q.is = procs[b].is /\ q.wrote = procs[b].wrote /\ q.pipe = 0
  BY <1>1 DEF Proc
<1>4. procs[b].pipe \in Nat /\ out[b] \in Nat
  BY <1>1 DEF Proc, IInv, Typed
<1> HIDE DEF b, q
<1>5. \A c \in Bundles : procs'[c] = (IF c = b THEN q ELSE procs[c])
                       /\ out'[c] = (IF c = b THEN out[b] + procs[b].pipe ELSE out[c])
  BY <1>2 DEF IInv, Typed
<1>6. Typed'
  BY <1>1, <1>2, <1>3, <1>4 DEF IInv, Typed
<1>7. Counted'
  BY <1>1, <1>3, <1>4, <1>5, SizesPositive DEF IInv, Counted, Proc
<1>8. Listed'
  <2>1. Running' = Running
    BY <1>3, <1>5 DEF Running
  <2> QED BY <1>2, <2>1 DEF IInv, Listed, NumRunning
<1>9. (Idle(stack, running_procs, indices) => EndedStays)'
  BY IdleStays, PTL
<1>10. Indexed(running_procs, indices)'
  BY <1>2 DEF IInv
<1> QED
  BY <1>1, <1>2, <1>6, <1>7, <1>8, <1>9, <1>10, IdleTop DEF IInv

LEMMA ReduceFailureStep ==
  ASSUME IInv, ReduceFailure
  PROVE  IInv'
<1>1. UNCHANGED <<session, files, waiting_procs, running_procs, indices, out, procs>>
  BY DEF ReduceFailure, queues
<1>2. Idle(stack', running_procs', indices')
  BY <1>1, InCall DEF ReduceFailure
<1>3. files' \in Seq(Subjects)
  BY <1>1 DEF IInv, Typed
<1> QED
  BY <1>1, <1>2, <1>3, StackStep

-----------------------------------------------------------------------------
LEMMA NextIInv == IInv /\ [Next]_vars => IInv'
<1> SUFFICES ASSUME IInv, [Next]_vars PROVE IInv'
  OBVIOUS
<1>1. CASE FinishTest \/ RunOutAllProcs \/ CheckCapacity \/ StartWaiting \/ StopRunning
  BY <1>1, CallStep
<1>2. CASE RunTest
  BY <1>2, RunTestStep
<1>3. CASE RunProgram
  BY <1>3, RunProgramStep
<1>4. CASE StartCheck \/ StopCheck
  BY <1>4, StartStopStep
<1>5. CASE Poll
  BY <1>5, PollStep
<1>6. CASE Ended
  BY <1>6, EndedStep
<1>7. CASE TimedOut
  BY <1>7, TimedOutStep
<1>8. CASE KeepRunning
  BY <1>8, KeepRunningStep
<1>9. CASE ReduceFailure
  BY <1>9, ReduceFailureStep
<1>10. CASE \E b \in Bundles : Program(b) \/ OrphanEnds(b) \/ TimePasses(b)
  BY <1>10, ProgramStep
<1>11. CASE UNCHANGED vars
  BY <1>11 DEF vars, queues, results, IInv, Typed, Counted, EndedStays, Checking, In, Top,
    Bundle, Index, Listed, Running, NumRunning
<1> QED
  BY <1>1, <1>2, <1>3, <1>4, <1>5, <1>6, <1>7, <1>8, <1>9, <1>10, <1>11 DEF Next, Framework

LEMMA InvariantHolds == Spec => []IInv
<1>1. Init => IInv
  BY InitIInv
<1>2. IInv /\ [Next]_vars => IInv'
  BY NextIInv
<1> QED
  BY <1>1, <1>2, PTL DEF Spec

(* Orphans come of time-outs where there is no posix_kill. *)
OrphansOK ==
  /\ verdicts \in [Bundles -> Seq({"success", "failure", "timeout"})]
  /\ \A b \in Bundles :
       procs[b].is = "orphan" => ~session.posix_kill /\ "timeout" \in Range(verdicts[b])

(* A verdict more. *)
LEMMA MarkAdds ==
  ASSUME OrphansOK, NEW b \in Bundles, NEW v \in {"success", "failure", "timeout"}, Mark(b, v)
  PROVE  /\ verdicts' \in [Bundles -> Seq({"success", "failure", "timeout"})]
         /\ \A c \in Bundles : Range(verdicts[c]) \subseteq Range(verdicts'[c])
         /\ v \in Range(verdicts'[b])
<1> DEFINE V == {"success", "failure", "timeout"}
           s == verdicts[b]
           t == Append(s, v)
<1>1. verdicts \in [Bundles -> Seq(V)] /\ s \in Seq(V)
  BY DEF OrphansOK
<1>2. /\ t \in Seq(V) /\ Len(t) = Len(s) + 1 /\ Len(s) \in Nat
      /\ \A i \in 1 .. Len(s) : t[i] = s[i]
      /\ t[Len(s) + 1] = v
  BY <1>1, AppendProperties
<1>3. DOMAIN s = 1 .. Len(s) /\ DOMAIN t = 1 .. Len(s) + 1
  BY <1>1, <1>2
<1>4. verdicts' = [verdicts EXCEPT ![b] = t]
  BY DEF Mark
<1> HIDE DEF s, t, V
<1>5. Range(s) \subseteq Range(t) /\ v \in Range(t)
  <2>1. \A i \in DOMAIN s : i \in DOMAIN t /\ t[i] = s[i]
    BY <1>2, <1>3
  <2>2. Len(s) + 1 \in DOMAIN t
    BY <1>2, <1>3
  <2> QED BY <1>2, <2>1, <2>2 DEF Range
<1>6. verdicts' \in [Bundles -> Seq(V)] /\ verdicts'[b] = t
      /\ \A c \in Bundles : c # b => verdicts'[c] = verdicts[c]
  BY <1>1, <1>2, <1>4
<1>7. \A c \in Bundles : Range(verdicts[c]) \subseteq Range(verdicts'[c])
  BY <1>5, <1>6 DEF s
<1> QED
  BY <1>5, <1>6, <1>7 DEF V

(* Programs that become no orphans, and verdicts that only get more. *)
LEMMA NoNewOrphan ==
  ASSUME OrphansOK, UNCHANGED session,
         verdicts' \in [Bundles -> Seq({"success", "failure", "timeout"})],
         \A c \in Bundles : /\ Range(verdicts[c]) \subseteq Range(verdicts'[c])
                            /\ procs'[c].is = "orphan" => procs[c].is = "orphan"
  PROVE  OrphansOK'
BY DEF OrphansOK

LEMMA NextOrphans == IInv /\ OrphansOK /\ [Next]_vars => OrphansOK'
<1> SUFFICES ASSUME IInv, OrphansOK, [Next]_vars PROVE OrphansOK'
  OBVIOUS
<1> DEFINE b == Bundle
<1>1. UNCHANGED session /\ procs \in [Bundles -> Proc]
  BY DEF Next, Framework, RunTest, FinishTest, RunOutAllProcs, CheckCapacity, StartWaiting,
    RunProgram, StopRunning, StartCheck, StopCheck, Poll, Ended, TimedOut, KeepRunning,
    ReduceFailure, Program, Write, Exit, OrphanEnds, TimePasses, vars, IInv, Typed
<1>2. ASSUME UNCHANGED verdicts,
             \A c \in Bundles : procs'[c].is = "orphan" => procs[c].is = "orphan"
      PROVE  OrphansOK'
  BY <1>1, <1>2, NoNewOrphan DEF OrphansOK
<1>3. CASE UNCHANGED <<procs, verdicts>>
  BY <1>2, <1>3
<1>4. CASE RunProgram
  <2>1. procs' = [procs EXCEPT ![Head(waiting_procs)] = NewProc] /\ UNCHANGED verdicts
    BY <1>4 DEF RunProgram, results
  <2>2. NewProc.is = "runs"
    BY DEF NewProc, NoProc
  <2> QED BY <1>1, <1>2, <2>1, <2>2
<1>5. CASE KeepRunning
  <2>1. /\ procs' = [procs EXCEPT ![b] = [procs[b] EXCEPT !.pipe = 0]] /\ UNCHANGED verdicts
        /\ b \in Bundles
    BY <1>5, DecideFacts DEF KeepRunning, results
  <2>2. \A c \in Bundles : procs'[c].is = procs[c].is
    BY <1>1, <2>1 DEF Proc
  <2> QED BY <1>2, <2>1, <2>2
<1>6. CASE Ended
  <2>1. /\ procs' = [procs EXCEPT ![b] = [procs[b] EXCEPT !.pipe = 0, !.exit = 1]]
        /\ b \in Bundles /\ Continuation(b, <<Onward>> \o Tail(stack))
    BY <1>6, DecideFacts DEF Ended
  <2>2. \A c \in Bundles : procs'[c].is = procs[c].is
    BY <1>1, <2>1 DEF Proc
  <2>3. UNCHANGED verdicts \/ \E v \in {"success", "failure"} : Mark(b, v)
    BY <2>1 DEF Continuation, Failure
  <2>4. CASE UNCHANGED verdicts
    BY <1>2, <2>2, <2>4
  <2>5. ASSUME NEW v \in {"success", "failure"}, Mark(b, v) PROVE OrphansOK'
    BY <1>1, <2>1, <2>2, <2>5, MarkAdds, NoNewOrphan
  <2> QED BY <2>3, <2>4, <2>5
<1>7. CASE TimedOut
  <2>1. /\ procs' = [procs EXCEPT ![b] = kill_properly(procs[b])] /\ Mark(b, "timeout")
        /\ b \in Bundles
    BY <1>7, DecideFacts DEF TimedOut
  <2>2. /\ verdicts' \in [Bundles -> Seq({"success", "failure", "timeout"})]
        /\ \A c \in Bundles : Range(verdicts[c]) \subseteq Range(verdicts'[c])
        /\ "timeout" \in Range(verdicts'[b])
    BY <2>1, MarkAdds
  <2>3. kill_properly(procs[b]).is = "orphan" => ~session.posix_kill
    BY KilledProperly
  <2> HIDE DEF b
  <2>4. ASSUME NEW c \in Bundles, procs'[c].is = "orphan"
        PROVE  ~session'.posix_kill /\ "timeout" \in Range(verdicts'[c])
    <3>1. CASE c = b
      BY <1>1, <2>1, <2>2, <2>3, <2>4, <3>1
    <3>2. CASE c # b
      BY <1>1, <2>1, <2>2, <2>4, <3>2 DEF OrphansOK
    <3> QED BY <3>1, <3>2
  <2> QED BY <2>2, <2>4 DEF OrphansOK
<1>8. CASE ReduceFailure
  <2>1. /\ Top \in Frame /\ Top.call = "reduce_failure" /\ Mark(Top.bundle, "failure")
        /\ UNCHANGED procs
    BY <1>8, InCall DEF ReduceFailure
  <2>2. Top.bundle \in Bundles
    BY <2>1 DEF Frame, SimpleFrame, CheckFrame
  <2> QED BY <1>1, <2>1, <2>2, MarkAdds, NoNewOrphan
<1>9. ASSUME NEW c \in Bundles, Program(c) \/ OrphanEnds(c)
      PROVE  OrphansOK'
  <2>1. /\ UNCHANGED verdicts
        /\ \/ procs' = [procs EXCEPT ![c] = [procs[c] EXCEPT !.wrote = procs[c].wrote + 1, !.pipe = procs[c].pipe + 1]]
           \/ procs' = [procs EXCEPT ![c] = [procs[c] EXCEPT !.is = "killed"]]
           \/ \E code \in {0, 1} : procs' = [procs EXCEPT ![c] = [procs[c] EXCEPT !.is = "exited", !.exit = code]]
    BY <1>1, <1>9 DEF Program, Write, Exit, OrphanEnds, results
  <2>2. \A d \in Bundles : procs'[d].is = "orphan" => procs[d].is = "orphan"
    BY <1>1, <2>1 DEF Proc
  <2> QED BY <1>2, <2>1, <2>2
<1>10. ASSUME RunTest \/ FinishTest \/ RunOutAllProcs \/ CheckCapacity \/ StartWaiting
              \/ StopRunning \/ StartCheck \/ StopCheck \/ Poll
       PROVE  UNCHANGED <<procs, verdicts>>
  BY <1>10 DEF RunTest, FinishTest, RunOutAllProcs, CheckCapacity, StartWaiting,
    StopRunning, StartCheck, StopCheck, Poll, results
<1>11. ASSUME NEW c \in Bundles, TimePasses(c) PROVE UNCHANGED <<procs, verdicts>>
  BY <1>11 DEF TimePasses, results
<1>12. UNCHANGED vars => UNCHANGED <<procs, verdicts>>
  BY DEF vars, results
<1> QED
  BY <1>3, <1>4, <1>5, <1>6, <1>7, <1>8, <1>9, <1>10, <1>11, <1>12 DEF Next, Framework

(* However the programs end, hang or write, and with --reduce too, where   *)
(* the running programs are checked from within their own check: every     *)
(* program that lives is on the list, no more than PHC_NUM_PROCS do, and   *)
(* only where there is no posix_kill may one that was timed out live on.   *)
THEOREM NothingOrphaned == Spec => []NoOrphans
<1>1. Init => OrphansOK
  BY DEF Init, OrphansOK, NoProc
<1>2. IInv /\ OrphansOK => NoOrphans
  <2> SUFFICES ASSUME IInv, OrphansOK PROVE NoOrphans
    OBVIOUS
  <2>1. \A b \in Orphans : b \in Bundles /\ procs[b].is = "orphan"
    BY DEF Orphans, Live, IInv, Listed, Running
  <2> QED BY <2>1 DEF NoOrphans, OrphansOK, IInv, Listed
<1> QED
  BY <1>1, <1>2, InitIInv, NextIInv, NextOrphans, PTL DEF Spec

(* The shape of the state of the framework: its queues, the calls on its   *)
(* stack with their copies of the list, and the pipes.                     *)
THEOREM TypeCorrect == Spec => []AsyncTypeOK
<1>1. IInv => AsyncTypeOK
  <2> SUFFICES ASSUME IInv PROVE AsyncTypeOK
    OBVIOUS
  <2>1. \A f : Indexed(f, indices) => IndexedBundles(f)
    BY DEF Indexed, IndexedBundles, Copies
  <2>2. ASSUME NEW n \in DOMAIN stack, stack[n].call = "check_running_procs"
        PROVE  /\ IndexedBundles(stack[n].copy)
               /\ stack[n].at = "decide" => n = 1 /\ stack[n].copy # << >>
    <3>1. stack \in Seq(Frame) /\ n \in 1 .. Len(stack) /\ stack # << >> /\ Head(stack) = stack[1]
      BY DEF IInv, StackOK
    <3>2. /\ Len(Tail(stack)) = Len(stack) - 1
          /\ \A i \in 1 .. Len(Tail(stack)) : Tail(stack)[i] = stack[i + 1]
      BY <3>1, HeadTailProperties
    <3>3. Idle(Tail(stack), running_procs, indices)
      BY <3>1 DEF IInv, StackOK
    <3>4. CASE n = 1
      BY <2>1, <2>2, <3>1, <3>4 DEF IInv, StackOK, Agrees, Deciding
    <3>5. CASE n # 1
      <4>1. n - 1 \in 1 .. Len(Tail(stack)) /\ stack[n] = Tail(stack)[n - 1]
        BY <3>1, <3>2, <3>5
      <4>2. Agrees(stack[n], running_procs, indices) /\ ~Deciding(stack[n])
        BY <3>3, <4>1 DEF Idle
      <4> QED BY <2>1, <2>2, <4>2 DEF Agrees, Deciding
    <3> QED BY <3>4, <3>5
  <2>3. ASSUME NEW b \in Bundles
        PROVE  procs[b].pipe \in 0 .. PipeSize /\ procs[b].wrote \in 0 .. Out /\ out[b] \in 0 .. Out
    <3>1. procs[b].pipe \in Nat /\ procs[b].wrote \in Nat /\ out[b] \in Nat
      BY DEF IInv, Typed, Proc
    <3>2. /\ procs[b].wrote <= Out /\ procs[b].pipe <= PipeSize
          /\ out[b] + procs[b].pipe <= procs[b].wrote
      BY DEF IInv, Counted
    <3> QED BY <3>1, <3>2, SizesPositive
  <2> QED BY <2>1, <2>2, <2>3 DEF IInv, Typed, AsyncTypeOK
<1> QED
  BY <1>1, InvariantHolds, PTL

-----------------------------------------------------------------------------
(***************************************************************************)
(* Without --reduce, AsyncTests implements TestPool and its verdicts are   *)
(* true, again for any sessions, any number of processors, any amount of   *)
(* output and any size of a pipe.                                          *)
(***************************************************************************)

(* Queues: what taking the first and adding a last or first one does.      *)
(* Before(s, T): those in T come before those that are not.                *)
Before(s, T) == \A i, j \in 1..Len(s) : i < j /\ s[j] \in T => s[i] \in T

LEMMA TakeFirst ==
  ASSUME NEW S, NEW s \in Seq(S), s # << >>
  PROVE  /\ Head(s) \in S /\ Head(s) \in Range(s) /\ Tail(s) \in Seq(S)
         /\ Range(s) = {Head(s)} \cup Range(Tail(s))
         /\ IsInjective(s) => Head(s) \notin Range(Tail(s)) /\ IsInjective(Tail(s))
         /\ \A T : Before(s, T) => /\ Before(Tail(s), T)
                                   /\ Head(s) \notin T => Range(s) \cap T = {}
<1>1. /\ Head(s) \in S /\ Tail(s) \in Seq(S) /\ Len(s) \in Nat \ {0} /\ Head(s) = s[1]
      /\ Len(Tail(s)) = Len(s) - 1
      /\ \A i \in 1 .. Len(Tail(s)) : Tail(s)[i] = s[i + 1]
  BY HeadTailProperties
<1> DEFINE h == Head(s)
           t == Tail(s)
<1>2. DOMAIN s = 1 .. Len(s) /\ DOMAIN t = 1 .. Len(t) /\ 1 \in DOMAIN s
  BY <1>1
<1> HIDE DEF h, t
<1>3. Range(s) = {h} \cup Range(t)
  <2>1. ASSUME NEW x \in Range(s) PROVE x \in {h} \cup Range(t)
    <3>1. PICK i \in DOMAIN s : s[i] = x
      BY DEF Range
    <3>2. CASE i = 1
      BY <1>1, <3>1, <3>2 DEF h
    <3>3. CASE i # 1
      <4>1. i - 1 \in DOMAIN t /\ t[i - 1] = x
        BY <1>1, <1>2, <3>1, <3>3 DEF t
      <4> QED BY <4>1 DEF Range
    <3> QED BY <3>2, <3>3
  <2>2. ASSUME NEW x \in Range(t) PROVE x \in Range(s)
    <3>1. PICK i \in DOMAIN t : t[i] = x
      BY DEF Range
    <3>2. i + 1 \in DOMAIN s /\ s[i + 1] = x
      BY <1>1, <1>2, <3>1 DEF t
    <3> QED BY <3>2 DEF Range
  <2>3. h \in Range(s)
    BY <1>1, <1>2 DEF h, Range
  <2> QED BY <2>1, <2>2, <2>3
<1>4. ASSUME IsInjective(s) PROVE h \notin Range(t) /\ IsInjective(t)
  <2>1. \A i \in DOMAIN t : i + 1 \in DOMAIN s /\ t[i] = s[i + 1] /\ i + 1 # 1 /\ i \in Nat
    BY <1>1, <1>2 DEF t
  <2>2. \A i \in DOMAIN t : t[i] # h
    BY <1>1, <1>2, <1>4, <2>1 DEF IsInjective, h
  <2>3. \A i, j \in DOMAIN t : t[i] = t[j] => i = j
    BY <1>4, <2>1 DEF IsInjective
  <2> QED BY <2>2, <2>3 DEF Range, IsInjective
<1>5. ASSUME NEW T, Before(s, T)
      PROVE  Before(t, T) /\ (h \notin T => Range(s) \cap T = {})
  <2>1. Before(t, T)
    <3>1. \A i \in 1 .. Len(t) : i + 1 \in 1 .. Len(s) /\ t[i] = s[i + 1] /\ i \in Nat
      BY <1>1 DEF t
    <3>2. \A i, j \in 1 .. Len(t) : i < j /\ t[j] \in T => t[i] \in T
      BY <1>5, <3>1 DEF Before
    <3> QED BY <3>2 DEF Before
  <2>2. \A i \in 1 .. Len(s) : s[i] \in T => h \in T
    <3>1. \A i \in 1 .. Len(s) : i = 1 \/ 1 < i
      BY <1>1
    <3> QED BY <1>1, <1>2, <1>5, <3>1 DEF Before, h
  <2> QED BY <1>2, <2>1, <2>2 DEF Range
<1> QED
  BY <1>1, <1>2, <1>3, <1>4, <1>5 DEF h, t, Range

LEMMA AddLast ==
  ASSUME NEW S, NEW s \in Seq(S), NEW x \in S
  PROVE  /\ Range(Append(s, x)) = Range(s) \cup {x}
         /\ x \notin Range(s) /\ IsInjective(s) => IsInjective(Append(s, x))
         /\ \A T : Before(s, T) /\ x \notin T => Before(Append(s, x), T)
<1> DEFINE t == Append(s, x)
<1>1. /\ Len(s) \in Nat /\ Len(t) = Len(s) + 1
      /\ DOMAIN s = 1 .. Len(s) /\ DOMAIN t = 1 .. (Len(s) + 1)
      /\ \A i \in 1 .. Len(s) : t[i] = s[i]
      /\ t[Len(s) + 1] = x
  BY AppendProperties
<1> HIDE DEF t
<1>2. \A i \in DOMAIN t : i \in DOMAIN s \/ i = Len(s) + 1
  BY <1>1
<1>3. \A i \in DOMAIN s : i \in DOMAIN t
  BY <1>1
<1>4. Range(t) = Range(s) \cup {x}
  <2>1. ASSUME NEW y \in Range(t) PROVE y \in Range(s) \cup {x}
    <3>1. PICK i \in DOMAIN t : t[i] = y
      BY DEF Range
    <3> QED BY <1>1, <1>2, <3>1 DEF Range
  <2>2. ASSUME NEW y \in Range(s) PROVE y \in Range(t)
    <3>1. PICK i \in DOMAIN s : s[i] = y
      BY DEF Range
    <3> QED BY <1>1, <1>3, <3>1 DEF Range
  <2>3. x \in Range(t)
    <3>1. Len(s) + 1 \in DOMAIN t
      BY <1>1
    <3> QED BY <1>1, <3>1 DEF Range
  <2> QED BY <2>1, <2>2, <2>3
<1>5. ASSUME x \notin Range(s), IsInjective(s) PROVE IsInjective(t)
  <2>1. \A i \in DOMAIN s : s[i] # x
    BY <1>5 DEF Range
  <2>2. \A i, j \in DOMAIN t : t[i] = t[j] => i = j
    BY <1>1, <1>2, <1>5, <2>1 DEF IsInjective
  <2> QED BY <2>2 DEF IsInjective
<1>6. ASSUME NEW T, Before(s, T), x \notin T PROVE Before(t, T)
  <2>1. \A i, j \in 1 .. Len(t) : i < j /\ t[j] \in T => t[i] \in T
    <3> SUFFICES ASSUME NEW i \in 1 .. Len(t), NEW j \in 1 .. Len(t), i < j, t[j] \in T
                 PROVE  t[i] \in T
      OBVIOUS
    <3>1. j # Len(s) + 1
      BY <1>1, <1>6
    <3>2. i \in 1 .. Len(s) /\ j \in 1 .. Len(s)
      BY <1>1, <3>1
    <3> QED BY <1>1, <1>6, <3>2 DEF Before
  <2> QED BY <2>1 DEF Before
<1> QED
  BY <1>4, <1>5, <1>6 DEF t

LEMMA AddFirst ==
  ASSUME NEW S, NEW s \in Seq(S), NEW x \in S
  PROVE  /\ Range(<<x>> \o s) = Range(s) \cup {x}
         /\ x \notin Range(s) /\ IsInjective(s) => IsInjective(<<x>> \o s)
         /\ \A T : Before(s, T) /\ x \in T => Before(<<x>> \o s, T)
<1> DEFINE t == <<x>> \o s
<1>0. <<x>> \in Seq(S) /\ Len(<<x>>) = 1 /\ <<x>>[1] = x
  OBVIOUS
<1>1. /\ Len(s) \in Nat /\ Len(t) = Len(s) + 1
      /\ DOMAIN s = 1 .. Len(s) /\ DOMAIN t = 1 .. (Len(s) + 1)
      /\ t[1] = x
      /\ \A i \in 2 .. Len(s) + 1 : t[i] = s[i - 1]
  <2>1. /\ t \in Seq(S)
        /\ Len(t) = 1 + Len(s)
        /\ \A i \in 1 .. 1 + Len(s) : t[i] = IF i <= 1 THEN x ELSE s[i - 1]
    BY <1>0, ConcatProperties
  <2> HIDE DEF t
  <2>2. Len(s) \in Nat /\ DOMAIN s = 1 .. Len(s) /\ DOMAIN t = 1 .. Len(t)
    BY <2>1
  <2> QED BY <2>1, <2>2
<1> HIDE DEF t
<1>2. \A i \in DOMAIN t : i = 1 \/ (i \in 2 .. Len(s) + 1 /\ i - 1 \in DOMAIN s)
  BY <1>1
<1>3. \A i \in DOMAIN s : i + 1 \in DOMAIN t /\ t[i + 1] = s[i]
  BY <1>1
<1>4. Range(t) = Range(s) \cup {x}
  <2>1. ASSUME NEW y \in Range(t) PROVE y \in Range(s) \cup {x}
    <3>1. PICK i \in DOMAIN t : t[i] = y
      BY DEF Range
    <3> QED BY <1>1, <1>2, <3>1 DEF Range
  <2>2. ASSUME NEW y \in Range(s) PROVE y \in Range(t)
    <3>1. PICK i \in DOMAIN s : s[i] = y
      BY DEF Range
    <3> QED BY <1>1, <1>3, <3>1 DEF Range
  <2>3. x \in Range(t)
    <3>1. 1 \in DOMAIN t
      BY <1>1
    <3> QED BY <1>1, <3>1 DEF Range
  <2> QED BY <2>1, <2>2, <2>3
<1>5. ASSUME x \notin Range(s), IsInjective(s) PROVE IsInjective(t)
  <2>1. \A i \in DOMAIN s : s[i] # x
    BY <1>5 DEF Range
  <2>2. \A i, j \in DOMAIN t : t[i] = t[j] => i = j
    BY <1>1, <1>2, <1>5, <2>1 DEF IsInjective
  <2> QED BY <2>2 DEF IsInjective
<1>6. ASSUME NEW T, Before(s, T), x \in T PROVE Before(t, T)
  <2>1. \A i, j \in 1 .. Len(t) : i < j /\ t[j] \in T => t[i] \in T
    <3> SUFFICES ASSUME NEW i \in 1 .. Len(t), NEW j \in 1 .. Len(t), i < j, t[j] \in T, i # 1
                 PROVE  t[i] \in T
      BY <1>1, <1>6
    <3>1. /\ i - 1 \in 1 .. Len(s) /\ j - 1 \in 1 .. Len(s) /\ i - 1 < j - 1
          /\ t[i] = s[i - 1] /\ t[j] = s[j - 1]
      BY <1>1
    <3> QED BY <1>6, <3>1 DEF Before
  <2> QED BY <2>1 DEF Before
<1> QED
  BY <1>4, <1>5, <1>6 DEF t

-----------------------------------------------------------------------------
(* The stack.  At most one loop over the running programs is under way,    *)
(* and what its copy holds is still running.                               *)
CopyFree(f) == f.call = "check_running_procs" => DOMAIN f.copy = {}
Current(f, D) == f.call = "check_running_procs" => DOMAIN f.copy \subseteq D

(* Calls that start, or are in, a loop. *)
Loops(f) ==
  \/ f.call \in {"run", "run_out_all_procs"}
  \/ f.call = "check_running_procs" /\ (f.at = "start" \/ DOMAIN f.copy # {})

Calm(st) == \A n \in 1..Len(st) : CopyFree(st[n])

Resting(st, D) ==
  /\ st \in Seq(Frame)
  /\ \A n \in 1..Len(st) : /\ Current(st[n], D)
                           /\ st[n].call \notin {"check_capacity", "reduce_failure"}
  /\ \A n, m \in 1..Len(st) : n < m /\ Loops(st[n]) => CopyFree(st[m])

(* check_capacity does not check while a loop is under way, for a program  *)
(* has just ended.                                                         *)
OneLoop(st, D) ==
  st # << >> =>
    /\ Resting(Tail(st), D)
    /\ Current(Head(st), D) /\ Head(st).call # "reduce_failure"
    /\ Loops(Head(st)) => Calm(Tail(st))
    /\ Head(st).call = "check_capacity" => Calm(Tail(st)) \/ Cardinality(D) < get_num_procs

LEMMA TopOf ==
  ASSUME NEW st \in Seq(Frame), st # << >>
  PROVE  /\ Len(st) \in Nat \ {0} /\ Head(st) = st[1] /\ Head(st) \in Frame
         /\ Tail(st) \in Seq(Frame) /\ Len(Tail(st)) = Len(st) - 1
         /\ \A i \in 1 .. Len(st) : i = 1 \/ (i - 1 \in 1 .. Len(Tail(st)) /\ st[i] = Tail(st)[i - 1])
         /\ \A i \in 1 .. Len(Tail(st)) : i + 1 \in 1 .. Len(st) /\ Tail(st)[i] = st[i + 1]
<1>1. /\ Head(st) \in Frame /\ Tail(st) \in Seq(Frame) /\ Len(Tail(st)) = Len(st) - 1
      /\ \A i \in 1 .. Len(Tail(st)) : Tail(st)[i] = st[i + 1]
  BY HeadTailProperties
<1>2. Len(st) \in Nat \ {0} /\ Head(st) = st[1]
  OBVIOUS
<1> HIDE DEF Frame
<1>3. \A i \in 1 .. Len(st) : i = 1 \/ (i - 1 \in 1 .. Len(Tail(st)) /\ (i - 1) + 1 = i)
  BY <1>1, <1>2
<1>4. \A i \in 1 .. Len(Tail(st)) : i + 1 \in 1 .. Len(st)
  BY <1>1, <1>2
<1> QED
  BY <1>1, <1>2, <1>3, <1>4

LEMMA Settle ==
  ASSUME NEW st \in Seq(Frame), st # << >>, NEW D, OneLoop(st, D),
         Head(st).call # "check_capacity"
  PROVE  /\ Resting(st, D)
         /\ Loops(Head(st)) /\ CopyFree(Head(st)) => Calm(st)
<1>1. \A n \in 1 .. Len(st) : /\ Current(st[n], D)
                              /\ st[n].call \notin {"check_capacity", "reduce_failure"}
  BY TopOf DEF OneLoop, Resting
<1>2. ASSUME NEW n \in 1 .. Len(st), NEW m \in 1 .. Len(st), n < m, Loops(st[n])
      PROVE  CopyFree(st[m])
  <2>1. m # 1 /\ m - 1 \in 1 .. Len(Tail(st)) /\ st[m] = Tail(st)[m - 1]
    BY <1>2, TopOf
  <2>2. CASE n = 1
    BY <1>2, <2>1, <2>2, TopOf DEF OneLoop, Calm
  <2>3. CASE n # 1
    <3>1. n - 1 \in 1 .. Len(Tail(st)) /\ st[n] = Tail(st)[n - 1] /\ n - 1 < m - 1
      BY <1>2, <2>3, TopOf
    <3> QED BY <1>2, <2>1, <3>1 DEF OneLoop, Resting
  <2> QED BY <2>2, <2>3
<1>3. ASSUME Loops(Head(st)), CopyFree(Head(st)) PROVE Calm(st)
  BY <1>3, TopOf DEF OneLoop, Calm
<1> QED
  BY <1>1, <1>2, <1>3 DEF Resting

LEMMA Unwind ==
  ASSUME NEW st, NEW D, Resting(st, D)
  PROVE  OneLoop(st, D)
<1> SUFFICES ASSUME st # << >> PROVE OneLoop(st, D)
  BY DEF OneLoop
<1>1. st \in Seq(Frame) /\ 1 \in 1 .. Len(st) /\ Tail(st) \in Seq(Frame)
  BY TopOf DEF Resting
<1>2. Head(st) = st[1] /\ Current(st[1], D) /\ st[1].call \notin {"check_capacity", "reduce_failure"}
  BY <1>1, TopOf DEF Resting
<1>3. Resting(Tail(st), D)
  <2>1. \A i \in 1 .. Len(Tail(st)) : i + 1 \in 1 .. Len(st) /\ Tail(st)[i] = st[i + 1] /\ i \in Nat
    BY <1>1, TopOf
  <2>2. \A n \in 1 .. Len(Tail(st)) :
           /\ Current(Tail(st)[n], D)
           /\ Tail(st)[n].call \notin {"check_capacity", "reduce_failure"}
    BY <2>1 DEF Resting
  <2>3. ASSUME NEW n \in 1 .. Len(Tail(st)), NEW m \in 1 .. Len(Tail(st)), n < m, Loops(Tail(st)[n])
        PROVE  CopyFree(Tail(st)[m])
    <3>1. n + 1 < m + 1
      BY <2>3
    <3> QED BY <2>1, <2>3, <3>1 DEF Resting
  <2> QED BY <1>1, <2>2, <2>3 DEF Resting
<1>4. ASSUME Loops(Head(st)) PROVE Calm(Tail(st))
  <2>1. \A i \in 1 .. Len(Tail(st)) : i + 1 \in 1 .. Len(st) /\ Tail(st)[i] = st[i + 1] /\ 1 < i + 1
    BY <1>1, TopOf
  <2> QED BY <1>1, <1>2, <1>4, <2>1 DEF Resting, Calm
<1> QED
  BY <1>2, <1>3, <1>4 DEF OneLoop

LEMMA TopAfterPush ==
  ASSUME NEW st \in Seq(Frame), NEW f \in Frame
  PROVE  /\ <<f>> \o st \in Seq(Frame) /\ <<f>> \o st # << >>
         /\ Head(<<f>> \o st) = f /\ Tail(<<f>> \o st) = st
<1>1. <<f>> \in Seq(Frame) /\ Len(<<f>>) = 1 /\ <<f>>[1] = f
  OBVIOUS
<1> DEFINE s == <<f>> \o st
<1>2. /\ s \in Seq(Frame)
      /\ Len(s) = 1 + Len(st)
      /\ \A i \in 1 .. 1 + Len(st) : s[i] = IF i <= 1 THEN f ELSE st[i - 1]
  BY <1>1, ConcatProperties
<1> HIDE DEF s
<1>3. Len(st) \in Nat
  OBVIOUS
<1>4. s # << >> /\ Head(s) = f
  BY <1>2, <1>3
<1>5. /\ Tail(s) \in Seq(Frame) /\ Len(Tail(s)) = Len(st)
      /\ \A i \in 1 .. Len(st) : Tail(s)[i] = st[i]
  <2>1. /\ Tail(s) \in Seq(Frame) /\ Len(Tail(s)) = Len(s) - 1
        /\ \A i \in 1 .. Len(Tail(s)) : Tail(s)[i] = s[i + 1]
    BY <1>2, <1>4, HeadTailProperties
  <2> QED BY <1>2, <1>3, <2>1
<1>6. Tail(s) = st
  BY <1>5
<1> QED
  BY <1>2, <1>4, <1>6 DEF s

LEMMA Push ==
  ASSUME NEW st, NEW D, Resting(st, D), NEW f \in Frame, Current(f, D),
         f.call # "reduce_failure", Loops(f) => Calm(st),
         f.call = "check_capacity" => Calm(st) \/ Cardinality(D) < get_num_procs
  PROVE  /\ OneLoop(<<f>> \o st, D)
         /\ f.call # "check_capacity" => Resting(<<f>> \o st, D)
         /\ Calm(st) /\ CopyFree(f) => Calm(<<f>> \o st)
<1> DEFINE s == <<f>> \o st
<1>1. s \in Seq(Frame) /\ s # << >> /\ Head(s) = f /\ Tail(s) = st
  BY TopAfterPush DEF Resting
<1> HIDE DEF s
<1>2. OneLoop(s, D)
  BY <1>1 DEF OneLoop
<1>3. f.call # "check_capacity" => Resting(s, D)
  BY <1>1, <1>2, Settle
<1>4. ASSUME Calm(st), CopyFree(f) PROVE Calm(s)
  BY <1>1, <1>4, TopOf DEF Calm
<1> QED
  BY <1>2, <1>3, <1>4 DEF s

(* Another list of running programs does not matter to a stack without     *)
(* copies, and a longer one to no stack.                                   *)
LEMMA OtherList ==
  ASSUME NEW st, NEW D, Resting(st, D), NEW E, Calm(st) \/ D \subseteq E
  PROVE  Resting(st, E)
BY DEF Resting, Calm, CopyFree, Current

-----------------------------------------------------------------------------
(* A bundle: it comes, waits to run a program, or runs one, and some of    *)
(* its programs have returned 0.                                           *)
Started == {b \in Bundles : procs[b].is # "none"}
Comes(b) == ~b.reduced /\ b.subject \in Range(files)
Waits(b) == b \in Range(waiting_procs)
Runs(b) == b \in Range(running_procs)

Succeeded(b, n) == \A i \in 1..n : outs[b][i] = Out /\ did[b][i] = 0

Ready(b) ==
  /\ Len(did[b]) = Len(outs[b]) /\ Len(outs[b]) < NumCommands
  /\ Succeeded(b, Len(outs[b]))

HasReturned(b) ==
  /\ procs[b].is = "exited" /\ procs[b].wrote = Out
  /\ Len(did[b]) = Len(outs[b]) + 1 /\ Len(outs[b]) < NumCommands
  /\ Succeeded(b, Len(outs[b])) /\ did[b][Len(did[b])] = procs[b].exit

Doing(b) ==
  /\ out[b] + procs[b].pipe = procs[b].wrote
  /\ (procs[b].is = "runs" /\ Ready(b)) \/ HasReturned(b)

AllVerdicts == {"success", "failure", "timeout"}

Judged(b) ==
  /\ Len(verdicts[b]) = 1
  /\ \/ /\ verdicts[b][1] = "success"
        /\ Len(did[b]) = NumCommands /\ \A i \in 1..NumCommands : did[b][i] = 0
     \/ verdicts[b][1] = "failure" /\ \E i \in 1..Len(did[b]) : did[b][i] = 1
     \/ /\ verdicts[b][1] = "timeout"
        /\ b \in overdue /\ procs[b].is \in {"killed", "orphan"}
        /\ \A i \in 1..Len(outs[b]) - 1 : did[b][i] = 0

BundleOK(b) ==
  /\ ~(Waits(b) /\ Runs(b))
  /\ Comes(b) => b \notin Started /\ ~Waits(b)
  /\ b \notin Started => /\ procs[b] = NoProc /\ ~Runs(b)
                         /\ verdicts[b] = << >> /\ outs[b] = << >> /\ did[b] = << >>
  /\ b \in Started /\ verdicts[b] = << >> => Waits(b) \/ Runs(b)
  /\ Waits(b) => ~b.reduced /\ verdicts[b] = << >> /\ Ready(b)
  /\ Runs(b) => ~b.reduced /\ verdicts[b] = << >> /\ Doing(b)
  /\ verdicts[b] # << >> => Judged(b)

Recorded ==
  /\ outs \in [Bundles -> Seq(Nat)]
  /\ did \in [Bundles -> Seq({0, 1})]
  /\ verdicts \in [Bundles -> Seq(AllVerdicts)]

Once ==
  /\ OneLoop(stack, DOMAIN running_procs)
  /\ IsInjective(files) /\ IsInjective(waiting_procs) /\ IsInjective(running_procs)
  /\ Before(waiting_procs, Started)
  /\ Recorded
  /\ \A b \in Bundles : BundleOK(b)

PoolInv == ~opt_reduce => Once

-----------------------------------------------------------------------------
LEMMA InitOnce == Init => Once
<1> SUFFICES ASSUME Init PROVE Once
  OBVIOUS
<1>1. IsInjective(files) /\ session \in Sessions
  BY SessionsOfFiles DEF Init
<1>2. /\ waiting_procs = << >> /\ running_procs = << >>
      /\ Range(waiting_procs) = {} /\ Range(running_procs) = {}
      /\ IsInjective(waiting_procs) /\ IsInjective(running_procs)
      /\ Before(waiting_procs, Started)
  BY DEF Init, Range, IsInjective, Before
<1>3. Recorded
  BY DEF Init, Recorded
<1>4. ASSUME NEW b \in Bundles PROVE BundleOK(b)
  <2>1. /\ procs[b] = NoProc /\ procs[b].is = "none"
        /\ verdicts[b] = << >> /\ outs[b] = << >> /\ did[b] = << >>
    BY DEF Init, NoProc
  <2>2. Len(outs[b]) = 0 /\ Len(did[b]) = 0
    BY <2>1
  <2> QED BY <1>2, <2>1 DEF BundleOK, Waits, Runs, Comes, Started
<1>5. OneLoop(stack, DOMAIN running_procs)
  <2> DEFINE f == Call("run")
  <2>1. f \in Frame /\ f.call = "run"
    BY SimpleCalls DEF Call, Frame
  <2>2. Resting(<< >>, DOMAIN running_procs) /\ Calm(<< >>)
    BY DEF Resting, Calm
  <2>3. stack = <<f>> \o << >>
    BY DEF Init
  <2>4. Current(f, DOMAIN running_procs)
    BY <2>1 DEF Current
  <2> HIDE DEF f
  <2> QED BY <2>1, <2>2, <2>3, <2>4, Push
<1> QED
  BY <1>1, <1>2, <1>3, <1>4, <1>5 DEF Once

(* Two calls that are put on a stack. *)
LEMMA TwoCalls ==
  ASSUME NEW f \in Frame, NEW g \in Frame, NEW st \in Seq(Frame)
  PROVE  /\ <<f, g>> \o st = <<f>> \o (<<g>> \o st)
         /\ (<<f>> \o <<g>>) \o st = <<f>> \o (<<g>> \o st)
         /\ (<< >> \o <<g>>) \o st = <<g>> \o st
<1> HIDE DEF Frame
<1>1. <<f>> \in Seq(Frame) /\ <<g>> \in Seq(Frame)
  OBVIOUS
<1>2. << >> \o <<g>> = <<g>>
  BY <1>1, ConcatEmptySeq
<1>3. <<f, g>> = <<f>> \o <<g>>
  <2> DEFINE s == <<f>> \o <<g>>
  <2>1. Len(<<f>>) = 1 /\ Len(<<g>>) = 1 /\ <<f>>[1] = f /\ <<g>>[1] = g
    OBVIOUS
  <2>2. /\ s \in Seq(Frame) /\ Len(s) = 2
        /\ \A i \in 1 .. 2 : s[i] = IF i <= 1 THEN f ELSE <<g>>[i - 1]
    BY <1>1, <2>1, ConcatProperties
  <2> HIDE DEF s
  <2>3. s[1] = f /\ s[2] = g
    BY <2>1, <2>2
  <2>4. s = <<f, g>>
    BY <2>2, <2>3
  <2> QED BY <2>4 DEF s
<1>4. (<<f>> \o <<g>>) \o st = <<f>> \o (<<g>> \o st)
  BY <1>1, ConcatAssociative
<1> QED
  BY <1>2, <1>3, <1>4

StartCall == CheckCall(<< >>, "start", FALSE)

LEMMA StartCallFacts ==
  /\ StartCall \in Frame /\ CopyFree(StartCall) /\ StartCall.call = "check_running_procs"
  /\ \A D : Current(StartCall, D)
<1>1. StartCall \in CheckFrame
  BY NewCheck DEF StartCall
<1>2. StartCall.call = "check_running_procs" /\ DOMAIN StartCall.copy = {}
  BY DEF StartCall, CheckCall
<1> QED
  BY <1>1, <1>2 DEF Frame, CopyFree, Current

LEMMA SimpleFacts ==
  ASSUME NEW c \in {"run", "run_out_all_procs", "check_capacity", "start_waiting", "run_waiting_procs"}
  PROVE  /\ Call(c) \in Frame /\ CopyFree(Call(c)) /\ Call(c).call = c
         /\ \A D : Current(Call(c), D)
         /\ c \notin {"run", "run_out_all_procs"} => ~Loops(Call(c))
BY SimpleCalls DEF Call, Frame, CopyFree, Current, Loops

(* What is known below the call on top. *)
LEMMA Below ==
  ASSUME IInv, Once, stack # << >>
  PROVE  LET D == DOMAIN running_procs IN
         /\ stack \in Seq(Frame) /\ Top = Head(stack) /\ Top \in Frame
         /\ Resting(Tail(stack), D) /\ Tail(stack) \in Seq(Frame)
         /\ Current(Top, D) /\ Top.call # "reduce_failure"
         /\ Loops(Top) => Calm(Tail(stack))
         /\ Top.call = "check_capacity" => Calm(Tail(stack)) \/ NumRunning < get_num_procs
         /\ Top.call # "check_capacity" => Resting(stack, D)
         /\ Loops(Top) /\ CopyFree(Top) /\ Top.call # "check_capacity" => Calm(stack)
<1>1. stack \in Seq(Frame)
  BY DEF IInv, StackOK
<1>2. OneLoop(stack, DOMAIN running_procs)
  BY DEF Once
<1>3. Top = Head(stack) /\ Top \in Frame
  BY <1>1, TopOf DEF Top
<1> QED
  BY <1>1, <1>2, <1>3, Settle, TopOf DEF OneLoop, NumRunning

(* The calls that only arrange for other calls keep one loop under way.    *)
LEMMA CallOnce ==
  ASSUME IInv, Once, FinishTest \/ RunOutAllProcs \/ CheckCapacity \/ StartWaiting \/ StopRunning
  PROVE  OneLoop(stack', DOMAIN running_procs)
<1> DEFINE D == DOMAIN running_procs
           st == Tail(stack)
<1>0. stack # << >>
  BY DEF FinishTest, RunOutAllProcs, CheckCapacity, StartWaiting, StopRunning, In
<1>1. /\ stack \in Seq(Frame) /\ st \in Seq(Frame)
      /\ Resting(st, D)
      /\ Loops(Top) => Calm(st)
      /\ Top.call = "check_capacity" => Calm(st) \/ NumRunning < get_num_procs
      /\ Top.call # "check_capacity" => Resting(stack, D)
      /\ Loops(Top) /\ CopyFree(Top) /\ Top.call # "check_capacity" => Calm(stack)
  BY <1>0, Below
<1>2. OneLoop(st, D)
  BY <1>1, Unwind
<1> HIDE DEF st
<1>3. CASE FinishTest
  <2>1. Loops(Top) /\ stack' = <<Call("run_out_all_procs")>> \o st
    BY <1>3 DEF FinishTest, In, Loops, st
  <2> QED BY <1>1, <2>1, SimpleFacts, Push
<1>4. CASE RunOutAllProcs
  <2>1. Top.call = "run_out_all_procs"
    BY <1>4 DEF RunOutAllProcs, In
  <2>2. Resting(stack, D) /\ Calm(stack)
    BY <1>1, <2>1 DEF Loops, CopyFree
  <2>3. Resting(<<StartCall>> \o stack, D)
    BY <2>2, StartCallFacts, Push
  <2>4. OneLoop(<<Call("run_waiting_procs")>> \o (<<StartCall>> \o stack), D)
    BY <2>3, SimpleFacts, Push
  <2>5. OneLoop(<<Call("run_waiting_procs"), StartCall>> \o stack, D)
    BY <1>1, <2>4, TwoCalls, SimpleFacts, StartCallFacts
  <2> QED BY <1>2, <1>4, <2>5 DEF RunOutAllProcs, StartCall, st
<1>5. CASE CheckCapacity
  <2> DEFINE st1 == <<Call("start_waiting")>> \o st
  <2>1. Top.call = "check_capacity"
    BY <1>5 DEF CheckCapacity, In
  <2>2. Resting(st1, D) /\ OneLoop(st1, D) /\ (Calm(st) => Calm(st1))
    BY <1>1, SimpleFacts, Push
  <2>3. CASE NumRunning >= get_num_procs
    <3>1. Calm(st1)
      <4>1. ~(NumRunning < get_num_procs) \/ NumRunning \notin Int
        BY <2>3, ProcsPositive
      <4>2. NumRunning \in Nat
        <5>1. /\ DOMAIN running_procs \subseteq 1 .. (indices - 1)
              /\ 1 \in Int /\ indices - 1 \in Int
          BY DEF IInv, Indexed, Typed
        <5>2. IsFiniteSet(1 .. (indices - 1))
          BY <5>1, FS_Interval
        <5> QED BY <5>1, <5>2, FS_Subset, FS_CardinalityType DEF NumRunning
      <4> QED BY <1>1, <2>1, <2>2, <4>1, <4>2
    <3>2. OneLoop(<<StartCall>> \o st1, D)
      BY <2>2, <3>1, StartCallFacts, Push
    <3>3. stack' = (<<StartCall>> \o <<Call("start_waiting")>>) \o st
      BY <1>5, <2>3 DEF CheckCapacity, StartCall, st
    <3> QED BY <1>1, <3>2, <3>3, TwoCalls, SimpleFacts, StartCallFacts
  <2>4. CASE ~(NumRunning >= get_num_procs)
    <3>1. stack' = (<< >> \o <<Call("start_waiting")>>) \o st
      BY <1>5, <2>4 DEF CheckCapacity, st
    <3> QED BY <1>1, <2>2, <3>1, TwoCalls, SimpleFacts
  <2> QED BY <2>3, <2>4
<1>6. CASE StartWaiting
  <2>1. OneLoop(<<Call("run_waiting_procs")>> \o st, D)
    BY <1>1, SimpleFacts, Push
  <2>2. << >> \o st = st
    BY <1>1, ConcatEmptySeq
  <2> QED BY <1>2, <1>6, <2>1, <2>2 DEF StartWaiting, st
<1>7. CASE StopRunning
  BY <1>2, <1>7 DEF StopRunning, st
<1> QED
  BY <1>3, <1>4, <1>5, <1>6, <1>7

(* The copy is made while there is no other.                               *)
LEMMA LoopOnce ==
  ASSUME IInv, Once, StartCheck \/ StopCheck \/ Poll
  PROVE  OneLoop(stack', DOMAIN running_procs)
<1> DEFINE D == DOMAIN running_procs
           st == Tail(stack)
<1>0. stack # << >> /\ Top.call = "check_running_procs"
  BY DEF StartCheck, StopCheck, Poll, Checking, In
<1>1. /\ Resting(st, D) /\ Current(Top, D)
      /\ Loops(Top) => Calm(st)
  BY <1>0, Below
<1> HIDE DEF st
<1>3. CASE StartCheck
  <2> DEFINE f == CheckCall(running_procs, "poll", FALSE)
  <2>1. Loops(Top)
    BY <1>0, <1>3 DEF StartCheck, Checking, Loops
  <2>2. f \in Frame /\ f.call = "check_running_procs" /\ Current(f, D)
    BY DEF f, IInv, Indexed, CheckCall, CheckFrame, Frame, Current
  <2>3. stack' = <<f>> \o st
    BY <1>3 DEF StartCheck, st
  <2> HIDE DEF f
  <2> QED BY <1>1, <2>1, <2>2, <2>3, Push
<1>4. CASE StopCheck
  BY <1>1, <1>4, Unwind DEF StopCheck, st
<1>5. CASE Poll
  <2> DEFINE f == CheckCall(Top.copy, "decide", procs[Bundle].is # "runs")
  <2>1. Top \in CheckFrame /\ Top.copy # << >>
    BY <1>5, InCheck DEF Poll
  <2>2. Loops(Top)
    <3>1. PICK E \in SUBSET Nat : Top.copy \in [E -> Bundles]
      BY <2>1 DEF CheckFrame, Copies
    <3>2. DOMAIN Top.copy # {}
      BY <2>1, <3>1, NonEmpty
    <3> QED BY <1>0, <3>2 DEF Loops
  <2>3. f \in Frame /\ f.call = "check_running_procs" /\ Current(f, D)
    BY <1>0, <1>1, <2>1 DEF f, CheckCall, CheckFrame, Frame, Current
  <2>4. stack' = <<f>> \o st
    BY <1>5 DEF Poll, st
  <2> HIDE DEF f
  <2> QED BY <1>1, <2>2, <2>3, <2>4, Push
<1> QED
  BY <1>3, <1>4, <1>5

-----------------------------------------------------------------------------
(* A bundle nothing happens to. *)
LEMMA Untouched ==
  ASSUME NEW c \in Bundles, BundleOK(c),
         procs'[c] = procs[c], out'[c] = out[c], outs'[c] = outs[c],
         did'[c] = did[c], verdicts'[c] = verdicts[c], c \in overdue => c \in overdue',
         Waits(c)' <=> Waits(c), Runs(c)' <=> Runs(c), Comes(c)' => Comes(c)
  PROVE  BundleOK(c)'
<1>1. (c \in Started)' <=> c \in Started
  BY DEF Started
<1>2. Ready(c)' <=> Ready(c)
  BY DEF Ready, Succeeded
<1>3. Doing(c)' <=> Doing(c)
  BY <1>2 DEF Doing, HasReturned, Succeeded
<1>4. Judged(c) => Judged(c)'
  BY DEF Judged
<1> QED
  BY <1>1, <1>2, <1>3, <1>4 DEF BundleOK

LEMMA StackOnce ==
  ASSUME Once, OneLoop(stack', DOMAIN running_procs),
         UNCHANGED <<files, waiting_procs, running_procs, out, outs, verdicts, procs, did>>,
         overdue \subseteq overdue'
  PROVE  Once'
<1>1. \A b \in Bundles : /\ procs'[b] = procs[b] /\ out'[b] = out[b] /\ outs'[b] = outs[b]
                         /\ did'[b] = did[b] /\ verdicts'[b] = verdicts[b]
                         /\ Waits(b)' <=> Waits(b)
                         /\ Runs(b)' <=> Runs(b)
                         /\ Comes(b)' <=> Comes(b)
  BY DEF Waits, Runs, Comes
<1>2. \A b \in Bundles : BundleOK(b)'
  BY <1>1, Untouched DEF Once
<1>3. Started' = Started
  BY DEF Started
<1> QED
  BY <1>2, <1>3 DEF Once, Recorded

(* run_test: a new bundle waits behind those that have started. *)
LEMMA RunTestOnce ==
  ASSUME IInv, Once, RunTest
  PROVE  Once'
<1> DEFINE s == Head(files)
           b == Test(s)
<1>1. /\ files \in Seq(Subjects) /\ waiting_procs \in Seq(Bundles)
      /\ files # << >> /\ files' = Tail(files)
      /\ waiting_procs' = Append(waiting_procs, b)
      /\ stack' = <<Call("check_capacity")>> \o stack
      /\ UNCHANGED <<running_procs, out, outs, verdicts, procs, did, overdue>>
      /\ stack # << >> /\ Top.call = "run"
  BY DEF RunTest, IInv, Typed, results, In
<1>2. /\ s \in Subjects /\ s \in Range(files) /\ s \notin Range(files') /\ IsInjective(files')
      /\ Range(files') \subseteq Range(files)
  BY <1>1, TakeFirst DEF Once
<1> HIDE DEF s
<1>3. b \in Bundles /\ b.subject = s /\ b.reduced = FALSE
  BY <1>2 DEF Test, Bundles
<1>4. \A c \in Bundles : c # b => c.reduced \/ c.subject # s
  BY DEF Bundles, Test
<1> HIDE DEF b
<1>5. b \notin Started /\ ~Waits(b) /\ BundleOK(b)
  BY <1>2, <1>3 DEF Once, BundleOK, Comes
<1>6. /\ Range(waiting_procs') = Range(waiting_procs) \cup {b}
      /\ IsInjective(waiting_procs')
      /\ Before(waiting_procs', Started)
  BY <1>1, <1>3, <1>5, AddLast DEF Once, Waits
<1>7. Started' = Started
  BY <1>1 DEF Started
<1>8. ASSUME NEW c \in Bundles PROVE BundleOK(c)'
  <2>1. /\ Waits(c)' <=> Waits(c) \/ c = b
        /\ Runs(c)' <=> Runs(c)
        /\ Comes(c)' => Comes(c) /\ c # b
    BY <1>1, <1>2, <1>3, <1>6 DEF Waits, Runs, Comes
  <2>2. CASE c # b
    BY <1>1, <2>1, <2>2, Untouched DEF Once
  <2>3. CASE c = b
    <3>1. /\ procs[c] = NoProc /\ ~Runs(c) /\ c \notin Started
          /\ verdicts[c] = << >> /\ outs[c] = << >> /\ did[c] = << >>
      BY <1>5, <2>3 DEF BundleOK
    <3>2. Ready(c)'
      BY <1>1, <3>1 DEF Ready, Succeeded, NumCommands
    <3>3. (c \notin Started)' /\ procs'[c] = NoProc /\ ~Runs(c)' /\ ~Comes(c)'
          /\ verdicts'[c] = << >> /\ outs'[c] = << >> /\ did'[c] = << >>
      BY <1>1, <1>7, <2>1, <2>3, <3>1
    <3> QED BY <1>3, <2>3, <3>2, <3>3 DEF BundleOK
  <2> QED BY <2>2, <2>3
<1>9. OneLoop(stack', DOMAIN running_procs)
  <2>1. Resting(stack, DOMAIN running_procs) /\ Calm(stack)
    BY <1>1, Below DEF Loops, CopyFree
  <2> QED BY <1>1, <2>1, SimpleFacts, Push
<1> QED
  BY <1>1, <1>2, <1>6, <1>7, <1>8, <1>9 DEF Once, Recorded

(* run_program, for the first or the second program of a bundle. *)
LEMMA RunProgramOnce ==
  ASSUME IInv, Once, RunProgram
  PROVE  Once'
<1> DEFINE b == Head(waiting_procs)
           D == DOMAIN running_procs
           E == DOMAIN running_procs \cup {indices}
<1>1. /\ waiting_procs \in Seq(Bundles) /\ waiting_procs # << >>
      /\ waiting_procs' = Tail(waiting_procs)
      /\ running_procs' = [i \in E |-> IF i = indices THEN b ELSE running_procs[i]]
      /\ procs' = [procs EXCEPT ![b] = NewProc]
      /\ out' = [out EXCEPT ![b] = 0]
      /\ overdue' = overdue \ {b}
      /\ UNCHANGED <<stack, files, outs, verdicts, did>>
      /\ procs \in [Bundles -> Proc] /\ out \in [Bundles -> Nat]
      /\ stack # << >> /\ Top.call = "run_waiting_procs"
  BY DEF RunProgram, IInv, Typed, results, In
<1>2. /\ b \in Bundles /\ Waits(b) /\ b \notin Range(waiting_procs')
      /\ Range(waiting_procs) = {b} \cup Range(waiting_procs')
      /\ IsInjective(waiting_procs') /\ waiting_procs' \in Seq(Bundles)
      /\ Before(waiting_procs', Started)
  BY <1>1, TakeFirst DEF Once, Waits
<1> HIDE DEF b
<1>3. /\ ~Runs(b) /\ ~Comes(b) /\ ~b.reduced /\ verdicts[b] = << >> /\ Ready(b)
  BY <1>2 DEF Once, BundleOK
<1>4. indices \notin D
  BY DEF IInv, Indexed, Typed
<1>5. NewProc.is = "runs" /\ NewProc.wrote = 0 /\ NewProc.pipe = 0
  BY DEF NewProc, NoProc
<1>6. /\ \A c \in Bundles : procs'[c] = (IF c = b THEN NewProc ELSE procs[c])
                          /\ out'[c] = (IF c = b THEN 0 ELSE out[c])
  BY <1>1
<1>7. /\ \A c : Runs(c)' <=> Runs(c) \/ c = b
      /\ IsInjective(running_procs')
  <2>1. \A i \in D : i \in E /\ i # indices /\ running_procs'[i] = running_procs[i]
    BY <1>1, <1>4
  <2>2. indices \in E /\ running_procs'[indices] = b /\ DOMAIN running_procs' = E
    BY <1>1
  <2>3. \A i \in E : i \in D \/ i = indices
    OBVIOUS
  <2>4. \A i \in D : running_procs[i] # b
    BY <1>3 DEF Runs, Range
  <2> HIDE DEF E
  <2>5. ASSUME NEW c PROVE Runs(c)' <=> Runs(c) \/ c = b
    BY <2>1, <2>2, <2>3 DEF Runs, Range
  <2>6. \A i, j \in E : running_procs'[i] = running_procs'[j] => i = j
    BY <2>1, <2>2, <2>3, <2>4 DEF Once, IsInjective
  <2> QED BY <2>2, <2>5, <2>6 DEF IsInjective
<1>8. \A c \in Bundles : (c \in Started)' <=> c \in Started \/ c = b
  BY <1>5, <1>6 DEF Started
<1>9. Before(waiting_procs', Started')
  <2>1. \A i \in 1 .. Len(waiting_procs') : waiting_procs'[i] \in Bundles /\ waiting_procs'[i] # b
    BY <1>2 DEF Range
  <2> QED BY <1>2, <1>8, <2>1 DEF Before
<1>10. ASSUME NEW c \in Bundles PROVE BundleOK(c)'
  <2>1. Waits(c)' <=> Waits(c) /\ c # b
    BY <1>2 DEF Waits
  <2>2. Comes(c)' <=> Comes(c)
    BY <1>1 DEF Comes
  <2>3. CASE c # b
    BY <1>1, <1>6, <1>7, <2>1, <2>2, <2>3, Untouched DEF Once
  <2>4. CASE c = b
    <3>1. Ready(c)' /\ Doing(c)'
      BY <1>1, <1>3, <1>5, <1>6, <2>4 DEF Ready, Succeeded, Doing
    <3> QED BY <1>1, <1>3, <1>7, <1>8, <2>1, <2>2, <2>4, <3>1 DEF BundleOK
  <2> QED BY <2>3, <2>4
<1>11. OneLoop(stack', DOMAIN running_procs')
  <2>1. Resting(stack, D)
    BY <1>1, Below
  <2>2. D \subseteq DOMAIN running_procs'
    BY <1>1
  <2>3. Resting(stack, DOMAIN running_procs')
    BY <2>1, <2>2, OtherList
  <2> QED BY <1>1, <2>3, Unwind
<1> QED
  BY <1>1, <1>2, <1>7, <1>9, <1>10, <1>11 DEF Once, Recorded

-----------------------------------------------------------------------------
(* The copy a loop goes over is not stale: its bundle runs, or has just    *)
(* ended, and has not been looked at since.                                *)
LEMMA BundleRuns ==
  ASSUME IInv, Once, Checking("decide")
  PROVE  LET D == DOMAIN running_procs
             calls == <<Onward>> \o Tail(stack)
         IN /\ Bundle \in Bundles /\ Index \in D /\ running_procs[Index] = Bundle
            /\ Runs(Bundle) /\ Doing(Bundle) /\ ~Bundle.reduced /\ verdicts[Bundle] = << >>
            /\ ~Waits(Bundle) /\ ~Comes(Bundle) /\ Bundle \in Started
            /\ Resting(calls, D) /\ Resting(calls, D \ {Index}) /\ calls \in Seq(Frame)
<1> DEFINE D == DOMAIN running_procs
           st == Tail(stack)
<1>0. stack # << >> /\ Top.call = "check_running_procs"
  BY DEF Checking, In
<1>1. /\ Top \in CheckFrame /\ Top.copy # << >> /\ Agrees(Top, running_procs, indices)
  BY InCheck
<1>2. /\ Index \in DOMAIN Top.copy /\ Bundle = Top.copy[Index] /\ Bundle \in Bundles
      /\ Onward \in CheckFrame
  BY <1>1, LoopStep DEF Index, Bundle, Onward
<1>3. /\ Resting(st, D) /\ Current(Top, D)
      /\ Loops(Top) => Calm(st)
  BY <1>0, Below
<1>4. Calm(st)
  BY <1>0, <1>2, <1>3 DEF Loops
<1>5. Index \in D /\ running_procs[Index] = Bundle
  BY <1>0, <1>1, <1>2, <1>3 DEF Current, Agrees
<1>6. Runs(Bundle)
  BY <1>5 DEF Runs, Range
<1>7. /\ Doing(Bundle) /\ ~Bundle.reduced /\ verdicts[Bundle] = << >>
      /\ ~Waits(Bundle) /\ ~Comes(Bundle) /\ Bundle \in Started
  BY <1>2, <1>6 DEF Once, BundleOK
<1>8. /\ Onward.call = "check_running_procs" /\ Onward.copy = Without(Top.copy, Index)
      /\ DOMAIN Onward.copy = DOMAIN Top.copy \ {Index}
  BY DEF Onward, CheckCall, Without
<1>9. Current(Onward, D) /\ Current(Onward, D \ {Index}) /\ Onward \in Frame
  BY <1>0, <1>2, <1>3, <1>8 DEF Current, Frame
<1>10. Resting(st, D \ {Index})
  BY <1>3, <1>4, OtherList
<1>11. Resting(<<Onward>> \o st, D) /\ Resting(<<Onward>> \o st, D \ {Index})
  BY <1>3, <1>4, <1>8, <1>9, <1>10, Push
<1> QED
  BY <1>2, <1>5, <1>6, <1>7, <1>11 DEF Resting

LEMMA LeaveOnce ==
  ASSUME IInv, Once, Checking("decide"), running_procs' = Without(running_procs, Index)
  PROVE  /\ DOMAIN running_procs' = DOMAIN running_procs \ {Index}
         /\ IsInjective(running_procs')
         /\ \A c : Runs(c)' <=> Runs(c) /\ c # Bundle
         /\ Cardinality(DOMAIN running_procs') < get_num_procs
<1> DEFINE D == DOMAIN running_procs
<1>1. Index \in D /\ running_procs[Index] = Bundle /\ IsInjective(running_procs)
  BY BundleRuns DEF Once
<1>2. DOMAIN running_procs' = D \ {Index}
      /\ \A i \in D \ {Index} : running_procs'[i] = running_procs[i]
  BY DEF Without
<1>3. IsInjective(running_procs')
  BY <1>1, <1>2 DEF IsInjective
<1>4. ASSUME NEW c PROVE Runs(c)' <=> Runs(c) /\ c # Bundle
  <2>1. \A i \in D : i # Index => running_procs[i] # Bundle
    BY <1>1 DEF IsInjective
  <2> QED BY <1>1, <1>2, <2>1 DEF Runs, Range
<1>5. Cardinality(D \ {Index}) < get_num_procs
  <2>1. IsFiniteSet(D)
    <3>1. D \subseteq 1 .. (indices - 1) /\ 1 \in Int /\ indices - 1 \in Int
      BY DEF IInv, Indexed, Typed
    <3>2. IsFiniteSet(1 .. (indices - 1))
      BY <3>1, FS_Interval
    <3> QED BY <3>1, <3>2, FS_Subset
  <2>2. Cardinality(D \ {Index}) = Cardinality(D) - 1 /\ Cardinality(D) \in Nat
    BY <1>1, <2>1, FS_RemoveElement, FS_CardinalityType
  <2>3. Cardinality(D) <= get_num_procs
    BY DEF IInv, Listed, NumRunning
  <2> QED BY <2>2, <2>3, ProcsPositive
<1> QED
  BY <1>2, <1>3, <1>4, <1>5

(* A verdict on a bundle that has none. *)
LEMMA FirstVerdict ==
  ASSUME Recorded, NEW b \in Bundles, NEW v \in AllVerdicts, verdicts[b] = << >>, Mark(b, v)
  PROVE  /\ verdicts' \in [Bundles -> Seq(AllVerdicts)]
         /\ Len(verdicts'[b]) = 1 /\ verdicts'[b][1] = v /\ verdicts'[b] # << >>
         /\ \A c \in Bundles : c # b => verdicts'[c] = verdicts[c]
<1>1. verdicts \in [Bundles -> Seq(AllVerdicts)] /\ Len(verdicts[b]) = 0
  BY DEF Recorded
<1> DEFINE s == Append(verdicts[b], v)
<1>2. s \in Seq(AllVerdicts) /\ Len(s) = 1 /\ s[1] = v /\ s # << >>
  <2>1. /\ s \in Seq(AllVerdicts) /\ s # << >> /\ Len(s) = Len(verdicts[b]) + 1
        /\ s[Len(verdicts[b]) + 1] = v
    BY <1>1, AppendProperties
  <2> QED BY <1>1, <2>1
<1>3. verdicts' = [verdicts EXCEPT ![b] = s]
  BY DEF Mark
<1> HIDE DEF s
<1> QED
  BY <1>1, <1>2, <1>3

-----------------------------------------------------------------------------
LEMMA KeepRunningOnce ==
  ASSUME IInv, Once, KeepRunning
  PROVE  Once'
<1> DEFINE b == Bundle
<1>1. /\ Checking("decide")
      /\ out' = [out EXCEPT ![b] = out[b] + procs[b].pipe]
      /\ procs' = [procs EXCEPT ![b] = [procs[b] EXCEPT !.pipe = 0]]
      /\ stack' = <<Onward>> \o Tail(stack)
      /\ UNCHANGED <<files, waiting_procs, running_procs, outs, verdicts, did, overdue>>
      /\ procs \in [Bundles -> Proc] /\ out \in [Bundles -> Nat]
  BY DEF KeepRunning, ReadStreams, queues, results, IInv, Typed
<1>2. /\ b \in Bundles /\ Runs(b) /\ Doing(b) /\ ~b.reduced /\ verdicts[b] = << >>
      /\ ~Waits(b) /\ ~Comes(b) /\ b \in Started
      /\ Resting(stack', DOMAIN running_procs)
  BY <1>1, BundleRuns
<1> HIDE DEF b
<1>3. /\ procs'[b].is = procs[b].is /\ procs'[b].wrote = procs[b].wrote
      /\ procs'[b].exit = procs[b].exit /\ procs'[b].pipe = 0
      /\ out'[b] = out[b] + procs[b].pipe /\ procs[b].pipe \in Nat /\ out[b] \in Nat
      /\ \A c \in Bundles : c # b => procs'[c] = procs[c] /\ out'[c] = out[c]
  BY <1>1, <1>2 DEF Proc
<1>4. Started' = Started
  BY <1>3 DEF Started
<1>5. ASSUME NEW c \in Bundles PROVE BundleOK(c)'
  <2>1. (Waits(c)' <=> Waits(c)) /\ (Runs(c)' <=> Runs(c)) /\ (Comes(c)' <=> Comes(c))
    BY <1>1 DEF Waits, Runs, Comes
  <2>2. CASE c # b
    BY <1>1, <1>3, <2>1, <2>2, Untouched DEF Once
  <2>3. CASE c = b
    <3>1. (Ready(c)' <=> Ready(c)) /\ (HasReturned(c)' <=> HasReturned(c))
      BY <1>1, <1>3, <2>3 DEF Ready, HasReturned, Succeeded
    <3>2. Doing(c)'
      BY <1>2, <1>3, <2>3, <3>1 DEF Doing
    <3> QED BY <1>1, <1>2, <1>4, <2>1, <2>3, <3>2 DEF BundleOK
  <2> QED BY <2>2, <2>3
<1> QED
  BY <1>1, <1>2, <1>4, <1>5, Unwind DEF Once, Recorded

LEMMA TimedOutOnce ==
  ASSUME IInv, Once, TimedOut
  PROVE  Once'
<1> DEFINE b == Bundle
           x == ReadStreams(b)
           k == kill_properly(procs[b])
<1>1. /\ Checking("decide")
      /\ outs' = [outs EXCEPT ![b] = Append(outs[b], x)]
      /\ out' = [out EXCEPT ![b] = 0]
      /\ procs' = [procs EXCEPT ![b] = k]
      /\ running_procs' = Without(running_procs, Index)
      /\ Mark(b, "timeout")
      /\ stack' = <<Onward>> \o Tail(stack)
      /\ b \in overdue
      /\ UNCHANGED <<files, waiting_procs, did, overdue>>
      /\ procs \in [Bundles -> Proc] /\ out \in [Bundles -> Nat]
  BY DEF TimedOut, IInv, Typed
<1>2. /\ b \in Bundles /\ ~b.reduced /\ verdicts[b] = << >>
      /\ ~Waits(b) /\ ~Comes(b) /\ b \in Started /\ Doing(b)
      /\ Resting(stack', DOMAIN running_procs \ {Index})
  BY <1>1, BundleRuns
<1>3. /\ DOMAIN running_procs' = DOMAIN running_procs \ {Index}
      /\ IsInjective(running_procs')
      /\ \A c : Runs(c)' <=> Runs(c) /\ c # b
  BY <1>1, LeaveOnce
<1>4. x \in Nat
  BY <1>1, <1>2 DEF ReadStreams, Proc
<1>0. k.is \in {"killed", "orphan"}
  BY KilledProperly
<1> HIDE DEF b, x, k
<1>5. /\ verdicts' \in [Bundles -> Seq(AllVerdicts)]
      /\ Len(verdicts'[b]) = 1 /\ verdicts'[b][1] = "timeout"
      /\ \A c \in Bundles : c # b => verdicts'[c] = verdicts[c]
  BY <1>1, <1>2, FirstVerdict DEF Once, AllVerdicts
<1>6. \A c \in Bundles : procs'[c] = IF c = b THEN k ELSE procs[c]
  BY <1>1
<1>7. Started' = Started
  BY <1>0, <1>2, <1>6 DEF Started
<1>8. /\ outs' \in [Bundles -> Seq(Nat)]
      /\ \A c \in Bundles : c # b => outs'[c] = outs[c] /\ out'[c] = out[c]
  BY <1>1, <1>2, <1>4, AppendProperties DEF Once, Recorded
<1>9. ASSUME NEW c \in Bundles PROVE BundleOK(c)'
  <2>1. (Waits(c)' <=> Waits(c)) /\ (Comes(c)' <=> Comes(c))
    BY <1>1 DEF Waits, Comes
  <2>2. CASE c # b
    BY <1>1, <1>3, <1>5, <1>6, <1>8, <2>1, <2>2, Untouched DEF Once
  <2>3. CASE c = b
    <3>1. Judged(c)'
      <4>1. procs'[b] = k /\ b \in overdue' /\ did' = did
        BY <1>1, <1>2, <1>6
      <4>2. Len(outs'[b]) = Len(outs[b]) + 1 /\ Len(outs[b]) \in Nat
        BY <1>1, <1>2, <1>4, AppendProperties DEF Once, Recorded
      <4>3. \A i \in 1 .. Len(outs[b]) : did[b][i] = 0
        BY <1>2 DEF Doing, HasReturned, Ready, Succeeded
      <4>4. \A i \in 1 .. Len(outs'[b]) - 1 : did'[b][i] = 0
        BY <4>1, <4>2, <4>3
      <4> QED BY <1>0, <1>5, <2>3, <4>1, <4>4 DEF Judged
    <3>2. verdicts'[c] # << >>
      BY <1>5, <2>3
    <3> QED BY <1>2, <1>3, <1>7, <2>1, <2>3, <3>1, <3>2 DEF BundleOK
  <2> QED BY <2>2, <2>3
<1>10. OneLoop(stack', DOMAIN running_procs')
  BY <1>2, <1>3, Unwind
<1> QED
  BY <1>1, <1>3, <1>5, <1>7, <1>8, <1>9, <1>10 DEF Once, Recorded

(* What becomes of a bundle one of whose programs has ended: it fails      *)
(* because the program did, or it waits for its second one, or succeeds.   *)
Outcome(b, calls) ==
  \/ /\ procs[b].exit # 0
     /\ Mark(b, "failure") /\ stack' = calls /\ UNCHANGED waiting_procs
  \/ /\ procs[b].exit = 0 /\ Len(outs'[b]) < NumCommands
     /\ waiting_procs' = <<b>> \o waiting_procs
     /\ stack' = <<Call("check_capacity")>> \o calls /\ UNCHANGED verdicts
  \/ /\ procs[b].exit = 0 /\ Len(outs'[b]) = NumCommands
     /\ Mark(b, "success") /\ stack' = calls /\ UNCHANGED waiting_procs

LEMMA EndedOutcome ==
  ASSUME IInv, Once, ~opt_reduce, Ended
  PROVE  LET b == Bundle IN
         /\ HasReturned(b) /\ procs[b] \in Proc
         /\ outs' \in [Bundles -> Seq(Nat)]
         /\ \A c \in Bundles : c # b => outs'[c] = outs[c]
         /\ Len(outs'[b]) = Len(outs[b]) + 1 /\ Len(outs[b]) \in Nat
         /\ \A i \in 1..Len(outs'[b]) : outs'[b][i] = Out
         /\ Outcome(b, <<Onward>> \o Tail(stack))
<1> DEFINE b == Bundle
           x == ReadStreams(b)
           calls == <<Onward>> \o Tail(stack)
<1>1. /\ Checking("decide")
      /\ outs' = [outs EXCEPT ![b] = Append(outs[b], x)]
      /\ Continuation(b, calls)
      /\ procs[b].is # "runs"
      /\ outs \in [Bundles -> Seq(Nat)]
  BY DEF Ended, IInv, EndedStays, Once, Recorded
<1>2. /\ b \in Bundles /\ Doing(b)
  BY <1>1, BundleRuns
<1>3. HasReturned(b) /\ procs[b] \in Proc /\ out[b] \in Nat
  BY <1>1, <1>2 DEF Doing, IInv, Typed
<1>4. x = Out
  BY <1>2, <1>3 DEF ReadStreams, Doing, HasReturned
<1> HIDE DEF x, b, calls
<1>5. /\ outs'[b] \in Seq(Nat) /\ Len(outs'[b]) = Len(outs[b]) + 1 /\ Len(outs[b]) \in Nat
      /\ \A i \in 1 .. Len(outs[b]) : outs'[b][i] = outs[b][i]
      /\ outs'[b][Len(outs[b]) + 1] = Out
  BY <1>1, <1>2, <1>4, AppendProperties, SizesPositive
<1>6. \A i \in 1 .. Len(outs'[b]) : outs'[b][i] = Out
  <2>1. \A i \in 1 .. Len(outs[b]) : outs[b][i] = Out
    BY <1>3 DEF HasReturned, Succeeded
  <2>2. \A i \in 1 .. Len(outs'[b]) : i \in 1 .. Len(outs[b]) \/ i = Len(outs[b]) + 1
    BY <1>5
  <2>3. ASSUME NEW i \in 1 .. Len(outs'[b]) PROVE outs'[b][i] = Out
    <3>1. CASE i \in 1 .. Len(outs[b])
      BY <1>5, <2>1, <3>1
    <3>2. CASE i = Len(outs[b]) + 1
      BY <1>5, <3>2
    <3> QED BY <2>2, <3>1, <3>2
  <2> QED BY <2>3
<1>7. Outcome(b, calls)
  <2>1. ASSUME Failure(b, calls)
        PROVE  Mark(b, "failure") /\ stack' = calls /\ UNCHANGED waiting_procs
    BY <2>1 DEF Failure
  <2>2. CASE procs[b].exit # 0
    BY <1>1, <2>1, <2>2 DEF Continuation, Outcome
  <2>3. CASE procs[b].exit = 0 /\ Len(outs'[b]) < NumCommands
    BY <1>1, <2>3 DEF Continuation, Outcome, StartProgram
  <2>4. CASE procs[b].exit = 0 /\ ~(Len(outs'[b]) < NumCommands)
    <3>1. Len(outs'[b]) = 2
      BY <1>3, <1>5, <2>4 DEF HasReturned, NumCommands
    <3>2. outs'[b][1] = outs'[b][2]
      BY <1>6, <3>1
    <3>3. Mark(b, "success") /\ stack' = calls /\ UNCHANGED waiting_procs
      BY <1>1, <2>4, <3>2 DEF Continuation
    <3> QED BY <2>4, <3>1, <3>3 DEF Outcome, NumCommands
  <2> QED BY <2>2, <2>3, <2>4
<1>8. /\ outs' \in [Bundles -> Seq(Nat)]
      /\ \A c \in Bundles : c # b => outs'[c] = outs[c]
  BY <1>1, <1>2, <1>5
<1> QED
  BY <1>3, <1>5, <1>6, <1>7, <1>8 DEF b, calls

LEMMA EndedOnce ==
  ASSUME IInv, Once, ~opt_reduce, Ended
  PROVE  Once'
<1> DEFINE b == Bundle
           calls == <<Onward>> \o Tail(stack)
           E == DOMAIN running_procs \ {Index}
<1>1. /\ Checking("decide")
      /\ out' = [out EXCEPT ![b] = 0]
      /\ procs' = [procs EXCEPT ![b] = [procs[b] EXCEPT !.pipe = 0, !.exit = 1]]
      /\ running_procs' = Without(running_procs, Index)
      /\ overdue' = overdue \ {b}
      /\ UNCHANGED <<files, did>>
      /\ procs \in [Bundles -> Proc] /\ out \in [Bundles -> Nat]
      /\ waiting_procs \in Seq(Bundles)
  BY DEF Ended, IInv, Typed
<1>2. /\ b \in Bundles /\ ~b.reduced /\ verdicts[b] = << >>
      /\ ~Waits(b) /\ ~Comes(b) /\ b \in Started
      /\ Resting(calls, E)
  BY <1>1, BundleRuns
<1>3. /\ DOMAIN running_procs' = E
      /\ IsInjective(running_procs')
      /\ \A c : Runs(c)' <=> Runs(c) /\ c # b
      /\ Cardinality(E) < get_num_procs
  BY <1>1, LeaveOnce
<1>4. /\ HasReturned(b) /\ procs[b] \in Proc
      /\ outs' \in [Bundles -> Seq(Nat)]
      /\ \A c \in Bundles : c # b => outs'[c] = outs[c]
      /\ Len(outs'[b]) = Len(outs[b]) + 1 /\ Len(outs[b]) \in Nat
      /\ \A i \in 1..Len(outs'[b]) : outs'[b][i] = Out
      /\ Outcome(b, calls)
  BY EndedOutcome
<1> HIDE DEF b, calls, E
<1>5. /\ procs'[b].is = "exited"
      /\ \A c \in Bundles : c # b => procs'[c] = procs[c] /\ out'[c] = out[c]
  BY <1>1, <1>2, <1>4 DEF Proc, HasReturned
<1>6. Started' = Started
  BY <1>2, <1>5 DEF Started
<1>7. \A c \in Bundles : Comes(c)' <=> Comes(c)
  BY <1>1 DEF Comes
<1>8. /\ Len(did[b]) = Len(outs'[b]) /\ procs[b].exit \in {0, 1}
      /\ \A i \in 1 .. Len(outs[b]) : did[b][i] = 0
      /\ did[b][Len(did[b])] = procs[b].exit /\ did' = did
  BY <1>1, <1>4 DEF HasReturned, Succeeded, Proc
<1>9. procs[b].exit = 0 => \A i \in 1 .. Len(did[b]) : did[b][i] = 0
  BY <1>4, <1>8
<1>10. ASSUME NEW v \in AllVerdicts, Mark(b, v), stack' = calls, UNCHANGED waiting_procs,
              \/ v = "failure" /\ procs[b].exit # 0
              \/ v = "success" /\ procs[b].exit = 0 /\ Len(outs'[b]) = NumCommands
       PROVE  Once'
  <2>1. /\ verdicts' \in [Bundles -> Seq(AllVerdicts)]
        /\ Len(verdicts'[b]) = 1 /\ verdicts'[b][1] = v /\ verdicts'[b] # << >>
        /\ \A c \in Bundles : c # b => verdicts'[c] = verdicts[c]
    BY <1>2, <1>10, FirstVerdict DEF Once
  <2>2. ASSUME NEW c \in Bundles, c = b PROVE Judged(c)'
    <3>1. CASE v = "failure"
      <4>1. Len(did[b]) \in 1 .. Len(did[b]) /\ did[b][Len(did[b])] = 1
        BY <1>4, <1>8, <1>10, <3>1
      <4> QED BY <1>8, <2>1, <2>2, <3>1, <4>1 DEF Judged
    <3>2. CASE v = "success"
      BY <1>8, <1>9, <1>10, <2>1, <2>2, <3>2 DEF Judged
    <3> QED BY <1>10, <3>1, <3>2
  <2>3. ASSUME NEW c \in Bundles PROVE BundleOK(c)'
    <3>1. Waits(c)' <=> Waits(c)
      BY <1>10 DEF Waits
    <3>2. CASE c # b
      BY <1>1, <1>3, <1>4, <1>5, <1>7, <1>8, <2>1, <3>1, <3>2, Untouched DEF Once
    <3>3. CASE c = b
      BY <1>2, <1>3, <1>6, <1>7, <2>1, <2>2, <3>1, <3>3 DEF BundleOK
    <3> QED BY <3>2, <3>3
  <2>4. OneLoop(stack', DOMAIN running_procs')
    BY <1>2, <1>3, <1>10, Unwind
  <2> QED BY <1>1, <1>3, <1>4, <1>6, <1>10, <2>1, <2>3, <2>4 DEF Once, Recorded
<1>11. ASSUME procs[b].exit = 0, Len(outs'[b]) < NumCommands,
              waiting_procs' = <<b>> \o waiting_procs,
              stack' = <<Call("check_capacity")>> \o calls, UNCHANGED verdicts
       PROVE  Once'
  <2>1. /\ Range(waiting_procs') = Range(waiting_procs) \cup {b}
        /\ IsInjective(waiting_procs') /\ Before(waiting_procs', Started)
    BY <1>1, <1>2, <1>11, AddFirst DEF Once, Waits
  <2>2. ASSUME NEW c \in Bundles, c = b PROVE Ready(c)'
    <3>1. \A i \in 1 .. Len(outs'[b]) : outs'[b][i] = Out /\ did'[b][i] = 0
      BY <1>4, <1>8, <1>9, <1>11
    <3> QED BY <1>8, <1>11, <2>2, <3>1 DEF Ready, Succeeded
  <2>3. ASSUME NEW c \in Bundles PROVE BundleOK(c)'
    <3>1. Waits(c)' <=> Waits(c) \/ c = b
      BY <2>1 DEF Waits
    <3>2. CASE c # b
      BY <1>1, <1>3, <1>4, <1>5, <1>7, <1>8, <1>11, <3>1, <3>2, Untouched DEF Once
    <3>3. CASE c = b
      BY <1>2, <1>3, <1>6, <1>7, <1>11, <2>2, <3>1, <3>3 DEF BundleOK
    <3> QED BY <3>2, <3>3
  <2>4. OneLoop(stack', DOMAIN running_procs')
    BY <1>2, <1>3, <1>11, SimpleFacts, Push
  <2> QED BY <1>1, <1>3, <1>4, <1>6, <1>11, <2>1, <2>3, <2>4 DEF Once, Recorded
<1> QED
  BY <1>4, <1>10, <1>11 DEF Outcome, AllVerdicts

-----------------------------------------------------------------------------
(* The programs, with their orphans. *)
LEMMA ProgramOnce ==
  ASSUME IInv, Once, NEW b \in Bundles, Program(b)
  PROVE  Once'
<1>1. /\ UNCHANGED <<stack, files, waiting_procs, running_procs, out, outs, verdicts, overdue>>
      /\ procs[b].is = "runs"
      /\ procs \in [Bundles -> Proc] /\ out \in [Bundles -> Nat] /\ procs[b] \in Proc
      /\ did \in [Bundles -> Seq({0, 1})]
  BY DEF Program, Write, Exit, queues, results, IInv, Typed, Once, Recorded
<1>2. Runs(b)
  BY <1>1 DEF IInv, Listed, Running, Runs
<1>3. /\ ~Waits(b) /\ ~Comes(b) /\ b \in Started /\ ~b.reduced /\ verdicts[b] = << >>
      /\ Doing(b) /\ Ready(b)
  BY <1>1, <1>2 DEF Once, BundleOK, Doing, HasReturned
<1>4. /\ \A c \in Bundles : c # b => procs'[c] = procs[c] /\ did'[c] = did[c]
      /\ procs'[b].is # "none" /\ did' \in [Bundles -> Seq({0, 1})]
      /\ \A c \in Bundles : c = b => Doing(c)'
  <2>1. CASE Write(b)
    <3>1. /\ procs' = [procs EXCEPT ![b] = [procs[b] EXCEPT !.wrote = procs[b].wrote + 1, !.pipe = procs[b].pipe + 1]]
          /\ did' = did
      BY <1>1, <2>1 DEF Write
    <3>2. /\ procs'[b].wrote = procs[b].wrote + 1 /\ procs'[b].pipe = procs[b].pipe + 1
          /\ procs'[b].is = "runs"
      BY <1>1, <3>1 DEF Proc
    <3>3. \A c \in Bundles : c = b => Ready(c)'
      BY <1>1, <1>3, <3>1 DEF Ready, Succeeded
    <3>4. out'[b] + procs'[b].pipe = procs'[b].wrote
      BY <1>1, <1>3, <3>2 DEF Doing, Proc
    <3> QED BY <1>1, <3>1, <3>2, <3>3, <3>4 DEF Doing
  <2>2. ASSUME NEW code \in {0, 1}, Exit(b, code)
        PROVE  <1>4!:
    <3> DEFINE s == Append(did[b], code)
    <3>1. /\ procs' = [procs EXCEPT ![b] = [procs[b] EXCEPT !.is = "exited", !.exit = code]]
          /\ did' = [did EXCEPT ![b] = s] /\ procs[b].wrote = Out
      BY <1>1, <2>2 DEF Exit
    <3>2. /\ procs'[b].wrote = Out /\ procs'[b].pipe = procs[b].pipe
          /\ procs'[b].is = "exited" /\ procs'[b].exit = code
      BY <1>1, <3>1 DEF Proc
    <3>3. /\ s \in Seq({0, 1}) /\ Len(s) = Len(did[b]) + 1 /\ Len(did[b]) \in Nat
          /\ \A i \in 1 .. Len(did[b]) : s[i] = did[b][i]
          /\ s[Len(did[b]) + 1] = code
      BY <1>1, AppendProperties
    <3> HIDE DEF s
    <3>4. did'[b] = s
      BY <1>1, <3>1
    <3>5. \A c \in Bundles : c = b => HasReturned(c)'
      BY <1>1, <1>3, <3>2, <3>3, <3>4 DEF HasReturned, Ready, Succeeded
    <3>6. out'[b] + procs'[b].pipe = procs'[b].wrote
      BY <1>1, <1>3, <3>1, <3>2 DEF Doing
    <3> QED BY <1>1, <3>1, <3>2, <3>3, <3>5, <3>6 DEF Doing
  <2> QED BY <2>1, <2>2 DEF Program
<1>5. Started' = Started
  BY <1>3, <1>4 DEF Started
<1>6. ASSUME NEW c \in Bundles PROVE BundleOK(c)'
  <2>1. (Waits(c)' <=> Waits(c)) /\ (Runs(c)' <=> Runs(c)) /\ (Comes(c)' <=> Comes(c))
    BY <1>1 DEF Waits, Runs, Comes
  <2>2. CASE c # b
    BY <1>1, <1>4, <2>1, <2>2, Untouched DEF Once
  <2>3. CASE c = b
    <3>1. Doing(c)'
      BY <1>4, <2>3
    <3>2. /\ ~Waits(c)' /\ ~Comes(c)' /\ c \in Started' /\ ~c.reduced /\ verdicts'[c] = << >>
          /\ Runs(c)'
      BY <1>1, <1>2, <1>3, <1>5, <2>1, <2>3
    <3> QED BY <3>1, <3>2 DEF BundleOK
  <2> QED BY <2>2, <2>3
<1> QED
  BY <1>1, <1>4, <1>5, <1>6 DEF Once, Recorded

LEMMA OrphanOnce ==
  ASSUME IInv, Once, NEW b \in Bundles, OrphanEnds(b)
  PROVE  Once'
<1>1. /\ UNCHANGED <<stack, files, waiting_procs, running_procs, out, outs, verdicts, did, overdue>>
      /\ procs[b].is = "orphan" /\ procs[b] \in Proc
      /\ procs' = [procs EXCEPT ![b] = [procs[b] EXCEPT !.is = "killed"]]
      /\ procs \in [Bundles -> Proc]
  BY DEF OrphanEnds, queues, results, IInv, Typed
<1>2. procs'[b].is = "killed" /\ \A c \in Bundles : c # b => procs'[c] = procs[c]
  BY <1>1 DEF Proc
<1>3. b \in Started /\ Started' = Started
  BY <1>1, <1>2 DEF Started
<1>4. BundleOK(b) /\ ~Runs(b)
  BY <1>1 DEF Once, BundleOK, Doing, HasReturned
<1>5. ASSUME NEW c \in Bundles PROVE BundleOK(c)'
  <2>1. (Waits(c)' <=> Waits(c)) /\ (Runs(c)' <=> Runs(c)) /\ (Comes(c)' <=> Comes(c))
    BY <1>1 DEF Waits, Runs, Comes
  <2>2. CASE c # b
    BY <1>1, <1>2, <2>1, <2>2, Untouched DEF Once
  <2>3. CASE c = b
    <3>1. Ready(c)' <=> Ready(c)
      BY <1>1 DEF Ready, Succeeded
    <3>2. Judged(c) => Judged(c)'
      BY <1>1, <1>2, <2>3 DEF Judged
    <3> QED BY <1>1, <1>3, <1>4, <2>1, <2>3, <3>1, <3>2 DEF BundleOK
  <2> QED BY <2>2, <2>3
<1> QED
  BY <1>1, <1>3, <1>5 DEF Once, Recorded

LEMMA NextPoolInv == IInv /\ PoolInv /\ [Next]_vars => PoolInv'
<1> SUFFICES ASSUME IInv, PoolInv, [Next]_vars, ~opt_reduce' PROVE Once'
  BY DEF PoolInv
<1>1. session' = session
  BY DEF Next, Framework, RunTest, FinishTest, RunOutAllProcs, CheckCapacity, StartWaiting,
    RunProgram, StopRunning, StartCheck, StopCheck, Poll, Ended, TimedOut, KeepRunning,
    ReduceFailure, Program, Write, Exit, OrphanEnds, TimePasses, vars
<1>2. ~opt_reduce /\ Once
  BY <1>1 DEF PoolInv, opt_reduce
<1>3. CASE FinishTest \/ RunOutAllProcs \/ CheckCapacity \/ StartWaiting \/ StopRunning
  <2>1. UNCHANGED <<files, waiting_procs, running_procs, out, outs, verdicts, procs, did, overdue>>
    BY <1>3 DEF FinishTest, RunOutAllProcs, CheckCapacity, StartWaiting, StopRunning, queues, results
  <2> QED BY <1>2, <1>3, <2>1, CallOnce, StackOnce
<1>4. CASE StartCheck \/ StopCheck \/ Poll
  <2>1. UNCHANGED <<files, waiting_procs, running_procs, out, outs, verdicts, procs, did, overdue>>
    BY <1>4 DEF StartCheck, StopCheck, Poll, queues, results
  <2> QED BY <1>2, <1>4, <2>1, LoopOnce, StackOnce
<1>5. CASE RunTest
  BY <1>2, <1>5, RunTestOnce
<1>6. CASE RunProgram
  BY <1>2, <1>6, RunProgramOnce
<1>7. CASE Ended
  BY <1>2, <1>7, EndedOnce
<1>8. CASE TimedOut
  BY <1>2, <1>8, TimedOutOnce
<1>9. CASE KeepRunning
  BY <1>2, <1>9, KeepRunningOnce
<1>10. CASE ReduceFailure
  BY <1>2, <1>10, Below DEF ReduceFailure, In
<1>11. ASSUME NEW b \in Bundles, Program(b) PROVE Once'
  BY <1>2, <1>11, ProgramOnce
<1>12. ASSUME NEW b \in Bundles, TimePasses(b) PROVE Once'
  <2>1. /\ UNCHANGED <<stack, files, waiting_procs, running_procs, out, outs, verdicts, procs, did>>
        /\ overdue \subseteq overdue'
    BY <1>12 DEF TimePasses, queues, results
  <2>2. OneLoop(stack', DOMAIN running_procs)
    BY <1>2, <2>1 DEF Once
  <2> QED BY <1>2, <2>1, <2>2, StackOnce
<1>13. CASE UNCHANGED vars
  <2>1. UNCHANGED <<stack, files, waiting_procs, running_procs, out, outs, verdicts, procs, did, overdue>>
    BY <1>13 DEF vars, queues, results
  <2>2. OneLoop(stack', DOMAIN running_procs)
    BY <1>2, <2>1 DEF Once
  <2> QED BY <1>2, <2>1, <2>2, StackOnce
<1>14. ASSUME NEW b \in Bundles, OrphanEnds(b) PROVE Once'
  BY <1>2, <1>14, OrphanOnce
<1> QED
  BY <1>3, <1>4, <1>5, <1>6, <1>7, <1>8, <1>9, <1>10, <1>11, <1>12, <1>13, <1>14 DEF Next, Framework

LEMMA PoolInvHolds == Spec => [](IInv /\ PoolInv)
<1>1. Init => IInv /\ PoolInv
  BY InitIInv, InitOnce DEF PoolInv
<1>2. IInv /\ PoolInv /\ [Next]_vars => (IInv /\ PoolInv)'
  BY NextIInv, NextPoolInv
<1> QED
  BY <1>1, <1>2, PTL DEF Spec

-----------------------------------------------------------------------------
(* A verdict says what happened, in any number of tests without --reduce,  *)
(* however their programs end, hang or write: nothing a program wrote is   *)
(* lost, and no exit code of another program is taken for its own.         *)
THEOREM VerdictsHold == Spec => [](~opt_reduce => VerdictsTrue)
<1>1. IInv /\ PoolInv => (~opt_reduce => VerdictsTrue)
  <2> SUFFICES ASSUME IInv, Once, NEW b \in Bundles, verdicts[b] # << >>
      PROVE  CASE Head(verdicts[b]) = "success" -> Range(did[b]) = {0} /\ Len(did[b]) = NumCommands
               [] Head(verdicts[b]) = "failure" -> 1 \in Range(did[b])
               [] Head(verdicts[b]) = "timeout" ->
                    /\ b \in overdue /\ procs[b].is \in {"killed", "orphan"}
                    /\ \A i \in 1..Len(outs[b]) - 1 : did[b][i] = 0
    BY DEF PoolInv, VerdictsTrue
  <2>1. Judged(b) /\ verdicts[b] \in Seq(AllVerdicts) /\ did[b] \in Seq({0, 1})
    BY DEF Once, BundleOK, Recorded
  <2>2. Head(verdicts[b]) = verdicts[b][1] /\ DOMAIN did[b] = 1 .. Len(did[b])
    BY <2>1
  <2>3. CASE verdicts[b][1] = "success"
    <3>1. Len(did[b]) = 2 /\ did[b][1] = 0 /\ \A i \in DOMAIN did[b] : did[b][i] = 0
      BY <2>1, <2>2, <2>3 DEF Judged, NumCommands
    <3>2. 1 \in DOMAIN did[b]
      BY <2>2, <3>1
    <3>3. Range(did[b]) = {0}
      BY <3>1, <3>2 DEF Range
    <3> QED BY <2>2, <2>3, <3>1, <3>3 DEF NumCommands
  <2>4. CASE verdicts[b][1] = "failure"
    <3>1. 1 \in Range(did[b])
      BY <2>1, <2>2, <2>4 DEF Judged, Range
    <3> QED BY <2>2, <2>4, <3>1
  <2>5. CASE verdicts[b][1] = "timeout"
    BY <2>1, <2>2, <2>5 DEF Judged
  <2> QED BY <2>1, <2>3, <2>4, <2>5 DEF Judged
<1> QED
  BY <1>1, PoolInvHolds, PTL

-----------------------------------------------------------------------------
(* The refinement. *)
StatusesOK ==
  \A s \in Subjects :
    /\ Test(s) \in Bundles
    /\ Test(s) \notin Started => StatusOf(s) = "queued"
    /\ Test(s) \in Started /\ verdicts[Test(s)] = << >> => StatusOf(s) = "open"
    /\ verdicts[Test(s)] # << >> => StatusOf(s) \in AllVerdicts

LEMMA Statuses == Once => StatusesOK
<1> SUFFICES ASSUME Once, NEW s \in Subjects
    PROVE  /\ Test(s) \in Bundles
           /\ Test(s) \notin Started => StatusOf(s) = "queued"
           /\ Test(s) \in Started /\ verdicts[Test(s)] = << >> => StatusOf(s) = "open"
           /\ verdicts[Test(s)] # << >> => StatusOf(s) \in AllVerdicts
  BY DEF StatusesOK
<1> DEFINE b == Test(s)
<1>1. b \in Bundles
  BY DEF Test, Bundles
<1>2. BundleOK(b) /\ verdicts[b] \in Seq(AllVerdicts)
  BY <1>1 DEF Once, Recorded
<1>3. b \in Started => procs[b] # NoProc
  BY DEF Started, NoProc
<1>4. b \notin Started => procs[b] = NoProc /\ verdicts[b] = << >>
  BY <1>2 DEF BundleOK
<1>5. verdicts[b] = << >> => Len(verdicts[b]) = 0
  OBVIOUS
<1>6. ASSUME verdicts[b] # << >>
      PROVE  ~(Len(verdicts[b]) > 1) /\ Head(verdicts[b]) \in AllVerdicts
  <2>1. Len(verdicts[b]) = 1
    BY <1>2, <1>6 DEF BundleOK, Judged
  <2>2. Head(verdicts[b]) \in AllVerdicts
    BY <1>2, <1>6, HeadTailProperties
  <2> QED BY <2>1, <2>2
<1>7. StatusOf(s) = IF Len(verdicts[b]) > 1 THEN "twice"
                    ELSE IF verdicts[b] # << >> THEN Head(verdicts[b])
                    ELSE IF procs[b] # NoProc THEN "open"
                    ELSE "queued"
  BY DEF StatusOf
<1> HIDE DEF b
<1>8. verdicts[b] # << >> => StatusOf(s) \in AllVerdicts
  BY <1>6, <1>7
<1>9. verdicts[b] = << >> => StatusOf(s) = IF procs[b] # NoProc THEN "open" ELSE "queued"
  BY <1>5, <1>7
<1> QED
  BY <1>1, <1>3, <1>4, <1>8, <1>9 DEF b

LEMMA NextStatuses == Once' => StatusesOK'
BY Statuses, PTL

(* A step that concerns one bundle. *)
LEMMA OneStatus ==
  ASSUME NEW b \in Bundles, ~b.reduced,
         \A c \in Bundles : c # b => procs'[c] = procs[c] /\ verdicts'[c] = verdicts[c]
  PROVE  /\ b.subject \in Subjects /\ Test(b.subject) = b
         /\ \A s \in Subjects : s # b.subject => StatusOf(s)' = StatusOf(s)
<1>1. b.subject \in Subjects /\ Test(b.subject) = b
  BY DEF Bundles, Test
<1>2. \A s \in Subjects : Test(s) \in Bundles /\ (s # b.subject => Test(s) # b)
  BY DEF Bundles, Test
<1>3. \A s \in Subjects : s # b.subject => StatusOf(s)' = StatusOf(s)
  BY <1>2 DEF StatusOf
<1> QED
  BY <1>1, <1>3

LEMMA StaysOpen ==
  ASSUME Once, Once', NEW b \in Bundles, ~b.reduced,
         b \in Started, b \in Started', verdicts[b] = << >>, verdicts'[b] = << >>,
         \A c \in Bundles : c # b => procs'[c] = procs[c] /\ verdicts'[c] = verdicts[c]
  PROVE  \A s \in Subjects : StatusOf(s)' = StatusOf(s)
<1>1. /\ b.subject \in Subjects /\ Test(b.subject) = b
      /\ \A s \in Subjects : s # b.subject => StatusOf(s)' = StatusOf(s)
  BY OneStatus
<1>2. StatusOf(b.subject) = "open"
  BY <1>1, Statuses DEF StatusesOK
<1>3. StatusOf(b.subject)' = "open"
  BY <1>1, NextStatuses DEF StatusesOK
<1> QED
  BY <1>1, <1>2, <1>3

LEMMA Judges ==
  ASSUME Once, Once', NEW b \in Bundles, ~b.reduced,
         b \in Started, verdicts[b] = << >>, verdicts'[b] # << >>,
         \A c \in Bundles : c # b => procs'[c] = procs[c] /\ verdicts'[c] = verdicts[c]
  PROVE  Pool!Next
<1>1. /\ b.subject \in Subjects /\ Test(b.subject) = b
      /\ \A s \in Subjects : s # b.subject => StatusOf(s)' = StatusOf(s)
  BY OneStatus
<1>2. StatusOf(b.subject) = "open"
  BY <1>1, Statuses DEF StatusesOK
<1>3. StatusOf(b.subject)' \in AllVerdicts
  BY <1>1, NextStatuses DEF StatusesOK
<1>4. Pool!Judge(b.subject)
  BY <1>1, <1>2, <1>3 DEF Pool!Judge, AllVerdicts
<1> QED
  BY <1>1, <1>4 DEF Pool!Next

(* When a new program is at the head of the queue, what is open runs.      *)
LEMMA FewOpen ==
  ASSUME IInv, Once, waiting_procs # << >>, Head(waiting_procs) \notin Started,
         NumRunning < get_num_procs
  PROVE  Cardinality(Pool!OpenSubjects) < get_num_procs
<1> DEFINE O == {s \in Subjects : StatusOf(s) = "open"}
           D == DOMAIN running_procs
           f == [s \in O |-> CHOOSE i \in D : running_procs[i] = Test(s)]
<1>1. Range(waiting_procs) \cap Started = {}
  BY TakeFirst DEF IInv, Typed, Once
<1>2. ASSUME NEW s \in O PROVE \E i \in D : running_procs[i] = Test(s)
  <2>1. Test(s) \in Bundles /\ Test(s) \in Started /\ verdicts[Test(s)] = << >>
    BY Statuses DEF StatusesOK, AllVerdicts
  <2>2. Runs(Test(s))
    BY <1>1, <2>1 DEF Once, BundleOK, Waits
  <2> QED BY <2>2 DEF Runs, Range
<1>3. \A s \in O : f[s] \in D /\ running_procs[f[s]] = Test(s)
  BY <1>2
<1>4. \A s, t \in O : Test(s) = Test(t) => s = t
  BY DEF Test
<1>5. IsFiniteSet(D)
  <2>1. D \subseteq 1 .. (indices - 1) /\ 1 \in Int /\ indices - 1 \in Int
    BY DEF IInv, Indexed, Typed
  <2>2. IsFiniteSet(1 .. (indices - 1))
    BY <2>1, FS_Interval
  <2> QED BY <2>1, <2>2, FS_Subset
<1>6. f \in [O -> D]
  BY <1>3
<1> HIDE DEF f
<1>7. f \in Injection(O, D)
  BY <1>3, <1>4, <1>6 DEF Injection, IsInjective
<1> HIDE DEF O
<1>8. IsFiniteSet(O) /\ Cardinality(O) <= Cardinality(D)
  BY <1>5, <1>7, FS_Injection
<1>9. Cardinality(O) \in Nat /\ Cardinality(D) \in Nat
  BY <1>5, <1>8, FS_CardinalityType
<1>10. Cardinality(O) < get_num_procs
  BY <1>8, <1>9, ProcsPositive DEF NumRunning
<1>11. Pool!OpenSubjects = O
  BY DEF Pool!OpenSubjects, O
<1> QED
  BY <1>10, <1>11

(* TestPool counts as AsyncTests does. *)
LEMMA SameCount == \A S : Pool!Cardinality(S) = Cardinality(S)
BY DEF Pool!Cardinality, Cardinality

LEMMA Opens ==
  ASSUME IInv, Once, Once', NEW b \in Bundles, ~b.reduced, b \notin Started, b \in Started',
         UNCHANGED verdicts, \A c \in Bundles : c # b => procs'[c] = procs[c],
         Cardinality(Pool!OpenSubjects) < get_num_procs
  PROVE  Pool!Next
<1>1. /\ b.subject \in Subjects /\ Test(b.subject) = b
      /\ \A s \in Subjects : s # b.subject => StatusOf(s)' = StatusOf(s)
  BY OneStatus
<1>2. StatusOf(b.subject) = "queued" /\ verdicts[b] = << >>
  BY <1>1, Statuses DEF StatusesOK, Once, BundleOK
<1>3. StatusOf(b.subject)' = "open"
  BY <1>1, <1>2, NextStatuses DEF StatusesOK
<1>4. Pool!OpenOne(b.subject)
  BY <1>1, <1>2, <1>3, SameCount DEF Pool!OpenOne
<1> QED
  BY <1>1, <1>4 DEF Pool!Next

LEMMA PoolStep ==
  ASSUME IInv, Once, Once', ~opt_reduce, [Next]_vars
  PROVE  Pool!Next \/ \A s \in Subjects : StatusOf(s)' = StatusOf(s)
<1>1. CASE UNCHANGED <<procs, verdicts>>
  BY <1>1 DEF StatusOf
<1>2. CASE RunProgram
  <2> PICK b \in Bundles : b = Head(waiting_procs)
    BY <1>2, TakeFirst DEF RunProgram, IInv, Typed
  <2>1. /\ waiting_procs # << >> /\ waiting_procs \in Seq(Bundles) /\ NumRunning < get_num_procs
        /\ procs' = [procs EXCEPT ![b] = NewProc] /\ UNCHANGED verdicts
        /\ procs \in [Bundles -> Proc]
    BY <1>2 DEF RunProgram, IInv, Typed, results, HasCapacity
  <2>2. Waits(b)
    BY <2>1, TakeFirst DEF Waits
  <2>3. ~b.reduced /\ verdicts[b] = << >>
    BY <2>2 DEF Once, BundleOK
  <2>4. b \in Started' /\ \A c \in Bundles : c # b => procs'[c] = procs[c]
    BY <2>1 DEF Started, NewProc, NoProc
  <2>5. CASE b \in Started
    BY <2>1, <2>3, <2>4, <2>5, StaysOpen
  <2>6. CASE b \notin Started
    <3>1. Cardinality(Pool!OpenSubjects) < get_num_procs
      BY <2>1, <2>6, FewOpen
    <3> QED BY <2>1, <2>3, <2>4, <2>6, <3>1, Opens
  <2> QED BY <2>5, <2>6
<1>3. CASE Ended \/ TimedOut \/ KeepRunning
  <2>1. Checking("decide") /\ procs \in [Bundles -> Proc]
    BY <1>3 DEF Ended, TimedOut, KeepRunning, IInv, Typed
  <2> PICK b \in Bundles : b = Bundle
    BY <2>1, BundleRuns
  <2>2. ~b.reduced /\ b \in Started /\ verdicts[b] = << >>
    BY <2>1, BundleRuns
  <2>3. CASE KeepRunning
    <3>1. UNCHANGED verdicts /\ procs' = [procs EXCEPT ![b] = [procs[b] EXCEPT !.pipe = 0]]
      BY <2>1, <2>3 DEF KeepRunning, results
    <3>2. b \in Started' /\ \A c \in Bundles : c # b => procs'[c] = procs[c]
      BY <2>1, <2>2, <3>1 DEF Started, Proc
    <3> QED BY <2>2, <3>1, <3>2, StaysOpen
  <2>4. CASE TimedOut
    <3>1. procs' = [procs EXCEPT ![b] = kill_properly(procs[b])] /\ Mark(b, "timeout")
      BY <2>1, <2>4 DEF TimedOut
    <3>2. verdicts'[b] # << >> /\ \A c \in Bundles : c # b => verdicts'[c] = verdicts[c]
      <4>1. Len(verdicts'[b]) = 1 /\ verdicts'[b] # << >>
            /\ \A c \in Bundles : c # b => verdicts'[c] = verdicts[c]
        BY <2>2, <3>1, FirstVerdict DEF Once, AllVerdicts
      <4> QED BY <4>1
    <3>3. \A c \in Bundles : c # b => procs'[c] = procs[c]
      BY <2>1, <3>1
    <3> QED BY <2>2, <3>2, <3>3, Judges
  <2>5. CASE Ended
    <3>1. procs' = [procs EXCEPT ![b] = [procs[b] EXCEPT !.pipe = 0, !.exit = 1]]
      BY <2>1, <2>5 DEF Ended
    <3>2. b \in Started' /\ \A c \in Bundles : c # b => procs'[c] = procs[c]
      BY <2>1, <2>2, <3>1 DEF Started, Proc
    <3>3. Outcome(b, <<Onward>> \o Tail(stack))
      BY <2>5, EndedOutcome
    <3>4. CASE UNCHANGED verdicts
      BY <2>2, <3>2, <3>4, StaysOpen
    <3>5. ASSUME NEW v \in AllVerdicts, Mark(b, v) PROVE Pool!Next
      <4>1. verdicts'[b] # << >> /\ \A c \in Bundles : c # b => verdicts'[c] = verdicts[c]
        BY <2>2, <3>5, FirstVerdict DEF Once
      <4> QED BY <2>2, <3>2, <4>1, Judges
    <3> QED BY <3>3, <3>4, <3>5 DEF Outcome, AllVerdicts
  <2> QED BY <1>3, <2>3, <2>4, <2>5
<1>4. ASSUME NEW b \in Bundles, Program(b)
      PROVE  \A s \in Subjects : StatusOf(s)' = StatusOf(s)
  <2>1. /\ procs[b].is = "runs" /\ UNCHANGED verdicts
        /\ procs \in [Bundles -> Proc] /\ procs[b] \in Proc
    BY <1>4 DEF Program, Write, Exit, results, IInv, Typed
  <2>2. Runs(b) /\ b \in Started
    BY <2>1 DEF IInv, Listed, Running, Runs, Started
  <2>3. ~b.reduced /\ verdicts[b] = << >>
    BY <2>2 DEF Once, BundleOK
  <2>4. b \in Started' /\ \A c \in Bundles : c # b => procs'[c] = procs[c]
    <3>1. CASE Write(b)
      BY <2>1, <3>1 DEF Write, Started, Proc
    <3>2. ASSUME NEW code \in {0, 1}, Exit(b, code)
          PROVE  b \in Started' /\ \A c \in Bundles : c # b => procs'[c] = procs[c]
      BY <2>1, <3>2 DEF Exit, Started, Proc
    <3> QED BY <1>4, <3>1, <3>2 DEF Program
  <2> QED BY <2>1, <2>2, <2>3, <2>4, StaysOpen
<1>5. ~ReduceFailure
  BY Below DEF ReduceFailure, In
<1>6. ASSUME RunTest \/ FinishTest \/ RunOutAllProcs \/ CheckCapacity \/ StartWaiting
             \/ StopRunning \/ StartCheck \/ StopCheck \/ Poll
      PROVE  UNCHANGED <<procs, verdicts>>
  BY <1>6 DEF RunTest, FinishTest, RunOutAllProcs, CheckCapacity, StartWaiting,
    StopRunning, StartCheck, StopCheck, Poll, results
<1>7. ASSUME NEW b \in Bundles, TimePasses(b) PROVE UNCHANGED <<procs, verdicts>>
  BY <1>7 DEF TimePasses, results
<1>8. UNCHANGED vars => UNCHANGED <<procs, verdicts>>
  BY DEF vars, results
<1>9. ASSUME NEW b \in Bundles, OrphanEnds(b)
      PROVE  \A s \in Subjects : StatusOf(s)' = StatusOf(s)
  <2>1. /\ procs[b].is = "orphan" /\ procs[b] \in Proc /\ UNCHANGED verdicts
        /\ procs' = [procs EXCEPT ![b] = [procs[b] EXCEPT !.is = "killed"]]
        /\ procs \in [Bundles -> Proc]
    BY <1>9 DEF OrphanEnds, results, IInv, Typed
  <2>2. /\ procs'[b].is = "killed" /\ NoProc.is = "none"
        /\ \A c \in Bundles : c # b => procs'[c] = procs[c]
    BY <2>1 DEF Proc, NoProc
  <2>3. \A c \in Bundles : procs'[c] # NoProc <=> procs[c] # NoProc
    BY <2>1, <2>2
  <2>4. \A s \in Subjects : Test(s) \in Bundles
    BY DEF Test, Bundles
  <2> QED BY <2>1, <2>3, <2>4 DEF StatusOf
<1> QED
  BY <1>1, <1>2, <1>3, <1>4, <1>5, <1>6, <1>7, <1>8, <1>9 DEF Next, Framework

(* Without --reduce the framework does what a TestPool may do, for any     *)
(* number of tests and processors: each subject is opened once and judged  *)
(* once, and no more are open than programs may run.                       *)
THEOREM Implements == Spec => ImplementsPool
<1>1. Init => Pool!Init
  <2> SUFFICES ASSUME Init, NEW s \in Subjects PROVE StatusOf(s) = "queued"
    BY DEF Pool!Init
  <2>1. Test(s) \notin Started
    BY DEF Init, NoProc, Started
  <2> QED BY <2>1, InitOnce, Statuses DEF StatusesOK
<1>2. IInv /\ PoolInv /\ [Next]_vars =>
        [~opt_reduce => Pool!Next \/ UNCHANGED [s \in Subjects |-> StatusOf(s)]]_vars
  <2> SUFFICES ASSUME IInv, PoolInv, [Next]_vars, ~opt_reduce
               PROVE  Pool!Next \/ UNCHANGED [s \in Subjects |-> StatusOf(s)]
    OBVIOUS
  <2>1. CASE UNCHANGED session
    <3>1. Once /\ Once'
      BY <2>1, NextPoolInv DEF PoolInv, opt_reduce
    <3> QED BY <3>1, PoolStep
  <2>2. session' = session
    BY DEF Next, Framework, RunTest, FinishTest, RunOutAllProcs, CheckCapacity, StartWaiting,
      RunProgram, StopRunning, StartCheck, StopCheck, Poll, Ended, TimedOut, KeepRunning,
      ReduceFailure, Program, Write, Exit, OrphanEnds, TimePasses, vars
  <2> QED BY <2>1, <2>2
<1> QED
  BY <1>1, <1>2, PoolInvHolds, PTL DEF Spec, ImplementsPool
=============================================================================
