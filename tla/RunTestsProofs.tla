---------------------------- MODULE RunTestsProofs ----------------------------
(***************************************************************************)
(* The safety properties of RunTests, for any number of cases and of       *)
(* interrupts.  The invariant says of each case what the runner may rely   *)
(* on: a pair that has not started waits, a pair that is behind the runner *)
(* has only processes that SIGKILL was sent to, the process it holds is    *)
(* that of the case under way, a Ctrl-C no handler met is on its way out,  *)
(* and a code that is about to be recorded is true.                        *)
(***************************************************************************)
EXTENDS RunTests, TLAPS

PairOK(p) ==
  /\ p \in Case!Pair
  /\ p.parent = "none" => p.child = "none"
  /\ p.parent = "pass" => p.child = "pass"

NotYet ==
  \A c \in CaseIndex : c > case \/ (c = case /\ pc = "popen") => group[c] = Case!Waiting

AllDoomed(c) == \A m \in Member : group[c][m] = "running" => <<c, m>> \in doomed

RunnerInv ==
  /\ process \in {None, case}
  /\ pc \in {"wait", "kill_timeout", "reap_timeout", "kill_interrupt", "reap_interrupt"} => process = case
  /\ pc = "popen" => process = None
  /\ pc \in {"next", "done"} => ~raising
  /\ unguarded => pc = "raised" \/ (pc = "finally" /\ raising)
  /\ pc = "finally" /\ ~unguarded =>
       \/ process = case /\ group[case].parent \notin {"none", "running"}
       \/ \A m \in Member : group[case][m] # "running"

DoomedInv ==
  \A c \in CaseIndex :
    c < case \/ (~unguarded /\ c = case /\ pc \in {"next", "raised", "done"}) => AllDoomed(c)

CodesInv ==
  /\ Len(codes) = IF pc = "done" THEN case ELSE case - 1
  /\ pc = "done" => case = Cases
  /\ \A i \in DOMAIN codes : codes[i] = 0 => Passed(i)
  /\ pc = "next" \/ (pc = "finally" /\ ~raising) => (code = 0 => Passed(case))

PairsOK == \A c \in CaseIndex : PairOK(group[c])

IInv == TypeOK /\ PairsOK /\ NotYet /\ RunnerInv /\ DoomedInv /\ CodesInv
-------------------------------------------------------------------------------
\* What a step of its own, or SIGKILL, can make of a case: it ends or goes on,
\* and what has ended stays as it is.
Moves(p, q) ==
  /\ PairOK(q)
  /\ p.parent # "none" /\ q.parent # "none"
  /\ p.parent # "running" => q.parent = p.parent
  /\ p.child \notin {"none", "running"} => q.child = p.child
  /\ \A m \in Member : q[m] = "running" => p[m] = "running" \/ p.parent = "running"

LEMMA ParentMoves ==
  ASSUME NEW p, PairOK(p), NEW q \in Case!ParentSteps(p)
  PROVE  Moves(p, q) /\ p.parent = "running"
<1> USE DEF PairOK, Case!Pair, Case!Status, Case!Ended
<1>1. p.parent = "running"
  BY DEF Case!ParentSteps
<1>2. CASE \E v \in Case!Verdicts(p.child) : q = [p EXCEPT !.parent = v]
  BY <1>1, <1>2 DEF Case!Verdicts, Moves, Member
<1>3. CASE p.child = "none" /\ q = [p EXCEPT !.child = "running"]
  BY <1>1, <1>3 DEF Moves, Member
<1> QED BY <1>1, <1>2, <1>3 DEF Case!ParentSteps

LEMMA ChildMoves ==
  ASSUME NEW p, PairOK(p), NEW q \in Case!ChildSteps(p)
  PROVE  Moves(p, q) /\ p.child = "running"
<1> USE DEF PairOK, Case!Pair, Case!Status, Case!Ended
<1>1. p.child = "running"
  BY DEF Case!ChildSteps
<1>2. PICK v \in {"pass", "fail", "killed"} : q = [p EXCEPT !.child = v]
  BY DEF Case!ChildSteps
<1> QED BY <1>1, <1>2 DEF Moves, Member

\* A process of case c moves it so; a case whose living processes all have
\* SIGKILL coming takes no other step.
LEMMA CaseSteps ==
  ASSUME TypeOK, PairsOK, NEW c \in CaseIndex, NEW m \in Member, Acts(c, m) \/ DiesOf9(c, m)
  PROVE  /\ UNCHANGED <<runner, case, codes, doomed, interrupts, unguarded>>
         /\ \E q : /\ group' = [group EXCEPT ![c] = q] /\ Moves(group[c], q)
                   /\ AllDoomed(c) => \A n \in Member : q[n] = "running" => group[c][n] = "running"
<1>1. PairOK(group[c])
  BY DEF PairsOK
<1>2. CASE Acts(c, m)
  <2>1. m = "parent" \/ m = "child"
    BY DEF Member
  <2>2. PICK q \in IF m = "parent" THEN Case!ParentSteps(group[c]) ELSE Case!ChildSteps(group[c]) :
          group' = [group EXCEPT ![c] = q]
    BY <1>2 DEF Acts
  <2>3. Moves(group[c], q) /\ group[c][m] = "running"
    BY <1>1, <2>1, <2>2, ParentMoves, ChildMoves
  <2>4. ~AllDoomed(c)
    BY <1>2, <2>3 DEF Acts, AllDoomed
  <2> QED BY <1>2, <2>2, <2>3, <2>4 DEF Acts
<1>3. CASE DiesOf9(c, m)
  <2> DEFINE q == [group[c] EXCEPT ![m] = "killed"]
  <2>1. group' = [group EXCEPT ![c] = q] /\ group[c][m] = "running"
    BY <1>3 DEF DiesOf9, Alive
  <2>2. Moves(group[c], q) /\ \A n \in Member : q[n] = "running" => group[c][n] = "running"
    BY <1>1, <2>1 DEF Moves, PairOK, Case!Pair, Case!Status, Case!Ended, Member
  <2> QED BY <1>3, <2>1, <2>2 DEF DiesOf9
<1> QED BY <1>2, <1>3

LEMMA CodesDomain ==
  ASSUME TypeOK
  PROVE  Len(codes) \in Nat /\ DOMAIN codes = 1 .. Len(codes) /\ DOMAIN codes \subseteq CaseIndex
<1>1. codes \in Seq({0, 1, 2, 124, 127, -9}) /\ Len(codes) <= Cases
  BY DEF TypeOK
<1>2. Len(codes) \in Nat /\ DOMAIN codes = 1 .. Len(codes)
  BY <1>1
<1> QED BY <1>1, <1>2, CasesAssumption DEF CaseIndex

\* Every part of the invariant survives a step of a case.
LEMMA CasesKeep ==
  ASSUME IInv, NEW c \in CaseIndex, NEW m \in Member, Acts(c, m) \/ DiesOf9(c, m)
  PROVE  IInv'
<1>1. PICK q : /\ group' = [group EXCEPT ![c] = q] /\ Moves(group[c], q)
               /\ AllDoomed(c) => \A n \in Member : q[n] = "running" => group[c][n] = "running"
  BY CaseSteps DEF IInv
<1>2. UNCHANGED <<runner, case, codes, doomed, interrupts, unguarded>>
  BY CaseSteps DEF IInv
<1>3. \A d \in CaseIndex : group[d]' = IF d = c THEN q ELSE group[d]
  BY <1>1 DEF IInv, TypeOK
<1>4. PairOK(group[c]) /\ PairOK(q) /\ case \in CaseIndex
  BY <1>1 DEF Moves, IInv, PairsOK, TypeOK
<1>5. TypeOK'
  BY <1>1, <1>2, <1>4 DEF IInv, TypeOK, runner, PairOK
<1>6. PairsOK'
  BY <1>3, <1>4 DEF IInv, PairsOK
<1>7. NotYet'
  BY <1>1, <1>2, <1>3 DEF IInv, NotYet, runner, Moves, Case!Waiting
<1>8. RunnerInv'
  <2>1. group[case].parent \notin {"none", "running"} => group'[case'].parent \notin {"none", "running"}
    BY <1>1, <1>2, <1>3, <1>4 DEF Moves
  <2>2. (\A n \in Member : group[case][n] # "running") => \A n \in Member : group'[case'][n] # "running"
    BY <1>1, <1>2, <1>3, <1>4 DEF Moves, Member
  <2> QED BY <1>2, <2>1, <2>2 DEF IInv, RunnerInv, runner
<1>9. DoomedInv'
  <2>1. \A d \in CaseIndex : AllDoomed(d) => AllDoomed(d)'
    BY <1>1, <1>2, <1>3 DEF AllDoomed
  <2> QED BY <1>2, <2>1 DEF IInv, DoomedInv, runner
<1>10. CodesInv'
  <2>1. \A d \in CaseIndex : Passed(d) => Passed(d)'
    BY <1>1, <1>3 DEF Passed, Moves
  <2>2. DOMAIN codes \subseteq CaseIndex
    BY CodesDomain DEF IInv
  <2> QED BY <1>2, <1>4, <2>1, <2>2 DEF IInv, CodesInv, runner
<1> QED BY <1>5, <1>6, <1>7, <1>8, <1>9, <1>10 DEF IInv

-------------------------------------------------------------------------------
\* The steps of the runner that leave the cases to themselves.
LEMMA RunnerKeepsCases ==
  ASSUME IInv, UNCHANGED <<group, case>>, pc # "popen", pc' # "popen"
  PROVE  PairsOK' /\ NotYet'
BY DEF IInv, PairsOK, NotYet

LEMMA KeepsBehind ==
  ASSUME DoomedInv, UNCHANGED <<group, case>>, doomed \subseteq doomed', unguarded => unguarded',
         ~unguarded' /\ pc' \in {"next", "raised", "done"} => AllDoomed(case)'
  PROVE  DoomedInv'
<1>1. \A c \in CaseIndex : AllDoomed(c) => AllDoomed(c)'
  BY DEF AllDoomed
<1> QED BY <1>1 DEF DoomedInv

LEMMA PopenKeeps ==
  ASSUME IInv, Popen PROVE IInv'
<1> USE DEF IInv, Popen
<1>1. /\ case \in CaseIndex /\ group[case] = Case!Waiting /\ pc = "popen"
      /\ process = None /\ ~unguarded
  BY DEF TypeOK, NotYet, RunnerInv
<1>2. \A d \in CaseIndex : group'[d] = group[d] \/ (d = case /\ group'[d] = Case!Started)
  BY <1>1 DEF TypeOK
<1>3. PairOK(Case!Started)
  BY DEF PairOK, Case!Started, Case!Pair, Case!Status, Case!Ended
<1>4. TypeOK'
  <2>1. group' \in [CaseIndex -> Case!Pair]
    BY <1>1, <1>3 DEF TypeOK, PairOK
  <2>2. code' \in {0, 1, 2, 124, 127, -9} /\ process' \in CaseIndex \cup {None}
    BY DEF TypeOK
  <2> QED BY <1>1, <2>1, <2>2 DEF TypeOK
<1>5. PairsOK' /\ NotYet'
  BY <1>1, <1>2, <1>3 DEF PairsOK, NotYet, CaseIndex, TypeOK
<1>6. RunnerInv'
  BY <1>1 DEF RunnerInv, Member, Case!Waiting
<1>7. DoomedInv'
  BY <1>1, <1>2 DEF DoomedInv, AllDoomed, CaseIndex, TypeOK
<1>8. CodesInv'
  <2>1. \A i \in DOMAIN codes : i \in CaseIndex /\ i < case
    BY <1>1, CodesDomain DEF CodesInv, TypeOK, CaseIndex
  <2>2. \A i \in DOMAIN codes : Passed(i) => Passed(i)'
    BY <1>1, <1>2, <2>1 DEF Passed, CaseIndex
  <2> QED BY <1>1, <2>2 DEF CodesInv
<1> QED BY <1>4, <1>5, <1>6, <1>7, <1>8

LEMMA ReturnCodes ==
  ASSUME NEW status
  PROVE  ReturnCode(status) \in {0, 1, 2, -9} /\ (ReturnCode(status) = 0 <=> status = "pass")
<1>1. CASE status = "pass" BY <1>1 DEF ReturnCode
<1>2. CASE status = "fail" BY <1>2 DEF ReturnCode
<1>3. CASE status = "launch_error" BY <1>3 DEF ReturnCode
<1>4. CASE status \notin {"pass", "fail", "launch_error"} BY <1>4 DEF ReturnCode
<1> QED BY <1>1, <1>2, <1>3, <1>4

LEMMA WaitKeeps ==
  ASSUME IInv, WaitReturns \/ WaitExpires PROVE IInv'
<1> USE DEF IInv, WaitReturns, WaitExpires
<1>0. WaitReturns => code' \in {0, 1, 2, -9} /\ (code' = 0 <=> group[case].parent = "pass")
  <2>1. WaitReturns => code' = ReturnCode(group[case].parent)
    BY DEF RunnerInv
  <2> QED BY <2>1, ReturnCodes
<1>1. TypeOK'
  <2>1. code' \in {0, 1, 2, 124, 127, -9} /\ pc' \in {"finally", "kill_timeout"}
    BY <1>0 DEF TypeOK
  <2>2. UNCHANGED <<process, raising, case, codes, group, doomed, interrupts, unguarded>>
    OBVIOUS
  <2> QED BY <2>1, <2>2 DEF TypeOK
<1>2. PairsOK' /\ NotYet'
  BY RunnerKeepsCases
<1>3. RunnerInv'
  BY DEF RunnerInv, ParentEnded
<1>4. DoomedInv'
  BY KeepsBehind
<1>5. CodesInv'
  <2>1. WaitReturns => (code' = 0 => Passed(case))
    BY <1>0 DEF Passed, PairsOK, PairOK, TypeOK
  <2> QED BY <2>1 DEF CodesInv, Passed
<1> QED BY <1>1, <1>2, <1>3, <1>4, <1>5

LEMMA KillKeeps ==
  ASSUME IInv, KillPg PROVE IInv'
<1> USE DEF IInv, KillPg
<1>1. TypeOK'
  <2>1. process = case /\ case \in CaseIndex
    BY DEF RunnerInv, TypeOK
  <2> QED BY <2>1 DEF TypeOK, KillGroup, Alive
<1>2. PairsOK' /\ NotYet'
  BY RunnerKeepsCases
<1>3. RunnerInv'
  BY DEF RunnerInv, ParentEnded
<1>4. DoomedInv'
  BY KeepsBehind DEF KillGroup, RunnerInv
<1>5. CodesInv'
  BY DEF CodesInv, Passed
<1> QED BY <1>1, <1>2, <1>3, <1>4, <1>5

LEMMA ReapKeeps ==
  ASSUME IInv, Reap PROVE IInv'
<1> USE DEF IInv, Reap
<1>1. TypeOK'
  BY DEF TypeOK, TimeoutCode
<1>2. PairsOK' /\ NotYet'
  BY RunnerKeepsCases
<1>3. RunnerInv'
  BY DEF RunnerInv, ParentEnded
<1>4. DoomedInv'
  BY KeepsBehind
<1>5. CodesInv'
  BY DEF CodesInv, Passed, TimeoutCode
<1> QED BY <1>1, <1>2, <1>3, <1>4, <1>5

\* A Ctrl-C while Popen is at work may come before or after the fork.
LEMMA InterruptKeeps ==
  ASSUME IInv, Interrupt PROVE IInv'
<1> USE DEF IInv, Interrupt
<1>0. UNCHANGED <<process, code, case, codes, doomed>> /\ (unguarded => unguarded')
  BY DEF TypeOK
<1>1. PairOK(Case!Started)
  BY DEF PairOK, Case!Started, Case!Pair, Case!Status, Case!Ended
<1>2. group' = group \/ (pc = "popen" /\ group' = [group EXCEPT ![case] = Case!Started])
  OBVIOUS
<1>3. case \in CaseIndex
  BY DEF TypeOK
<1>4. \A d \in CaseIndex :
        group'[d] = group[d] \/ (pc = "popen" /\ d = case /\ group'[d] = Case!Started)
  BY <1>2 DEF TypeOK
<1>5. TypeOK'
  <2>1. group' \in [CaseIndex -> Case!Pair]
    BY <1>1, <1>2, <1>3 DEF TypeOK, PairOK
  <2>2. interrupts' \in 0 .. MaxInterrupts
    BY MaxInterruptsAssumption DEF TypeOK
  <2>3. pc' \in {"finally", "raised", "kill_interrupt"} /\ raising' \in BOOLEAN /\ unguarded' \in BOOLEAN
    BY DEF TypeOK
  <2> QED BY <1>0, <2>1, <2>2, <2>3 DEF TypeOK
<1>6. PairsOK' /\ NotYet'
  BY <1>0, <1>1, <1>3, <1>4 DEF PairsOK, NotYet, CaseIndex, TypeOK
<1>7. RunnerInv'
  <2>1. CASE pc = "popen"
    BY <1>0, <2>1 DEF RunnerInv
  <2>2. CASE pc # "popen"
    BY <1>0, <1>2, <2>2 DEF RunnerInv, ParentEnded
  <2> QED BY <2>1, <2>2
<1>8. DoomedInv'
  <2>1. CASE pc = "popen"
    <3>1. \A c \in CaseIndex : c < case => group'[c] = group[c]
      BY <1>3, <1>4 DEF CaseIndex
    <3> QED BY <1>0, <2>1, <3>1 DEF DoomedInv, AllDoomed
  <2>2. CASE pc # "popen"
    BY <1>0, <1>2, <2>2 DEF DoomedInv, AllDoomed
  <2> QED BY <2>1, <2>2
<1>9. CodesInv'
  <2>1. \A i \in DOMAIN codes : i \in CaseIndex /\ (pc = "popen" => i < case)
    BY <1>3, CodesDomain DEF CodesInv, TypeOK, CaseIndex
  <2>2. \A i \in DOMAIN codes : Passed(i) => Passed(i)'
    BY <1>3, <1>4, <2>1 DEF Passed, CaseIndex
  <2> QED BY <1>0, <2>2 DEF CodesInv
<1> QED BY <1>5, <1>6, <1>7, <1>8, <1>9

\* Where the runner knows a parent that has ended, it kills the rest of the group;
\* where it knows none, there is nobody.
LEMMA FinallyKeeps ==
  ASSUME IInv, Finally PROVE IInv'
<1> USE DEF IInv, Finally
<1>0. /\ pc = "finally" /\ case \in CaseIndex /\ process \in CaseIndex \cup {None}
      /\ UNCHANGED <<process, raising, code, case, codes, group, interrupts, unguarded>>
  BY DEF TypeOK
<1>1. doomed \subseteq doomed' /\ doomed' \subseteq CaseIndex \X Member
  BY <1>0 DEF TypeOK, MustKill, KillGroup, Alive
<1>2. TypeOK'
  BY <1>0, <1>1 DEF TypeOK, AfterFinally
<1>3. PairsOK' /\ NotYet'
  BY <1>0, RunnerKeepsCases DEF AfterFinally
<1>4. RunnerInv'
  BY <1>0 DEF RunnerInv, AfterFinally
<1>5. ~unguarded => AllDoomed(case)'
  <2>1. CASE MustKill
    <3>1. process = case
      BY <2>1 DEF MustKill, RunnerInv
    <3>2. doomed' = doomed \cup ({case} \X Alive(case))
      BY <2>1, <3>1 DEF KillGroup
    <3> QED BY <1>0, <3>2 DEF AllDoomed, Alive
  <2>2. CASE ~MustKill
    <3>1. case # None
      BY <1>0 DEF CaseIndex, None
    <3>2. ~unguarded => \A m \in Member : group[case][m] # "running"
      BY <1>0, <2>2, <3>1 DEF MustKill, ParentEnded, RunnerInv
    <3> QED BY <1>0, <3>2 DEF AllDoomed
  <2> QED BY <2>1, <2>2
<1>6. DoomedInv'
  BY <1>0, <1>1, <1>5, KeepsBehind
<1>7. CodesInv'
  BY <1>0 DEF CodesInv, Passed, AfterFinally
<1> QED BY <1>2, <1>3, <1>4, <1>6, <1>7

LEMMA RecordKeeps ==
  ASSUME IInv, Record PROVE IInv'
<1> USE DEF IInv, Record
<1>0. /\ pc = "next" /\ case \in CaseIndex /\ Cases \in Nat \ {0}
      /\ UNCHANGED <<raising, code, group, doomed, interrupts, unguarded>>
  BY CasesAssumption DEF TypeOK
<1>1. \/ case' = case + 1 /\ case < Cases /\ pc' = "popen" /\ process' = None
      \/ UNCHANGED <<case, process>> /\ pc' = "done" /\ case = Cases
  BY <1>0 DEF MoreCases, CaseIndex
<1>2. /\ codes' = Append(codes, code) /\ Len(codes) = case - 1
      /\ codes \in Seq({0, 1, 2, 124, 127, -9}) /\ code \in {0, 1, 2, 124, 127, -9}
  BY <1>0 DEF CodesInv, TypeOK
<1>3. /\ codes' \in Seq({0, 1, 2, 124, 127, -9}) /\ Len(codes') = case
      /\ DOMAIN codes' = 1 .. case
      /\ \A i \in 1 .. case - 1 : codes'[i] = codes[i]
      /\ codes'[case] = code
  BY <1>0, <1>2 DEF CaseIndex
<1>4. case' \in CaseIndex
  BY <1>0, <1>1 DEF CaseIndex
<1>5. TypeOK'
  <2>1. pc' \in {"popen", "done"} /\ process' \in CaseIndex \cup {None}
    BY <1>1 DEF TypeOK
  <2>2. Len(codes') <= Cases
    BY <1>0, <1>3 DEF CaseIndex
  <2> QED BY <1>0, <1>3, <1>4, <2>1, <2>2 DEF TypeOK
<1>6. PairsOK' /\ NotYet'
  BY <1>0, <1>1 DEF PairsOK, NotYet, CaseIndex
<1>7. RunnerInv'
  BY <1>0, <1>1 DEF RunnerInv
<1>8. DoomedInv'
  BY <1>0, <1>1 DEF DoomedInv, RunnerInv, AllDoomed, CaseIndex
<1>9. CodesInv'
  <2>1. \A i \in 1 .. case : codes'[i] = 0 => Passed(i)'
    <3> SUFFICES ASSUME NEW i \in 1 .. case, codes'[i] = 0 PROVE Passed(i)'
      OBVIOUS
    <3>1. CASE i = case
      BY <1>0, <1>3, <3>1 DEF CodesInv, Passed
    <3>2. CASE i # case
      <4>1. i \in 1 .. case - 1 /\ i \in DOMAIN codes
        BY <1>0, <1>2, <3>2, CodesDomain DEF CaseIndex
      <4> QED BY <1>0, <1>3, <4>1 DEF CodesInv, Passed
    <3> QED BY <3>1, <3>2
  <2> QED BY <1>0, <1>1, <1>3, <2>1 DEF CodesInv, CaseIndex
<1> QED BY <1>5, <1>6, <1>7, <1>8, <1>9
-------------------------------------------------------------------------------
LEMMA InvInit == Init => IInv
<1> SUFFICES ASSUME Init PROVE IInv
  OBVIOUS
<1> USE DEF Init
<1>1. 1 \in CaseIndex /\ \A c \in CaseIndex : c >= 1
  BY CasesAssumption DEF CaseIndex
<1>2. PairOK(Case!Waiting)
  BY DEF PairOK, Case!Waiting, Case!Pair, Case!Status, Case!Ended
<1>3. codes \in Seq({0, 1, 2, 124, 127, -9}) /\ Len(codes) = 0 /\ DOMAIN codes = {}
  OBVIOUS
<1>4. TypeOK
  <2>1. group \in [CaseIndex -> Case!Pair]
    BY <1>2 DEF PairOK
  <2>2. interrupts \in 0 .. MaxInterrupts /\ Len(codes) <= Cases
    BY <1>3, CasesAssumption, MaxInterruptsAssumption
  <2> QED BY <1>1, <1>3, <2>1, <2>2 DEF TypeOK
<1>5. PairsOK /\ NotYet /\ RunnerInv
  BY <1>2 DEF PairsOK, NotYet, RunnerInv
<1>6. DoomedInv /\ CodesInv
  BY <1>1, <1>3 DEF DoomedInv, CodesInv
<1> QED BY <1>4, <1>5, <1>6 DEF IInv

LEMMA InvNext == IInv /\ [Next]_vars => IInv'
<1> SUFFICES ASSUME IInv, [Next]_vars PROVE IInv'
  OBVIOUS
<1>1. CASE RunnerStep
  BY <1>1, PopenKeeps, WaitKeeps, KillKeeps, ReapKeeps, FinallyKeeps, RecordKeeps DEF RunnerStep
<1>2. CASE Interrupt
  BY <1>2, InterruptKeeps
<1>3. CASE \E c \in CaseIndex, m \in Member : Acts(c, m) \/ DiesOf9(c, m)
  BY <1>3, CasesKeep
<1>4. CASE UNCHANGED vars
  <2>1. UNCHANGED <<pc, process, raising, code, case, codes, group, doomed, interrupts, unguarded>>
    BY <1>4 DEF vars, runner
  <2>2. TypeOK' /\ PairsOK' /\ NotYet'
    BY <2>1 DEF IInv, TypeOK, PairsOK, NotYet
  <2>3. RunnerInv' /\ DoomedInv' /\ CodesInv'
    BY <2>1 DEF IInv, RunnerInv, DoomedInv, AllDoomed, CodesInv, Passed
  <2> QED BY <2>2, <2>3 DEF IInv
<1> QED BY <1>1, <1>2, <1>3, <1>4 DEF Next, Finished

\* The runner and the cases keep the invariant, whatever the cases do.
THEOREM Invariance == Spec => []IInv
BY InvInit, InvNext, PTL DEF Spec

\* run_tests.py 87: no process of a case that is behind the runner goes on
\* unless a Ctrl-C came where no handler was.
THEOREM LeavesNobody == Spec => []NothingLeftRunning
<1>1. IInv => NothingLeftRunning
  <2> SUFFICES ASSUME IInv, ~unguarded, NEW c \in CaseIndex,
                      c < case \/ pc \in {"next", "raised", "done"}, NEW m \in Alive(c)
               PROVE  <<c, m>> \in doomed
    BY DEF NothingLeftRunning
  <2>1. m \in Member /\ group[c][m] = "running"
    BY DEF Alive
  <2>2. ~(c > case)
    BY <2>1 DEF IInv, NotYet, Case!Waiting, Member
  <2>3. c < case \/ c = case
    BY <2>2 DEF IInv, TypeOK, CaseIndex
  <2> QED BY <2>1, <2>3 DEF IInv, DoomedInv, AllDoomed
<1> QED BY <1>1, Invariance, PTL

\* run_tests.py 90-96: a recorded 0 is a case that passed, and exit status 0
\* stands for all of them.
THEOREM CodesTell == Spec => []CodesAreTrue
<1>1. IInv => CodesAreTrue
  <2> SUFFICES ASSUME IInv PROVE CodesAreTrue
    OBVIOUS
  <2>1. \A i \in DOMAIN codes : codes[i] = 0 => Passed(i)
    BY DEF IInv, CodesInv
  <2>2. pc = "done" => DOMAIN codes = CaseIndex
    BY CodesDomain DEF IInv, CodesInv, CaseIndex
  <2> QED BY <2>1, <2>2 DEF CodesAreTrue, ExitStatus
<1> QED BY <1>1, Invariance, PTL

\* run_tests.py 60-92: wherever a Ctrl-C strikes, only the case under way may
\* be left running, and no other is started after it.
THEOREM NeverSideBySide == Spec => []OneCaseAtATime
<1>1. IInv => OneCaseAtATime
  <2> SUFFICES ASSUME IInv, NEW c \in CaseIndex, c # case, NEW m \in Alive(c)
               PROVE  <<c, m>> \in doomed
    BY DEF OneCaseAtATime
  <2>1. m \in Member /\ group[c][m] = "running"
    BY DEF Alive
  <2>2. ~(c > case)
    BY <2>1 DEF IInv, NotYet, Case!Waiting, Member
  <2>3. c < case
    BY <2>2 DEF IInv, TypeOK, CaseIndex
  <2> QED BY <2>1, <2>3 DEF IInv, DoomedInv, AllDoomed
<1> QED BY <1>1, Invariance, PTL
===============================================================================
