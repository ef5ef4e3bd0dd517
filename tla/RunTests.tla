------------------------------- MODULE RunTests -------------------------------
(***************************************************************************)
(* run_tests.py main(), lines 60-96: the cases one after another, each a   *)
(* process group of its own, with a timeout, Ctrl-C and a clean-up of what *)
(* an abnormal exit left behind.  A case's two processes follow CasePair,  *)
(* but may also hang for ever; a process that SIGKILL has been sent to     *)
(* takes no further step but to die.                                       *)
(***************************************************************************)
EXTENDS Integers, Sequences

CONSTANTS
  Cases,          \* number of cases
  MaxInterrupts   \* bound on KeyboardInterrupt

ASSUME CasesAssumption == Cases \in Nat \ {0}
ASSUME MaxInterruptsAssumption == MaxInterrupts \in Nat

VARIABLES
  pc,          \* the runner's place in the loop body
  case,        \* index of the case under way
  process,     \* the case whose Popen object the variable process holds, or None
  raising,     \* a KeyboardInterrupt is on its way out
  code,        \* the local variable code
  codes,       \* metadata["cases"]: the return codes in summary.json
  group,       \* of each case: its two processes
  doomed,      \* <<case, member>> that SIGKILL was sent to
  interrupts,  \* Ctrl-C so far
  unguarded    \* one came where no handler kills the group

runner == <<pc, process, raising, code>>
vars == <<runner, case, codes, group, doomed, interrupts, unguarded>>

Case == INSTANCE CasePair WITH pair <- group[case]

CaseIndex == 1 .. Cases
None == 0
Member == {"parent", "child"}
Alive(c) == {m \in Member : group[c][m] = "running"}

TypeOK ==
  /\ pc \in {"popen", "wait", "kill_timeout", "reap_timeout", "kill_interrupt",
             "reap_interrupt", "finally", "next", "raised", "done"}
  /\ case \in CaseIndex
  /\ process \in CaseIndex \cup {None} /\ raising \in BOOLEAN /\ unguarded \in BOOLEAN
  /\ code \in {0, 1, 2, 124, 127, -9}
  /\ codes \in Seq({0, 1, 2, 124, 127, -9}) /\ Len(codes) <= Cases
  /\ group \in [CaseIndex -> Case!Pair]
  /\ doomed \in SUBSET (CaseIndex \X Member)
  /\ interrupts \in 0 .. MaxInterrupts

Init ==
  /\ pc = "popen" /\ case = 1 /\ process = None /\ raising = FALSE
  /\ code = 0 /\ codes = <<>>
  /\ group = [c \in CaseIndex |-> Case!Waiting]
  /\ doomed = {} /\ interrupts = 0 /\ unguarded = FALSE

(***************************************************************************)
(* Popen starts a session of its own, or raises OSError.                   *)
(***************************************************************************)
Popen ==
  /\ pc = "popen"
  /\ \/ /\ group' = [group EXCEPT ![case] = Case!Started]
        /\ process' = case /\ pc' = "wait" /\ UNCHANGED code
     \/ code' = 127 /\ pc' = "finally" /\ UNCHANGED <<group, process>>
  /\ UNCHANGED <<raising, case, codes, doomed, interrupts, unguarded>>

ReturnCode(status) ==
  CASE status = "pass" -> 0 [] status = "fail" -> 1 [] status = "launch_error" -> 2 [] OTHER -> -9

\* process.wait() and process.poll() find, and reap, a parent that has ended.
ParentEnded == group[process].parent \notin {"none", "running"}

(***************************************************************************)
(* process.wait(timeout) returns, or raises TimeoutExpired; the parent may *)
(* still end before the handler gets to kill it.                           *)
(***************************************************************************)
WaitReturns ==
  /\ pc = "wait" /\ ParentEnded
  /\ code' = ReturnCode(group[process].parent) /\ pc' = "finally"
  /\ UNCHANGED <<process, raising, case, codes, group, doomed, interrupts, unguarded>>

WaitExpires ==
  /\ pc = "wait" /\ ~ParentEnded /\ pc' = "kill_timeout"
  /\ UNCHANGED <<process, raising, code, case, codes, group, doomed, interrupts, unguarded>>

(***************************************************************************)
(* os.killpg(process.pid): everyone who is alive in the group of that      *)
(* process; an empty one is passed over.                                   *)
(***************************************************************************)
KillParent == doomed \cup ({process} \X (Alive(process) \cap {"parent"}))   \* mutant: process.kill()
KillNobody == doomed   \* mutant: the signal goes to another group
KillGroup == doomed \cup ({process} \X Alive(process))

KillPg ==
  /\ pc \in {"kill_timeout", "kill_interrupt"}
  /\ doomed' = KillGroup
  /\ pc' = IF pc = "kill_timeout" THEN "reap_timeout" ELSE "reap_interrupt"
  /\ UNCHANGED <<process, raising, code, case, codes, group, interrupts, unguarded>>

(***************************************************************************)
(* process.wait() without a timeout; then code = 124, or raise.            *)
(***************************************************************************)
StaleCode == code   \* mutant: code keeps the value of the case before
TimeoutCode == 124

Reap ==
  /\ pc \in {"reap_timeout", "reap_interrupt"} /\ ParentEnded
  /\ pc' = "finally"
  /\ IF pc = "reap_timeout" THEN code' = TimeoutCode /\ UNCHANGED raising
     ELSE raising' = TRUE /\ UNCHANGED code
  /\ UNCHANGED <<process, case, codes, group, doomed, interrupts, unguarded>>

(***************************************************************************)
(* KeyboardInterrupt.  In the try block it is handled, but while Popen is  *)
(* at work there is no process yet to kill; inside a handler it goes       *)
(* straight to finally, and inside finally it skips the kill.              *)
(***************************************************************************)
Interrupt ==
  /\ interrupts < MaxInterrupts /\ interrupts' = interrupts + 1
  /\ \/ /\ pc = "wait" /\ pc' = "kill_interrupt" /\ UNCHANGED <<raising, unguarded, group>>
     \/ /\ pc = "popen" /\ group' \in {group, [group EXCEPT ![case] = Case!Started]}
        /\ IF process = None THEN pc' = "finally" /\ raising' = TRUE /\ unguarded' = TRUE
           ELSE pc' = "kill_interrupt" /\ UNCHANGED <<raising, unguarded>>
     \/ /\ pc \in {"kill_timeout", "reap_timeout", "kill_interrupt", "reap_interrupt"}
        /\ pc' = "finally" /\ raising' = TRUE /\ unguarded' = TRUE /\ UNCHANGED group
     \/ /\ pc = "finally" /\ pc' = "raised" /\ unguarded' = TRUE /\ UNCHANGED <<raising, group>>
     \/ /\ pc = "next" /\ pc' = "raised" /\ UNCHANGED <<raising, unguarded, group>>
  /\ UNCHANGED <<process, code, case, codes, doomed>>

(***************************************************************************)
(* finally: a parent that has exited must not leave its importer running;  *)
(* an exception on its way out goes on.                                    *)
(***************************************************************************)
MustKill == process # None /\ ParentEnded
FinallyContinues == "next"   \* mutant: the exception is lost in finally
AfterFinally == IF raising THEN "raised" ELSE "next"

Finally ==
  /\ pc = "finally"
  /\ doomed' = IF MustKill THEN KillGroup ELSE doomed
  /\ pc' = AfterFinally
  /\ UNCHANGED <<process, raising, code, case, codes, group, interrupts, unguarded>>

(***************************************************************************)
(* The case is recorded, summary.json rewritten, and the loop goes on with *)
(* process = None.                                                         *)
(***************************************************************************)
MoreCases == case < Cases

Record ==
  /\ pc = "next" /\ codes' = Append(codes, code)
  /\ IF MoreCases
     THEN case' = case + 1 /\ pc' = "popen" /\ process' = None
     ELSE pc' = "done" /\ UNCHANGED <<case, process>>
  /\ UNCHANGED <<raising, code, group, doomed, interrupts, unguarded>>

(***************************************************************************)
(* A process of case c takes a step of CasePair, or dies of its SIGKILL.   *)
(***************************************************************************)
Acts(c, m) ==
  /\ <<c, m>> \notin doomed
  /\ \E p \in IF m = "parent" THEN Case!ParentSteps(group[c]) ELSE Case!ChildSteps(group[c]) :
       group' = [group EXCEPT ![c] = p]
  /\ UNCHANGED <<runner, case, codes, doomed, interrupts, unguarded>>

DiesOf9(c, m) ==
  /\ <<c, m>> \in doomed /\ m \in Alive(c)
  /\ group' = [group EXCEPT ![c][m] = "killed"]
  /\ UNCHANGED <<runner, case, codes, doomed, interrupts, unguarded>>

ExitStatus == IF \E i \in DOMAIN codes : codes[i] # 0 THEN 1 ELSE 0

RunnerStep == Popen \/ WaitReturns \/ WaitExpires \/ KillPg \/ Reap \/ Finally \/ Record

Finished == pc \in {"done", "raised"} /\ UNCHANGED vars

Next == RunnerStep \/ Interrupt \/ Finished
          \/ \E c \in CaseIndex, m \in Member : Acts(c, m) \/ DiesOf9(c, m)

(***************************************************************************)
(* The runner is scheduled, its timeout expires in the end, and SIGKILL    *)
(* takes effect.  Nothing is assumed of a case's own steps.                *)
(***************************************************************************)
Spec ==
  /\ Init /\ [][Next]_vars /\ WF_vars(RunnerStep)
  /\ \A c \in CaseIndex, m \in Member : WF_vars(DiesOf9(c, m))
-------------------------------------------------------------------------------
(***************************************************************************)
(* No case starts, and the runner does not end, while a process of an      *)
(* earlier case lives that SIGKILL was not sent to (line 87: an abnormal   *)
(* parent exit must not leave its importer running).  A KeyboardInterrupt  *)
(* inside a handler or inside Popen is the exception the code leaves.      *)
(***************************************************************************)
NothingLeftRunning ==
  ~unguarded =>
    \A c \in CaseIndex :
      (c < case \/ pc \in {"next", "raised", "done"}) => {c} \X Alive(c) \subseteq doomed

(***************************************************************************)
(* A recorded 0 is a case both of whose processes passed, and the others   *)
(* are not lost: the exit status is 0 only when every case passed.         *)
(***************************************************************************)
Passed(c) == group[c].parent = "pass" /\ group[c].child = "pass"

CodesAreTrue ==
  /\ \A i \in DOMAIN codes : codes[i] = 0 => Passed(i)
  /\ (pc = "done" /\ ExitStatus = 0) => \A c \in CaseIndex : Passed(c)

(***************************************************************************)
(* Two cases never run side by side, wherever a Ctrl-C strikes: what it    *)
(* may leave running is the case under way (lines 75-88), and no other is  *)
(* started after it; of every other case all processes have ended or have  *)
(* been sent SIGKILL.                                                      *)
(***************************************************************************)
OneCaseAtATime == \A c \in CaseIndex \ {case} : {c} \X Alive(c) \subseteq doomed

(***************************************************************************)
(* --timeout is enforced: whatever a case does, the runner ends.           *)
(***************************************************************************)
RunnerEnds == <>(pc \in {"done", "raised"})
===============================================================================
