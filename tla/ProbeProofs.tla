---------------------------- MODULE ProbeProofs ----------------------------
(***************************************************************************)
(* probe.rs, for any number of callers and any positive timeouts: a wait   *)
(* is bounded, and a server found dead is not probed by newcomers.         *)
(***************************************************************************)
EXTENDS Probe, TLAPS

(* An attempt's deadline lies within its patience, the sleep before it ends *)
(* in time, and time does not pass a deadline that is awaited.              *)
InTime(c) ==
  /\ pc[c] \in {"connecting", "sleeping"} => deadline[c] <= started[c] + Longer(c)
  /\ pc[c] = "connecting" => clock <= deadline[c]
  /\ pc[c] = "sleeping" => clock <= wake[c] /\ wake[c] < deadline[c]

(* Who has said that the server is dead has left it in the memory.          *)
Told(c) ==
  /\ pc[c] = "remember" => result[c] \in Failures
  /\ pc[c] = "done" /\ ~beaten[c] /\ result[c] \in Failures => probed # None

(* Until an attempt returns there is no result, and what the server has     *)
(* answered so far says which deadline counts: once it was full, the        *)
(* acquire timeout, and while it only refused, the first.  Who gave up has  *)
(* waited.                                                                  *)
Attempting == {"connecting", "sleeping"}

Patient(c) ==
  /\ pc[c] \in Attempting \cup {"start"} => result[c] = None
  /\ pc[c] = "start" => answers[c] = {}
  /\ pc[c] \in Attempting => "unreachable" \notin answers[c]
  /\ pc[c] \in Attempting =>
       deadline[c] = started[c] + IF "busy" \in answers[c] THEN BusyTimeout[c]
                                                          ELSE Timeout[c]
  /\ /\ "busy" \in answers[c] /\ "unreachable" \notin answers[c]
     /\ result[c] \in {"busy", "timeout", "unreachable"}
     => ended[c] + Retry >= started[c] + BusyTimeout[c]
  /\ /\ pc[c] \in {"remember", "done"} /\ ~beaten[c]
     /\ answers[c] \subseteq {"refused"}
     /\ result[c] \in {"timeout", "unreachable"}
     => ended[c] + Retry >= started[c] + Timeout[c]

ProbeInv == TypeOK /\ \A c \in Callers : InTime(c) /\ Told(c) /\ Patient(c)

(* The longer timeout is a time, and neither is longer.                     *)
LEMMA LongerTimeouts ==
  \A c \in Callers :
    /\ Longer(c) \in Nat /\ Timeout[c] \in Nat /\ BusyTimeout[c] \in Nat
    /\ Timeout[c] <= Longer(c) /\ BusyTimeout[c] <= Longer(c)
  BY ProbeAssumption DEF Longer

LEMMA InitInv == Init => ProbeInv
  BY NoneAssumption
  DEF Init, ProbeInv, TypeOK, InTime, Told, Patient, Labels, Results, Attempting

(* What an action of one caller leaves alone for another.                   *)
Untouched(d) ==
  /\ pc'[d] = pc[d]
  /\ started'[d] = started[d]
  /\ deadline'[d] = deadline[d]
  /\ wake'[d] = wake[d]
  /\ result'[d] = result[d]
  /\ beaten'[d] = beaten[d]
  /\ ended'[d] = ended[d]
  /\ answers'[d] = answers[d]
  /\ clock' = clock
  /\ probed' = probed \/ probed' # None

LEMMA UntouchedKeeps ==
  ASSUME NEW d \in Callers, InTime(d), Told(d), Patient(d), Untouched(d)
  PROVE  InTime(d)' /\ Told(d)' /\ Patient(d)'
  BY DEF InTime, Told, Patient, Untouched, Longer

(* Every action of a caller keeps the types, its own part of the invariant, *)
(* and everything of the others.                                            *)
Kept(c) ==
  /\ TypeOK'
  /\ InTime(c)' /\ Told(c)' /\ Patient(c)'
  /\ \A d \in Callers \ {c} : Untouched(d)

LEMMA KeptIsEnough ==
  ASSUME ProbeInv, NEW c \in Callers, Kept(c)
  PROVE  ProbeInv'
  BY UntouchedKeeps DEF ProbeInv, Kept

LEMMA CallerKeeps ==
  ASSUME ProbeInv, NEW c \in Callers,
         Recall(c) \/ Start(c) \/ Attempt(c) \/ Own(c)
  PROVE  Kept(c)
<1> USE ProbeAssumption, NoneAssumption, LongerTimeouts
    DEF ProbeInv, TypeOK, InTime, Told, Patient, Untouched, Kept, Goto, Return, Sleep,
        Labels, Results, Failures, Answers, Hears, Attempting
<1> HIDE DEF Longer
<1>1. CASE Recall(c)
  BY <1>1 DEF Recall
<1>2. CASE Start(c)
  BY <1>2 DEF Start
<1>3. CASE Connected(c)
  BY <1>3 DEF Connected
<1>4. CASE Busy(c)
  BY <1>4 DEF Busy
<1>5. CASE Rejected(c)
  BY <1>5 DEF Rejected
<1>6. CASE Refused(c)
  BY <1>6 DEF Refused
<1>7. CASE Unreachable(c)
  BY <1>7 DEF Unreachable
<1>8. CASE TimedOut(c)
  BY <1>8 DEF TimedOut
<1>9. CASE Wake(c)
  BY <1>9 DEF Wake
<1>10. CASE Remember(c)
  BY <1>10 DEF Remember
<1> QED
  BY <1>1, <1>2, <1>3, <1>4, <1>5, <1>6, <1>7, <1>8, <1>9, <1>10
  DEF Attempt, Own

LEMMA StepInv == ProbeInv /\ [Next]_vars => ProbeInv'
<1> SUFFICES ASSUME ProbeInv, [Next]_vars
             PROVE  ProbeInv'
  OBVIOUS
<1>1. ASSUME NEW c \in Callers, Recall(c) \/ Start(c) \/ Attempt(c) \/ Own(c)
      PROVE  ProbeInv'
  BY <1>1, CallerKeeps, KeptIsEnough
<1>2. CASE Tick
  BY <1>2 DEF Tick, ProbeInv, TypeOK, InTime, Told, Patient, Longer
<1>3. CASE UNCHANGED vars
  BY <1>3 DEF vars, ProbeInv, TypeOK, InTime, Told, Patient, Longer
<1> QED
  BY <1>1, <1>2, <1>3 DEF Next, Terminating

LEMMA InvariantHolds == Spec => []ProbeInv
  BY InitInv, StepInv, PTL DEF Spec

(* A test never waits for its connection longer than the longer of its two  *)
(* timeouts, whatever the server answers and when.                          *)
THEOREM WaitBounded == Spec => []WaitIsBounded
<1>1. ProbeInv => WaitIsBounded
  BY LongerTimeouts DEF ProbeInv, TypeOK, InTime, WaitIsBounded
<1> QED
  BY <1>1, InvariantHolds, PTL

(* A server that was once full is not given up before the acquire timeout,  *)
(* less a sleep, if from then on it is only full, refusing or silent.       *)
THEOREM FullWaitedFor == Spec => []FullIsWaitedFor
<1>1. ProbeInv => FullIsWaitedFor
  BY DEF ProbeInv, Patient, FullIsWaitedFor
<1> QED
  BY <1>1, InvariantHolds, PTL

(* A server that only refuses or is silent is not given up before the       *)
(* connect timeout, less a sleep.                                           *)
THEOREM RestartWaitedFor == Spec => []RestartIsWaitedFor
<1>1. ProbeInv => RestartIsWaitedFor
  BY DEF ProbeInv, Patient, RestartIsWaitedFor
<1> QED
  BY <1>1, InvariantHolds, PTL

(* Nobody begins to probe a server that a test has reported dead.           *)
THEOREM DeadIsNotProbed == Spec => ProbedTogether
<1>1. ProbeInv /\ [Next]_vars =>
        [\A c, d \in Callers :
           pc[c] = "start" /\ pc'[c] = "connecting" =>
             ~(pc[d] = "done" /\ ~beaten[d] /\ result[d] \in Failures)]_vars
  <2> SUFFICES ASSUME ProbeInv, Next, NEW c \in Callers, NEW d \in Callers,
                      pc[c] = "start", pc'[c] = "connecting",
                      pc[d] = "done", ~beaten[d], result[d] \in Failures
               PROVE  FALSE
    OBVIOUS
  <2>1. probed = None
    <3>1. ASSUME NEW e \in Callers, Recall(e) \/ Start(e) \/ Attempt(e) \/ Own(e)
          PROVE  probed = None
      BY <3>1 DEF Recall, Start, Attempt, Own, Connected, Busy, Rejected, Refused,
         Unreachable, TimedOut, Wake, Remember, Goto, Return, Sleep, ProbeInv,
         TypeOK
    <3> QED
      BY <3>1 DEF Next, Tick, Terminating, vars
  <2> QED
    BY <2>1 DEF ProbeInv, Told
<1> QED
  BY <1>1, InvariantHolds, PTL DEF Spec, ProbedTogether
=============================================================================
