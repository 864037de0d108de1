------------------------------- MODULE Probe -------------------------------
(***************************************************************************)
(* probe.rs: how a test gets its master connection.  connect retries while *)
(* the server is starting or full, up to a deadline; what proves the       *)
(* server dead, or the URL wrong, is remembered for the process, so that   *)
(* its other tests fail at once.  The callers are the tests of one process *)
(* with one URL, each with a thread and settings of its own.               *)
(*                                                                         *)
(* Labels: start -> (connecting -> sleeping)* -> [remember] -> done        *)
(***************************************************************************)
EXTENDS Integers

CONSTANTS
  Callers,      \* the tests of the process
  Timeout,      \* pool.connect_timeout, per caller
  BusyTimeout,  \* pool.acquire_timeout, per caller
  Retry,        \* RETRY_MILLIS
  LastStart,    \* bound: no test starts later
  MaxTime,      \* bound on the clock
  None          \* no failure remembered

(* Config::from_file rejects zeros for both timeouts.                       *)
ASSUME ProbeAssumption ==
  /\ Timeout \in [Callers -> Nat \ {0}]
  /\ BusyTimeout \in [Callers -> Nat \ {0}]
  /\ Retry \in Nat \ {0}
  /\ LastStart \in Nat
  /\ MaxTime \in Nat

Failures == {"unreachable", "rejected", "timeout"}
Results  == Failures \cup {"connected", "busy"}

(* What the server may answer where an attempt may go on.                   *)
Answers == {"busy", "refused", "unreachable"}

ASSUME NoneAssumption == None \notin Results

VARIABLES
  clock,
  probed,     \* PROBED: the failure remembered for the URL
  pc,
  started, deadline,
  wake,       \* when the sleep between two attempts ends
  result,     \* what attempt, or the memory, gave
  ended,      \* history: when attempt returned
  answers,    \* history: the answers so far that were no connection
  beaten      \* history: a failure was remembered when the caller started

vars == <<clock, probed, pc, started, deadline, wake, result, ended, answers,
          beaten>>

Labels == {"start", "connecting", "sleeping", "remember", "done"}

TypeOK ==
  /\ clock \in Nat
  /\ probed \in Failures \cup {None}
  /\ pc \in [Callers -> Labels]
  /\ started \in [Callers -> Nat]
  /\ deadline \in [Callers -> Nat]
  /\ wake \in [Callers -> Nat]
  /\ result \in [Callers -> Results \cup {None}]
  /\ ended \in [Callers -> Nat]
  /\ answers \in [Callers -> SUBSET Answers]
  /\ beaten \in [Callers -> BOOLEAN]

Init ==
  /\ clock = 0
  /\ probed = None
  /\ pc = [c \in Callers |-> "start"]
  /\ started = [c \in Callers |-> 0]
  /\ deadline = [c \in Callers |-> 0]
  /\ wake = [c \in Callers |-> 0]
  /\ result = [c \in Callers |-> None]
  /\ ended = [c \in Callers |-> 0]
  /\ answers = [c \in Callers |-> {}]
  /\ beaten = [c \in Callers |-> FALSE]

Goto(c, label) == pc' = [pc EXCEPT ![c] = label]

Hears(c, answer) == answers' = [answers EXCEPT ![c] = @ \cup {answer}]

-----------------------------------------------------------------------------
(* connect: the memory is read and unlocked before the first attempt.       *)

Recall(c) ==
  /\ pc[c] = "start"
  /\ probed # None
  /\ Goto(c, "done")
  /\ result' = [result EXCEPT ![c] = probed]
  /\ beaten' = [beaten EXCEPT ![c] = TRUE]
  /\ UNCHANGED <<clock, probed, started, deadline, wake, ended, answers>>

Start(c) ==
  /\ pc[c] = "start"
  /\ probed = None
  /\ clock <= LastStart
  /\ Goto(c, "connecting")
  /\ started' = [started EXCEPT ![c] = clock]
  /\ deadline' = [deadline EXCEPT ![c] = clock + Timeout[c]]
  /\ UNCHANGED <<clock, probed, wake, result, ended, answers, beaten>>

(* attempt returns.                                                         *)
Return(c, what, label) ==
  /\ result' = [result EXCEPT ![c] = what]
  /\ ended' = [ended EXCEPT ![c] = clock]
  /\ Goto(c, label)

Sleep(c) ==
  /\ Goto(c, "sleeping")
  /\ wake' = [wake EXCEPT ![c] = clock + Retry]

Connected(c) ==
  /\ pc[c] = "connecting"
  /\ Return(c, "connected", "done")
  /\ UNCHANGED <<clock, probed, started, deadline, wake, answers, beaten>>

(* Mutant: the deadline counts from the last answer.                        *)
BusyAgain(c) ==
  /\ pc[c] = "connecting"
  /\ Hears(c, "busy")
  /\ deadline' = [deadline EXCEPT ![c] = clock + BusyTimeout[c]]
  /\ \/ clock + Retry < deadline'[c] /\ Sleep(c) /\ UNCHANGED <<result, ended>>
     \/ /\ clock + Retry >= deadline'[c]
        /\ Return(c, "busy", "done")
        /\ UNCHANGED wake
  /\ UNCHANGED <<clock, probed, started, beaten>>

(* The server is up but full: from now on the acquire timeout counts, and   *)
(* when it has passed the error is the caller's own.                        *)
Busy(c) ==
  /\ pc[c] = "connecting"
  /\ Hears(c, "busy")
  /\ deadline' = [deadline EXCEPT ![c] = started[c] + BusyTimeout[c]]
  /\ \/ clock + Retry < deadline'[c] /\ Sleep(c) /\ UNCHANGED <<result, ended>>
     \/ /\ clock + Retry >= deadline'[c]
        /\ Return(c, "busy", "done")
        /\ UNCHANGED wake
  /\ UNCHANGED <<clock, probed, started, beaten>>

Rejected(c) ==
  /\ pc[c] = "connecting"
  /\ Return(c, "rejected", "remember")
  /\ UNCHANGED <<clock, probed, started, deadline, wake, answers, beaten>>

(* Mutant: a refused connection is final.                                   *)
RefusedOnce(c) ==
  /\ pc[c] = "connecting"
  /\ Hears(c, "refused")
  /\ Return(c, "unreachable", "remember")
  /\ UNCHANGED <<clock, probed, started, deadline, wake, beaten>>

(* Mutant: a refusal is judged by the first deadline, whatever came before. *)
RefusedAnew(c) ==
  /\ pc[c] = "connecting"
  /\ Hears(c, "refused")
  /\ \/ /\ clock + Retry < started[c] + Timeout[c]
        /\ Sleep(c)
        /\ UNCHANGED <<result, ended>>
     \/ /\ clock + Retry >= started[c] + Timeout[c]
        /\ Return(c, "unreachable", "remember")
        /\ UNCHANGED wake
  /\ UNCHANGED <<clock, probed, started, deadline, beaten>>

Refused(c) ==
  /\ pc[c] = "connecting"
  /\ Hears(c, "refused")
  /\ \/ clock + Retry < deadline[c] /\ Sleep(c) /\ UNCHANGED <<result, ended>>
     \/ /\ clock + Retry >= deadline[c]
        /\ Return(c, "unreachable", "remember")
        /\ UNCHANGED wake
  /\ UNCHANGED <<clock, probed, started, deadline, beaten>>

(* Not worth another attempt: no such host, or the like.                    *)
Unreachable(c) ==
  /\ pc[c] = "connecting"
  /\ Hears(c, "unreachable")
  /\ Return(c, "unreachable", "remember")
  /\ UNCHANGED <<clock, probed, started, deadline, wake, beaten>>

(* Mutant: the timeout starts another attempt.                              *)
TimedOutAgain(c) ==
  /\ pc[c] = "connecting"
  /\ clock >= deadline[c]
  /\ deadline' = [deadline EXCEPT ![c] = clock + Timeout[c]]
  /\ UNCHANGED <<clock, probed, pc, started, wake, result, ended, answers, beaten>>

TimedOut(c) ==
  /\ pc[c] = "connecting"
  /\ clock >= deadline[c]
  /\ Return(c, "timeout", "remember")
  /\ UNCHANGED <<clock, probed, started, deadline, wake, answers, beaten>>

Wake(c) ==
  /\ pc[c] = "sleeping"
  /\ clock >= wake[c]
  /\ Goto(c, "connecting")
  /\ UNCHANGED <<clock, probed, started, deadline, wake, result, ended,
                 answers, beaten>>

(* Mutant: only a server that cannot be reached is remembered.              *)
RememberUnreachable(c) ==
  /\ pc[c] = "remember"
  /\ probed' = IF result[c] = "unreachable" THEN result[c] ELSE None
  /\ Goto(c, "done")
  /\ UNCHANGED <<clock, started, deadline, wake, result, ended, answers, beaten>>

(* The last failure to come in is the one that stays.                       *)
Remember(c) ==
  /\ pc[c] = "remember"
  /\ probed' = result[c]
  /\ Goto(c, "done")
  /\ UNCHANGED <<clock, started, deadline, wake, result, ended, answers, beaten>>

-----------------------------------------------------------------------------
(* Timers fire on the tick they are set for.                                *)
Tick ==
  /\ clock < MaxTime
  /\ \A c \in Callers : /\ pc[c] = "connecting" => clock < deadline[c]
                        /\ pc[c] = "sleeping" => clock < wake[c]
  /\ clock' = clock + 1
  /\ UNCHANGED <<probed, pc, started, deadline, wake, result, ended, answers,
                 beaten>>

Attempt(c) ==
  \/ Connected(c) \/ Busy(c) \/ Rejected(c) \/ Refused(c) \/ Unreachable(c)

Own(c) == TimedOut(c) \/ Wake(c) \/ Remember(c)

Terminating ==
  /\ \A c \in Callers : pc[c] \in {"start", "done"}
  /\ clock = MaxTime
  /\ UNCHANGED vars

Next ==
  \/ \E c \in Callers : Recall(c) \/ Start(c) \/ Attempt(c) \/ Own(c)
  \/ Tick \/ Terminating

Spec == Init /\ [][Next]_vars

(* Time passes and timers fire; nothing says that the server ever answers.  *)
Fairness == WF_vars(Tick) /\ \A c \in Callers : WF_vars(Own(c))

FairSpec == Spec /\ Fairness

-----------------------------------------------------------------------------
Longer(c) == IF Timeout[c] < BusyTimeout[c] THEN BusyTimeout[c] ELSE Timeout[c]

(* A test never waits for its connection longer than the longer of its two  *)
(* timeouts, in whatever order the server is full, refusing and silent.     *)
WaitIsBounded ==
  \A c \in Callers :
    pc[c] \in {"connecting", "sleeping"} => clock <= started[c] + Longer(c)

(* A server that was once full is up, and if all it does from then on is be *)
(* full, refuse or be silent it is not given up before the acquire timeout, *)
(* less a sleep ("a server without free connections is waited for until the *)
(* acquire timeout").                                                       *)
FullIsWaitedFor ==
  \A c \in Callers :
    /\ "busy" \in answers[c] /\ "unreachable" \notin answers[c]
    /\ result[c] \in {"busy", "timeout", "unreachable"}
    => ended[c] + Retry >= started[c] + BusyTimeout[c]

(* A server that refuses connections or is silent, as one that is           *)
(* restarting is, is not given up before the connect timeout, less a sleep. *)
RestartIsWaitedFor ==
  \A c \in Callers :
    /\ pc[c] \in {"remember", "done"} /\ ~beaten[c]
    /\ answers[c] \subseteq {"refused"}
    /\ result[c] \in {"timeout", "unreachable"}
    => ended[c] + Retry >= started[c] + Timeout[c]

(* Once a test of the process has found the server dead and said so, no     *)
(* other test begins to probe it: the ones that still report a failure of   *)
(* their own were at it already.                                            *)
ProbedTogether ==
  [][\A c, d \in Callers :
       pc[c] = "start" /\ pc'[c] = "connecting" =>
         ~(pc[d] = "done" /\ ~beaten[d] /\ result[d] \in Failures)]_vars

(* Every test that began to probe has an answer in the end.                 *)
EveryProbeEnds ==
  \A c \in Callers : pc[c] = "connecting" ~> pc[c] = "done"
=============================================================================
