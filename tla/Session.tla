------------------------------ MODULE Session ------------------------------
(***************************************************************************)
(* One run of a test, as a sequence of statements on its master connection *)
(* (TestDb::master).  Each label of pc is a statement the code is about to *)
(* await; between two of them any other task, of this process or another,  *)
(* may run.  This module has what every statement shares: the program      *)
(* counter, the list a sweep read and works through, and what happens when *)
(* the process dies or a connection ends.                                  *)
(***************************************************************************)
EXTENDS Postgres

CONSTANTS
  Mortal,    \* the tasks whose process may be killed
  Severed    \* the tasks whose master session may be ended under them

ASSUME SessionAssumption == Mortal \subseteq Tasks /\ Severed \subseteq Tasks

VARIABLES
  pc,       \* the statement each task awaits
  todo,     \* the names it read and has still to drop
  victim,   \* the name it dropped and has still to forget
  born,     \* when it registered
  verdict,  \* how its test ended
  lost      \* the tasks that live on without their master session

locals  == <<pc, todo, victim, born, verdict, lost>>
loop    == <<todo, victim>>
history == <<born, verdict, lost>>
vars    == <<now, content, frozen, connected, locks, lastSeen, rows, failedAt,
             lastUsed, pc, todo, victim, born, verdict, lost>>

Goto(t, label) == pc' = [pc EXCEPT ![t] = label]

(* A step of the code: statement `from` succeeded, `to` comes next.         *)
Step(t, from, to) ==
  /\ pc[t] = from
  /\ Goto(t, to)
  /\ UNCHANGED <<loop, history>>

(* The server refused the statement: nothing changes there, and the error   *)
(* ends whatever loop the task was in.                                      *)
Refused(t, to) ==
  /\ Goto(t, to)
  /\ todo' = [todo EXCEPT ![t] = {}]
  /\ victim' = [victim EXCEPT ![t] = None]
  /\ UNCHANGED <<server, history>>

-----------------------------------------------------------------------------
(* `for name in names`: the list is read once, then worked through in the   *)
(* order the server returned it, which the code does not choose.            *)

ListNames(t, from, names, dropping, done) ==
  /\ pc[t] = from
  /\ todo' = [todo EXCEPT ![t] = names]
  /\ Goto(t, IF names = {} THEN done ELSE dropping)
  /\ UNCHANGED <<server, victim, history>>

Rest(t, n, more, done) == IF todo[t] = {n} THEN done ELSE more

(* Mutant: the name stays on the list.                                      *)
SkipNothing(t, n, more, done) ==
  /\ Goto(t, more)
  /\ UNCHANGED <<todo, victim, history>>

(* n is dealt with, and the loop goes on with the names left.               *)
Skip(t, n, more, done) ==
  /\ todo' = [todo EXCEPT ![t] = @ \ {n}]
  /\ Goto(t, Rest(t, n, more, done))
  /\ UNCHANGED <<victim, history>>

-----------------------------------------------------------------------------
(* Processes and connections.  A killed process takes no further step; the  *)
(* server notices the end of its master session and of its other            *)
(* connections on its own time and in any order.  A task that ended has     *)
(* closed its master connection, or dropped it in a panic, to the same      *)
(* effect.  "undropped": the last statement was the drop of the database,   *)
(* it failed, and the test reported that.                                   *)

Ended == {"done", "kept", "panicked", "undropped", "crashed"}

Crash(t) ==
  /\ t \in Mortal
  /\ pc[t] \notin Ended
  /\ Goto(t, "crashed")
  /\ todo' = [todo EXCEPT ![t] = {}]
  /\ victim' = [victim EXCEPT ![t] = None]
  /\ UNCHANGED <<server, history>>

(* The server, or something on the way to it, ends the session of a live    *)
(* task: its locks are free at once, and the task hears of it from the next *)
(* statement it sends.  What it does on other connections goes on.          *)
LoseMaster(t) ==
  /\ t \in Severed \ lost
  /\ pc[t] \notin Ended
  /\ EndMaster(t)
  /\ lost' = lost \cup {t}
  /\ UNCHANGED <<pc, loop, born, verdict>>

ReapMaster(t) ==
  /\ pc[t] \in Ended
  /\ \E k \in LockKeys : locks[k] = t
  /\ EndMaster(t)
  /\ UNCHANGED locals

(* A test's connection that nobody closed, as a PgConnection argument is    *)
(* dropped, ends like that of a killed process.                             *)
ReapClient(t) ==
  /\ pc[t] \in Ended
  /\ \E n \in {Building(t), TestDb(t)} \cap connected : Disconnect(n)
  /\ UNCHANGED locals

=============================================================================
