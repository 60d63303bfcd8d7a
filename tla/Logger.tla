------------------------------- MODULE Logger -------------------------------
(***************************************************************************)
(* Logger of bse.cpp, shared by threads: log copies the sinks under the    *)
(* mutex and calls them after releasing it, so that a sink may itself use  *)
(* the logger, and may be called after clearSinks has returned.            *)
(*                                                                         *)
(* The mutex is explicit where a thread can be interrupted while it waits  *)
(* for it or holds it.  A thread has a stack of calls of log; while its    *)
(* top call is inside a sink, that sink may call any operation.            *)
(***************************************************************************)
EXTENDS Integers, Sequences, SequencesExt

CONSTANTS
  Threads, Sinks, Levels,
  NoThread,     \* nobody, nothing
  Stderr,       \* where a record goes when there are no sinks
  MaxRecords,   \* bound: calls of log
  MaxSinks      \* bound: registered sinks

ASSUME LoggerAssumption ==
  /\ Levels \subseteq Nat
  /\ MaxRecords \in Nat /\ MaxSinks \in Nat
  /\ NoThread \notin Threads /\ Stderr \notin Sinks

VARIABLES
  level,       \* level_
  sinks,       \* sinks_
  mutex,       \* the thread that holds mutex_
  stack,       \* stack[t]: the calls of log thread t is in, innermost first
  next,        \* number of the next record
  taken,       \* taken[r]: the sinks that the call for record r copied
  delivered    \* delivered[r]: the sinks called with record r, in order

logVars == <<level, sinks, mutex, stack, next, taken, delivered>>

Record == 1..MaxRecords
Call == [record : Record, level : Levels, pc : {"entered", "locked", "delivering", "in sink"},
         pending : Seq(Sinks \cup {Stderr})]

LogInit ==
  /\ level \in Levels
  /\ sinks = << >>
  /\ mutex = NoThread
  /\ stack = [t \in Threads |-> << >>]
  /\ next = 1
  /\ taken = [r \in Record |-> << >>]
  /\ delivered = [r \in Record |-> << >>]

(* The program of a thread is at liberty to use the logger: it is in no    *)
(* call of log, or in a sink that log called, other than the error stream. *)
AtLiberty(t) ==
  stack[t] # << >> =>
    /\ stack[t][1].pc = "in sink"
    /\ Last(delivered[stack[t][1].record]) # Stderr
Top(t, pc) == stack[t] # << >> /\ stack[t][1].pc = pc
GoTo(t, call) == stack' = [stack EXCEPT ![t] = <<call>> \o Tail(@)]
LeaveCall(t) == stack' = [stack EXCEPT ![t] = Tail(@)]

(* Lock, change, unlock: nobody sees the mutex held.                       *)
SetLevel(t, l) ==
  /\ AtLiberty(t) /\ mutex = NoThread
  /\ level' = l
  /\ UNCHANGED <<sinks, mutex, stack, next, taken, delivered>>

AddSink(t, s) ==
  /\ AtLiberty(t) /\ mutex = NoThread
  /\ Len(sinks) < MaxSinks
  /\ sinks' = Append(sinks, s)
  /\ UNCHANGED <<level, mutex, stack, next, taken, delivered>>

ClearSinks(t) ==
  /\ AtLiberty(t) /\ mutex = NoThread
  /\ sinks' = << >>
  /\ UNCHANGED <<level, mutex, stack, next, taken, delivered>>

EnterLog(t, l) ==
  /\ AtLiberty(t)
  /\ next \in Record
  /\ stack' = [stack EXCEPT ![t] =
                 <<[record |-> next, level |-> l, pc |-> "entered", pending |-> << >>]>> \o @]
  /\ next' = next + 1
  /\ UNCHANGED <<level, sinks, mutex, taken, delivered>>

Lock(t) ==
  /\ Top(t, "entered") /\ mutex = NoThread
  /\ mutex' = t
  /\ GoTo(t, [stack[t][1] EXCEPT !.pc = "locked"])
  /\ UNCHANGED <<level, sinks, next, taken, delivered>>

(* A record below the level: unlock and return.                            *)
Filter(t) ==
  /\ Top(t, "locked") /\ stack[t][1].level < level
  /\ mutex' = NoThread
  /\ LeaveCall(t)
  /\ UNCHANGED <<level, sinks, next, taken, delivered>>

(* Variant: the sinks are called with the mutex held.                      *)
CopyKeepingLock(t) ==
  LET copied == IF sinks = << >> THEN <<Stderr>> ELSE sinks
  IN /\ Top(t, "locked") /\ stack[t][1].level >= level
     /\ taken' = [taken EXCEPT ![stack[t][1].record] = copied]
     /\ GoTo(t, [stack[t][1] EXCEPT !.pc = "delivering", !.pending = copied])
     /\ UNCHANGED <<level, sinks, mutex, next, delivered>>

CopySinks(t) ==
  LET copied == IF sinks = << >> THEN <<Stderr>> ELSE sinks
  IN /\ Top(t, "locked") /\ stack[t][1].level >= level
     /\ mutex' = NoThread
     /\ taken' = [taken EXCEPT ![stack[t][1].record] = copied]
     /\ GoTo(t, [stack[t][1] EXCEPT !.pc = "delivering", !.pending = copied])
     /\ UNCHANGED <<level, sinks, next, delivered>>

(* Variant: the registered sinks are called, not the copied ones.          *)
CallRegisteredSink(t) ==
  LET call == stack[t][1]
  IN /\ Top(t, "delivering") /\ call.pending # << >>
     /\ delivered' = [delivered EXCEPT ![call.record] =
                        Append(@, IF sinks = << >> THEN Stderr ELSE Last(sinks))]
     /\ GoTo(t, [call EXCEPT !.pc = "in sink", !.pending = Tail(@)])
     /\ UNCHANGED <<level, sinks, mutex, next, taken>>

CallSink(t) ==
  LET call == stack[t][1]
  IN /\ Top(t, "delivering") /\ call.pending # << >>
     /\ delivered' = [delivered EXCEPT ![call.record] = Append(@, Head(call.pending))]
     /\ GoTo(t, [call EXCEPT !.pc = "in sink", !.pending = Tail(@)])
     /\ UNCHANGED <<level, sinks, mutex, next, taken>>

SinkReturns(t) ==
  /\ Top(t, "in sink")
  /\ GoTo(t, [stack[t][1] EXCEPT !.pc = "delivering"])
  /\ UNCHANGED <<level, sinks, mutex, next, taken, delivered>>

LogReturns(t) ==
  /\ Top(t, "delivering") /\ stack[t][1].pending = << >>
  /\ LeaveCall(t)
  /\ UNCHANGED <<level, sinks, mutex, next, taken, delivered>>

(* What a thread does by itself once it has called log.                    *)
Proceed(t) ==
  Lock(t) \/ Filter(t) \/ CopySinks(t) \/ CallSink(t) \/ SinkReturns(t) \/ LogReturns(t)

LogNext ==
  \E t \in Threads :
    \/ \E l \in Levels : SetLevel(t, l) \/ EnterLog(t, l)
    \/ \E s \in Sinks : AddSink(t, s)
    \/ ClearSinks(t)
    \/ Proceed(t)

(* Threads are scheduled and sinks return; nobody has to use the logger.   *)
LogSpec == LogInit /\ [][LogNext]_logVars /\ \A t \in Threads : WF_logVars(Proceed(t))

-----------------------------------------------------------------------------

(* Every variable has its type.                                            *)
LogTypeOK ==
  /\ level \in Levels
  /\ sinks \in Seq(Sinks) /\ Len(sinks) <= MaxSinks
  /\ mutex \in Threads \cup {NoThread}
  /\ stack \in [Threads -> Seq(Call)]
  /\ next \in 1..MaxRecords + 1
  /\ taken \in [Record -> Seq(Sinks \cup {Stderr})]
  /\ delivered \in [Record -> Seq(Sinks \cup {Stderr})]

InProgress(r) == \E t \in Threads : \E i \in DOMAIN stack[t] : stack[t][i].record = r

(* A record goes to the sinks that were registered when its call looked,   *)
(* to each once and in the order of registration, whatever other threads   *)
(* or the sinks themselves add or clear meanwhile.                         *)
DeliveredAsTaken ==
  \A r \in Record :
    /\ IsPrefix(delivered[r], taken[r])
    /\ ~InProgress(r) => delivered[r] = taken[r]

(* A thread holds the mutex only in the innermost of its calls, before it  *)
(* delivers: a sink that uses the logger never waits for its own thread.   *)
SinksRunUnlocked ==
  \A t \in Threads :
    /\ mutex = t <=> Top(t, "locked")
    /\ \A i \in 2..Len(stack[t]) : stack[t][i].pc = "in sink"

(* Every call of log returns, with sinks that call log in turn and threads *)
(* that wait for one another's mutex.                                      *)
EveryLogReturns == \A r \in Record : InProgress(r) ~> ~InProgress(r)
=============================================================================
