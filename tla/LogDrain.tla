------------------------------ MODULE LogDrain ------------------------------
(***************************************************************************)
(* The two threads of examples/capstone/main.cpp around the log queue.     *)
(*                                                                         *)
(* The hot thread (main, inside run) pushes a record for every order it    *)
(* considered and counts the ones the queue refused; at the end of the     *)
(* feed it clears g_logging and joins.  The logger pops until it reads     *)
(* g_logging = false and then size_approx() = 0.  The queue is SpscQueue,  *)
(* with all its staleness; g_logging is an atomic too, so the logger may   *)
(* keep reading true for a while after the store.  MaxPush bounds the       *)
(* calls of try_push, refused ones included.                               *)
(***************************************************************************)
EXTENDS SpscQueue

VARIABLES mpc,                \* "run", then "join", then "done"
          lpc,                \* logger: "loop", "size", "pop", "exit"
          flag,               \* modification order of g_logging
          lSeen,              \* the logger's last message of g_logging
          records,            \* try_push calls made (a ghost)
          dropped, drained    \* st.dropped_logs, and the logger's counter

dvars == <<mpc, lpc, flag, lSeen, records, dropped, drained>>
allvars == <<vars, dvars>>

\* g_logging's messages: val, and what the storing thread did before the store:
\* the messages of head_ and the slot writes a load that acquires it must respect.
RelaxedStop == [val |-> FALSE, head |-> 1, view |-> 0]
StopMessage == [val |-> FALSE, head |-> Len(head_), view |-> Len(sent)]

DrainInit ==
  /\ Init
  /\ mpc = "run" /\ lpc = "loop"
  /\ flag = <<[val |-> TRUE, head |-> 1, view |-> 0]>> /\ lSeen = 1
  /\ records = 0 /\ dropped = 0 /\ drained = 0
------------------------------------------------------------------------------
(* Hot thread *)

LogRecord ==
  /\ mpc = "run" /\ records < MaxPush /\ PushBegin
  /\ records' = records + 1
  /\ UNCHANGED <<mpc, lpc, flag, lSeen, dropped, drained>>

WaitForRoom(i) ==
  /\ LoadTail(i) /\ ppc' # "idle"
  /\ UNCHANGED dvars

ReloadTail(i) ==
  /\ LoadTail(i)
  /\ dropped' = IF ppc' = "idle" THEN dropped + 1 ELSE dropped
  /\ UNCHANGED <<mpc, lpc, flag, lSeen, records, drained>>

FinishPush ==
  /\ (\E v \in Value : WriteSlot(v)) \/ StoreHead
  /\ UNCHANGED dvars

JoinFirst ==
  /\ mpc = "run" /\ ppc = "idle" /\ mpc' = "join"
  /\ UNCHANGED <<vars, lpc, flag, lSeen, records, dropped, drained>>

\* The feed may end after any number of records.
Stop ==
  /\ mpc = "run" /\ ppc = "idle" /\ mpc' = "join"
  /\ flag' = Append(flag, StopMessage)
  /\ UNCHANGED <<vars, lpc, lSeen, records, dropped, drained>>

Join ==
  /\ mpc = "join" /\ lpc = "exit" /\ mpc' = "done"
  /\ UNCHANGED <<vars, lpc, flag, lSeen, records, dropped, drained>>

Hot == \/ LogRecord
       \/ \E i \in 1 .. Len(tail_) : ReloadTail(i)
       \/ FinishPush
       \/ Stop
       \/ Join
------------------------------------------------------------------------------
(* Logger *)

Later(a, b) == IF a > b THEN a ELSE b

LoadFlag(j) ==
  /\ lpc = "loop" /\ j \in lSeen .. Len(flag)
  /\ lSeen' = j
  /\ cSeen' = Later(cSeen, flag[j].head) /\ cView' = Later(cView, flag[j].view)
  /\ lpc' = IF flag[j].val THEN "pop" ELSE "size"
  /\ UNCHANGED <<tail_, cached_head_, cpc, rEpoch, received, pvars, slots_>>
  /\ UNCHANGED <<mpc, flag, records, dropped, drained>>

CheckSize(i) ==
  /\ lpc = "size" /\ SizeApprox(i)
  /\ lpc' = IF SizeAt(i) # 0 THEN "pop" ELSE "exit"
  /\ UNCHANGED <<mpc, flag, lSeen, records, dropped, drained>>

BeginPop ==
  /\ lpc = "pop" /\ PopBegin
  /\ UNCHANGED dvars

ReloadHead(i) ==
  /\ LoadHead(i)
  /\ lpc' = IF cpc' = "idle" THEN "loop" ELSE "pop"
  /\ UNCHANGED <<mpc, flag, lSeen, records, dropped, drained>>

ReadRecord == ReadSlot /\ UNCHANGED dvars

FinishPop ==
  /\ StoreTail
  /\ drained' = drained + 1 /\ lpc' = "loop"
  /\ UNCHANGED <<mpc, flag, lSeen, records, dropped>>

Logger == \/ \E j \in 1 .. Len(flag) : LoadFlag(j)
          \/ \E i \in 1 .. Len(head_) : CheckSize(i) \/ ReloadHead(i)
          \/ BeginPop
          \/ ReadRecord
          \/ FinishPop

Terminated == mpc = "done" /\ UNCHANGED allvars

DrainNext == Hot \/ Logger \/ Terminated

DrainSafety == DrainInit /\ [][DrainNext]_allvars

\* Only the hot thread is known to be scheduled: the logger may stall for ever.
HotSpec == DrainSafety /\ WF_allvars(Hot)

\* The logger is scheduled too, and a store becomes visible in finite time: it does
\* not read a stale g_logging for ever.
LoggerScheduled == WF_allvars(Logger) /\ SF_allvars(LoadFlag(Len(flag)))
------------------------------------------------------------------------------
(* Properties *)

\* When the logger leaves its loop no accepted record is left behind: it has popped
\* every one, in order, and drained plus dropped_logs account for each record the
\* hot thread ever tried to log.
NothingLeftBehind ==
  lpc = "exit" => /\ received = sent
                  /\ drained = Len(sent)
                  /\ drained + dropped = records

\* The hot path never waits for the logger: it reaches the end of the feed even if
\* the logger never takes another step.
HotPathNeverBlocked == <>(mpc # "run")

\* Shutdown terminates: the join returns, if the logger is scheduled as well.
ShutdownTerminates == LoggerScheduled => <>(mpc = "done")
==============================================================================
