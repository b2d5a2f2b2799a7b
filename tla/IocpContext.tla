----------------------------- MODULE IocpContext -----------------------------
(***************************************************************************)
(* asio's io_service as the bot's Windows build has it: the completion     *)
(* port, the count of unfinished work that ends run(), the timers with     *)
(* their waitable timer and its thread, and the queue of operations the    *)
(* port had no room for.  The members are touched with interlocked         *)
(* operations, one step each, or under dispatch_mutex_.                    *)
(*                                                                         *)
(* An operation is posted, waits on a timer, or reads or writes a socket.  *)
(* Each is used once, and a timer has one wait at a time, as websocketpp's *)
(* and the client's own have.  The port gives out what it was given in     *)
(* that order, whoever asks.  Posting an operation or the wake-up of the   *)
(* timer thread may fail for want of memory; for the stop event that would *)
(* be an exception, and is left out.  shutdown() is left out as well.      *)
(***************************************************************************)
EXTENDS Integers, Sequences, FiniteSets, SequencesExt

CONSTANTS
  Runners,   \* threads that call run()
  App,       \* a thread that only posts
  Ops,       \* operations: each is begun once
  MaxTime,   \* bound: the last tick of the clock
  MaxFails   \* bound: failures of PostQueuedCompletionStatus

NoOp == "none"
Wake == "wake"        \* a packet with the key wake_for_dispatch
StopEvent == "stop"   \* a packet with the key 0 and no operation

ASSUME ThreadAssumption == App \notin Runners
ASSUME BoundAssumption == MaxTime \in Nat /\ MaxFails \in Nat
ASSUME PacketAssumption == Ops \cap {NoOp, Wake, StopEvent} = {}

Threads == Runners \cup {App}

VARIABLES
  outstanding,  \* outstanding_work_
  stopped,      \* stopped_
  stopPosted,   \* stop_event_posted_
  required,     \* dispatch_required_
  port,         \* packets in the completion port
  completed,    \* completed_ops_
  waits,        \* waits in the timer queue, with the time they expire at
  due,          \* when waitable_timer_ signals next
  timer,        \* where timer_thread_ is, or that there is none yet
  transfers,    \* socket operations the system has not finished
  unready,      \* operations with ready_ = 0
  now,          \* the clock
  pc, arg, ret, \* where a thread is, with which operation, and where it goes on
  used,         \* history: operations begun
  runs,         \* history: how many times each was run
  fails         \* failures so far

loopVars == <<stopped, stopPosted>>
timerVars == <<waits, due, timer, now>>
ioVars == <<transfers, unready>>
threadVars == <<pc, arg, ret>>
vars == <<outstanding, loopVars, required, port, completed, timerVars, ioVars, threadVars,
          used, runs, fails>>

-----------------------------------------------------------------------------
(* max_timeout_usec: later than any wait of this program.                  *)
Period == MaxTime + 1

At(t, l) == pc[t] = l
Goto(t, l) == pc' = [pc EXCEPT ![t] = l]
Return(t) == Goto(t, ret[t]) /\ ret' = [ret EXCEPT ![t] = "out"]

(* Operations are begun by handlers and by the application.                *)
CanCall(t) == At(t, "handler") \/ (t = App /\ At(t, "out"))

(* post_deferred_completions, and for one operation                        *)
(* post_deferred_completion: from the first that finds no room on, they go *)
(* to completed_ops_, where "left" is already.                             *)
PostDeferred(ops, left) ==
  \E k \in 0 .. Len(ops) :
    /\ k < Len(ops) => fails < MaxFails
    /\ fails' = IF k < Len(ops) THEN fails + 1 ELSE fails
    /\ port' = port \o SubSeq(ops, 1, k)
    /\ completed' = left \o SubSeq(ops, k + 1, Len(ops))
    /\ required' = (required \/ k < Len(ops))

(* update_timeout, with the waits ws in the queue.                         *)
UpdateTimeout(ws) ==
  IF ws = {} THEN UNCHANGED due
             ELSE \E w \in ws : (\A v \in ws : w.at <= v.at) /\ due' = w.at

-----------------------------------------------------------------------------
(* Beginning an operation.                                                 *)

(* post_immediate_completion: work_started, then the packet.               *)
Post(t) ==
  /\ CanCall(t)
  /\ \E o \in Ops \ used : used' = used \cup {o} /\ arg' = [arg EXCEPT ![t] = o]
  /\ outstanding' = outstanding + 1
  /\ ret' = [ret EXCEPT ![t] = pc[t]] /\ Goto(t, "push")
  /\ UNCHANGED <<loopVars, required, port, completed, timerVars, ioVars, runs, fails>>

Push(t) ==
  /\ At(t, "push") /\ PostDeferred(<<arg[t]>>, completed)
  /\ Return(t) /\ arg' = [arg EXCEPT ![t] = NoOp]
  /\ UNCHANGED <<outstanding, loopVars, timerVars, ioVars, used, runs>>

Schedule(t, counted) ==
  /\ CanCall(t)
  /\ \E o \in Ops \ used, at \in now .. MaxTime :
       /\ used' = used \cup {o}
       /\ waits' = waits \cup {[op |-> o, at |-> at]}
       /\ IF \A w \in waits : at < w.at THEN due' = at
          ELSE UNCHANGED due
  /\ outstanding' = outstanding + counted
  /\ timer' = IF timer = "none" THEN "wait" ELSE timer
  /\ UNCHANGED <<loopVars, required, port, completed, now, ioVars, threadVars, runs, fails>>

(* A variant that does not count the wait as work.                         *)
ScheduleUncounted(t) == Schedule(t, 0)

(* schedule_timer; the first timer of all starts the timer thread          *)
(* (do_add_timer_queue).  Only the earliest wait sets the waitable timer.  *)
ScheduleTimer(t) == Schedule(t, 1)

(* A variant that leaves the timer in the queue.                           *)
CancelKeeps(t) ==
  /\ CanCall(t)
  /\ \E w \in waits : PostDeferred(<<w.op>>, completed)
  /\ UNCHANGED <<outstanding, loopVars, timerVars, ioVars, threadVars, used, runs>>

(* cancel_timer of a timer whose wait is still in the queue; of any other  *)
(* it does nothing.                                                        *)
CancelTimer(t) ==
  /\ CanCall(t)
  /\ \E w \in waits : waits' = waits \ {w} /\ PostDeferred(<<w.op>>, completed)
  /\ UNCHANGED <<outstanding, loopVars, due, timer, now, ioVars, threadVars, used, runs>>

(* start_send_op, start_receive_op, called by handlers only: the system may*)
(* be done before the call returns and on_pending sees ready_.             *)
StartTransfer(t) ==
  /\ At(t, "handler")
  /\ \E o \in Ops \ used :
       /\ used' = used \cup {o} /\ arg' = [arg EXCEPT ![t] = o]
       /\ transfers' = transfers \cup {o} /\ unready' = unready \cup {o}
  /\ outstanding' = outstanding + 1
  /\ ret' = [ret EXCEPT ![t] = pc[t]] /\ Goto(t, "pending")
  /\ UNCHANGED <<loopVars, required, port, completed, timerVars, runs, fails>>

(* A variant that posts the operation whatever ready_ is.                  *)
OnPendingAlways(t) ==
  /\ At(t, "pending") /\ PostDeferred(<<arg[t]>>, completed)
  /\ unready' = unready \ {arg[t]}
  /\ Return(t) /\ arg' = [arg EXCEPT ![t] = NoOp]
  /\ UNCHANGED <<outstanding, loopVars, timerVars, transfers, used, runs>>

(* on_pending: whoever finds ready_ set by the other sees to the operation.*)
OnPending(t) ==
  /\ At(t, "pending")
  /\ IF arg[t] \in unready
       THEN unready' = unready \ {arg[t]} /\ UNCHANGED <<required, port, completed, fails>>
       ELSE PostDeferred(<<arg[t]>>, completed) /\ UNCHANGED unready
  /\ Return(t) /\ arg' = [arg EXCEPT ![t] = NoOp]
  /\ UNCHANGED <<outstanding, loopVars, timerVars, transfers, used, runs>>

(* The system is done with a transfer.                                     *)
TransferDone ==
  /\ \E o \in transfers : transfers' = transfers \ {o} /\ port' = Append(port, o)
  /\ UNCHANGED <<outstanding, loopVars, required, completed, timerVars, unready, threadVars,
                 used, runs, fails>>

-----------------------------------------------------------------------------
(* stop().                                                                 *)

Stop(t) ==
  /\ At(t, "stop")
  /\ stopped' = TRUE
  /\ IF stopped THEN Return(t) ELSE Goto(t, "stopFlag") /\ UNCHANGED ret
  /\ UNCHANGED <<outstanding, stopPosted, required, port, completed, timerVars, ioVars, arg,
                 used, runs, fails>>

StopFlag(t) ==
  /\ At(t, "stopFlag")
  /\ stopPosted' = TRUE
  /\ IF stopPosted THEN Return(t) ELSE Goto(t, "stopPost") /\ UNCHANGED ret
  /\ UNCHANGED <<outstanding, stopped, required, port, completed, timerVars, ioVars, arg,
                 used, runs, fails>>

StopPost(t) ==
  /\ At(t, "stopPost")
  /\ port' = Append(port, StopEvent) /\ Return(t)
  /\ UNCHANGED <<outstanding, loopVars, required, completed, timerVars, ioVars, arg, used,
                 runs, fails>>

-----------------------------------------------------------------------------
(* run() and do_one().                                                     *)

(* run(), called after a reset() if it was called before.  Without work it *)
(* stops the service and returns.                                          *)
Run(t) ==
  /\ t \in Runners /\ At(t, "out") /\ ~stopped
  /\ Goto(t, IF outstanding = 0 THEN "stop" ELSE "loop")
  /\ UNCHANGED <<outstanding, loopVars, required, port, completed, timerVars, ioVars, arg,
                 ret, used, runs, fails>>

(* Acquire the responsibility for timers and completed operations.         *)
Acquire(t) ==
  /\ At(t, "loop")
  /\ required' = FALSE /\ Goto(t, IF required THEN "dispatch" ELSE "wait")
  /\ UNCHANGED <<outstanding, loopVars, port, completed, timerVars, ioVars, arg, ret, used,
                 runs, fails>>

Expired == {w \in waits : w.at <= now}

(* The earliest first; waits for the same time in any order.               *)
Orders(ws) ==
  {s \in [1..Cardinality(ws) -> ws] :
     Range(s) = ws /\ \A i, j \in DOMAIN s : i < j => s[i] # s[j] /\ s[i].at <= s[j].at}
OpsOf(s) == [i \in DOMAIN s |-> s[i].op]

(* A variant that leaves the waitable timer as it is.                      *)
DispatchOnly(t) ==
  /\ At(t, "dispatch")
  /\ \E s \in Orders(Expired) : PostDeferred(completed \o OpsOf(s), <<>>)
  /\ waits' = waits \ Expired
  /\ Goto(t, "wait")
  /\ UNCHANGED <<outstanding, loopVars, due, timer, now, ioVars, arg, ret, used, runs>>

(* Under dispatch_mutex_.                                                  *)
Dispatch(t) ==
  /\ At(t, "dispatch")
  /\ \E s \in Orders(Expired) : PostDeferred(completed \o OpsOf(s), <<>>)
  /\ waits' = waits \ Expired /\ UpdateTimeout(waits \ Expired)
  /\ Goto(t, "wait")
  /\ UNCHANGED <<outstanding, loopVars, timer, now, ioVars, arg, ret, used, runs>>

(* A packet taken from the port: an operation is run if it is ready, or    *)
(* left to on_pending.                                                     *)
GetOp(t) ==
  /\ At(t, "wait") /\ port # <<>> /\ Head(port) \in Ops
  /\ port' = Tail(port)
  /\ IF Head(port) \in unready
       THEN unready' = unready \ {Head(port)} /\ Goto(t, "loop") /\ UNCHANGED runs
       ELSE /\ runs' = [runs EXCEPT ![Head(port)] = @ + 1]
            /\ Goto(t, "handler") /\ UNCHANGED unready
  /\ UNCHANGED <<outstanding, loopVars, required, completed, timerVars, transfers, arg, ret,
                 used, fails>>

Wakened(t, l) ==
  /\ At(t, "wait") /\ port # <<>> /\ Head(port) = Wake
  /\ port' = Tail(port) /\ Goto(t, l)
  /\ UNCHANGED <<outstanding, loopVars, required, completed, timerVars, ioVars, arg, ret,
                 used, runs, fails>>

(* A variant that goes on waiting.                                         *)
GetWakeWaits(t) == Wakened(t, "wait")

GetWake(t) == Wakened(t, "loop")

(* The stop event: the flag is reset ...                                   *)
GetStop(t) ==
  /\ At(t, "wait") /\ port # <<>> /\ Head(port) = StopEvent
  /\ port' = Tail(port) /\ Goto(t, "stopReset")
  /\ UNCHANGED <<outstanding, loopVars, required, completed, timerVars, ioVars, arg, ret,
                 used, runs, fails>>

StopReset(t) ==
  /\ At(t, "stopReset")
  /\ stopPosted' = FALSE /\ Goto(t, "stopCheck")
  /\ UNCHANGED <<outstanding, stopped, required, port, completed, timerVars, ioVars, arg,
                 ret, used, runs, fails>>

(* A variant that leaves without passing the event on.                     *)
StopCheckLeaves(t) ==
  /\ At(t, "stopCheck")
  /\ Goto(t, IF stopped THEN "out" ELSE "loop")
  /\ UNCHANGED <<outstanding, loopVars, required, port, completed, timerVars, ioVars, arg,
                 ret, used, runs, fails>>

(* ... and, unless the event is left over from before a restart(), the     *)
(* event is passed on to the next thread while this one leaves.            *)
StopCheck(t) ==
  /\ At(t, "stopCheck")
  /\ Goto(t, IF stopped THEN "stopFlag" ELSE "loop")
  /\ UNCHANGED <<outstanding, loopVars, required, port, completed, timerVars, ioVars, arg,
                 ret, used, runs, fails>>

(* The handler returns: work_finished.  do_one is called again.            *)
Finish(t) ==
  /\ At(t, "handler")
  /\ outstanding' = outstanding - 1
  /\ IF outstanding = 1
       THEN Goto(t, "stop") /\ ret' = [ret EXCEPT ![t] = "loop"]
       ELSE Goto(t, "loop") /\ UNCHANGED ret
  /\ UNCHANGED <<loopVars, required, port, completed, timerVars, ioVars, arg, used, runs,
                 fails>>

(* reset(), when run() has returned in every thread.                       *)
Restart ==
  /\ stopped /\ \A t \in Runners : At(t, "out")
  /\ stopped' = FALSE
  /\ UNCHANGED <<outstanding, stopPosted, required, port, completed, timerVars, ioVars,
                 threadVars, used, runs, fails>>

-----------------------------------------------------------------------------
(* The waitable timer signals when it is due, and then every five minutes. *)
(* That period is taken to be long enough for the last wake-up to be gone. *)
Signal ==
  /\ timer = "wait"
  /\ due <= now \/ (due = Period /\ ~Contains(port, Wake))
  /\ due' = Period /\ timer' = "set"
  /\ UNCHANGED <<outstanding, loopVars, required, port, completed, waits, now, ioVars,
                 threadVars, used, runs, fails>>

(* The timer thread.                                                       *)
TimerSet ==
  /\ timer = "set" /\ required' = TRUE /\ timer' = "post"
  /\ UNCHANGED <<outstanding, loopVars, port, completed, waits, due, now, ioVars,
                 threadVars, used, runs, fails>>

TimerPost ==
  /\ timer = "post" /\ timer' = "wait"
  /\ \/ port' = Append(port, Wake) /\ UNCHANGED fails
     \/ fails < MaxFails /\ fails' = fails + 1 /\ UNCHANGED port
  /\ UNCHANGED <<outstanding, loopVars, required, completed, waits, due, now, ioVars,
                 threadVars, used, runs>>

Tick ==
  /\ now < MaxTime /\ now' = now + 1
  /\ UNCHANGED <<outstanding, loopVars, required, port, completed, waits, due, timer, ioVars,
                 threadVars, used, runs, fails>>

-----------------------------------------------------------------------------
Init ==
  /\ outstanding = 0 /\ stopped = FALSE /\ stopPosted = FALSE /\ required = FALSE
  /\ port = <<>> /\ completed = <<>> /\ waits = {} /\ due = Period /\ timer = "none"
  /\ transfers = {} /\ unready = {} /\ now = 0
  /\ pc = [t \in Threads |-> "out"] /\ arg = [t \in Threads |-> NoOp]
  /\ ret = [t \in Threads |-> "out"]
  /\ used = {} /\ runs = [o \in Ops |-> 0] /\ fails = 0

Call(t) == Post(t) \/ ScheduleTimer(t) \/ CancelTimer(t) \/ StartTransfer(t)

(* What a thread does without being asked.                                 *)
Continue(t) ==
  \/ Push(t) \/ OnPending(t)
  \/ Stop(t) \/ StopFlag(t) \/ StopPost(t)
  \/ Acquire(t) \/ Dispatch(t) \/ GetOp(t) \/ GetWake(t)
  \/ GetStop(t) \/ StopReset(t) \/ StopCheck(t) \/ Finish(t)

TimerThread == Signal \/ TimerSet \/ TimerPost

Next ==
  \/ \E t \in Threads : Call(t) \/ Continue(t) \/ Run(t)
  \/ Restart \/ TransferDone \/ TimerThread \/ Tick

Spec == Init /\ [][Next]_vars

(* Threads go on, time passes; nobody is obliged to call run() again.      *)
FairSpec ==
  /\ Spec /\ WF_vars(Tick) /\ WF_vars(TimerThread)
  /\ \A t \in Threads : WF_vars(Continue(t))

-----------------------------------------------------------------------------
(* What must hold.                                                         *)

Labels == {"out", "push", "pending", "stop", "stopFlag", "stopPost", "loop", "dispatch",
           "wait", "stopReset", "stopCheck", "handler"}

TypeOK ==
  /\ outstanding \in Nat
  /\ stopped \in BOOLEAN /\ stopPosted \in BOOLEAN /\ required \in BOOLEAN
  /\ port \in Seq(Ops \cup {Wake, StopEvent}) /\ completed \in Seq(Ops)
  /\ waits \subseteq [op : {o \in used : runs[o] = 0}, at : 0..MaxTime]
  /\ due \in 0..Period /\ timer \in {"none", "wait", "set", "post"}
  /\ transfers \subseteq used /\ unready \subseteq used /\ now \in 0..MaxTime
  /\ pc \in [Threads -> Labels] /\ arg \in [Threads -> Ops \cup {NoOp}]
  /\ ret \in [Threads -> {"out", "handler", "loop"}]
  /\ used \subseteq Ops /\ \A o \in Ops \ used : runs[o] = 0
  /\ fails \in 0..MaxFails

Running ==
  {t \in Threads : At(t, "handler") \/ (ret[t] = "handler" /\ pc[t] \in {"push", "pending"})}

(* outstanding_work_ is the number of operations begun and not finished,   *)
(* wherever they are: on their way to the port, in it, kept back for want  *)
(* of room, waiting for a timer, with the system, or being run.  None is   *)
(* run twice, though both on_pending and a thread of run() see its packet. *)
(* So run() ends only when there is nothing left, and does end then.       *)
WorkCounted ==
  /\ \A o \in used : runs[o] <= 1
  /\ outstanding = Cardinality({o \in used : runs[o] = 0}) + Cardinality(Running)

InFlight ==
  {i \in DOMAIN port : port[i] = StopEvent} \cup {t \in Threads : pc[t] \in {"stopPost", "stopReset"}}

(* At most one stop event is under way (win_iocp_io_context.hpp:255), and  *)
(* stop_event_posted_ says whether there is one.  When the service is      *)
(* stopped, there is one, or a thread will see to it: whatever number of   *)
(* threads wait at the port, each is sent home.                            *)
StopEvents ==
  /\ Cardinality(InFlight) = IF stopPosted THEN 1 ELSE 0
  /\ stopped => stopPosted \/ \E t \in Threads : pc[t] \in {"stopFlag", "stopCheck"}

(* No wait is slept through: the waitable timer signals no later than the  *)
(* earliest wait in the queue, or a dispatch is already called for, and    *)
(* that although neither cancelling a wait nor adding a later one sets it. *)
NeverOverslept ==
  \A w \in waits :
    \/ due <= w.at
    \/ required \/ timer = "set" \/ \E t \in Threads : At(t, "dispatch")

(* While a thread runs the service, every operation is run in the end, be  *)
(* it that the port had no room for it or for the wake-up: the periodic    *)
(* signal of the waitable timer makes up for both.  That needs the timer   *)
(* thread, which the first timer starts; and a transfer takes as long as   *)
(* the peer takes.                                                         *)
Completes ==
  \A o \in Ops :
    o \in used \ transfers /\ timer # "none"
      ~> runs[o] = 1 \/ \A t \in Runners : At(t, "out")
=============================================================================
