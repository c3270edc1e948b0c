--------------------------- MODULE AgentLifecycle ---------------------------
(***************************************************************************)
(* The four processes of the edge agent and how they end (agent/sniffer.py *)
(* main, signal_handler, _scapy_worker, _sender_worker, _ips_worker).      *)
(*                                                                         *)
(* main waits for the capture process.  When it ends, or when a signal     *)
(* arrives, main sets stop_event, joins (and in the handler terminates)    *)
(* the children one after another, and between them puts the sentinel that *)
(* ends the sender.                                                        *)
(*                                                                         *)
(* The queue between the processes is a multiprocessing.Queue: a bounded   *)
(* semaphore counts its items, a put leaves the item with a feeder thread  *)
(* of the process that put it, the feeder writes it into a pipe of limited *)
(* capacity while it holds the write lock all writers share, and a process *)
(* that exits by itself first waits for its feeder.  A process that is     *)
(* terminated does not: its items stay counted, and if its feeder was      *)
(* blocked on a full pipe the write lock stays taken for ever.             *)
(*                                                                         *)
(* The sender is seen from outside here: it takes logs into memory, stays  *)
(* in a POST for a while, and after it those logs are safe (delivered or   *)
(* in SQLite).  BufferSender has the inside.  A join with a timeout        *)
(* expires only if the child is in something that can outlast it.  The     *)
(* model starts when the handlers are installed.                           *)
(***************************************************************************)
EXTENDS Integers, Sequences, FiniteSets, Functions

CONSTANTS
    Logs,          \* DNS logs that can be captured
    Stop,          \* the sentinel, None
    MaxSize,       \* maxsize of the queue
    PipeCap,       \* items the pipe under the queue can hold
    Kinds,         \* signals the agent gets: "term" to main, "ctrlc" to the group
    MaxSignals,    \* bound on their number
    SenderMayDie   \* the sender can be killed, or fail to open its SQLite file

ASSUME LifecycleAssumption ==
    /\ Stop \notin Logs
    /\ MaxSize \in Nat \ {0} /\ PipeCap \in Nat \ {0}
    /\ Kinds \subseteq {"term", "ctrlc"} /\ MaxSignals \in Nat
    /\ SenderMayDie \in BOOLEAN

VARIABLES
    main,        \* where main, or the handler that interrupted it, stands
    exiting,     \* main runs the exit functions of multiprocessing
    signals,     \* signals so far; the first sets shutdown_triggered
    stopEvent,   \* stop_event
    scapy,       \* "sniff", "put" (in queue.put), "flush" (leaving) or "dead"
    ips,         \* "loop" or "dead"
    sender,      \* "drain", "get", "post", "final", "stopped" or "dead"
    interrupts,  \* children with a SIGINT still to act on
    feeder,      \* items with the feeder thread of the capture process
    sentinels,   \* sentinels with the feeder thread of main
    wlock,       \* who holds the write lock: "free", "scapy" or "broken"
    pipe,        \* items in the pipe
    mem,         \* logs in the memory of the sender
    safe,        \* logs delivered or in SQLite
    captured     \* history: logs put into the queue

children == <<scapy, ips, sender, interrupts>>
ipc == <<feeder, sentinels, wlock, pipe>>
logs == <<mem, safe, captured>>
mainVars == <<main, exiting, signals, stopEvent>>
vars == <<mainVars, children, ipc, logs>>

Triggered == signals > 0
Items == Len(feeder) + sentinels + Len(pipe)
PipeFull == Len(pipe) >= PipeCap
SenderEnded == sender \in {"stopped", "dead"}

Init ==
    /\ main = "join" /\ exiting = FALSE /\ signals = 0 /\ stopEvent = FALSE
    /\ scapy = "sniff" /\ ips = "loop" /\ sender = "drain" /\ interrupts = {}
    /\ feeder = <<>> /\ sentinels = 0 /\ wlock = "free" /\ pipe = <<>>
    /\ mem = {} /\ safe = {} /\ captured = {}

-----------------------------------------------------------------------------
(* The capture process and its feeder thread.                              *)

\* process_packet sees stop_event clear and builds a log.
PacketArrives ==
    /\ scapy = "sniff" /\ ~stopEvent
    /\ captured # Logs
    /\ scapy' = "put"
    /\ UNCHANGED <<mainVars, ips, sender, interrupts, ipc, logs>>

\* queue.put returns, which may be after stop_event was set; stop_filter looks
\* at stop_event after every packet.
Capture(l) ==
    /\ scapy = "put"
    /\ l \notin captured
    /\ Items < MaxSize
    /\ feeder' = Append(feeder, l)
    /\ captured' = captured \cup {l}
    /\ scapy' = IF stopEvent THEN "flush" ELSE "sniff"
    /\ UNCHANGED <<mainVars, ips, sender, interrupts, sentinels, wlock, pipe, mem, safe>>

\* sniff returns: a packet comes after stop_event, or the interface fails.
CaptureEnds ==
    /\ scapy = "sniff"
    /\ scapy' = "flush"
    /\ UNCHANGED <<mainVars, ips, sender, interrupts, ipc, logs>>

\* The process exits once its feeder thread has written everything.
CaptureExits ==
    /\ scapy = "flush" /\ feeder = <<>>
    /\ scapy' = "dead"
    /\ interrupts' = interrupts \ {"scapy"}
    /\ UNCHANGED <<mainVars, ips, sender, ipc, logs>>

\* A feeder that finds the pipe full waits with the write lock in hand.
FeederBlocks ==
    /\ scapy # "dead" /\ feeder # <<>>
    /\ wlock = "free" /\ PipeFull
    /\ wlock' = "scapy"
    /\ UNCHANGED <<mainVars, children, feeder, sentinels, pipe, logs>>

CaptureWrites ==
    /\ scapy # "dead" /\ feeder # <<>>
    /\ ~PipeFull
    /\ pipe' = Append(pipe, Head(feeder)) /\ feeder' = Tail(feeder)
    /\ wlock' = "free"
    /\ UNCHANGED <<mainVars, children, sentinels, logs>>

-----------------------------------------------------------------------------
(* The sender process.                                                     *)

\* queue.get returns a log; the sender may flush at once.
SenderGets ==
    /\ sender = "get" /\ pipe # <<>> /\ Head(pipe) # Stop
    /\ pipe' = Tail(pipe)
    /\ mem' = mem \cup {Head(pipe)}
    /\ sender' \in {"get", "post"}
    /\ UNCHANGED <<mainVars, scapy, ips, interrupts, feeder, sentinels, wlock, safe,
                   captured>>

\* queue.get times out: a flush by time, or a row of SQLite.
SenderTimeout ==
    /\ sender = "get" /\ pipe = <<>>
    /\ sender' = IF mem = {} THEN "drain" ELSE "post"
    /\ UNCHANGED <<mainVars, scapy, ips, interrupts, ipc, logs>>

\* The POST is over, the batch is delivered or stored; a drain may follow.
SenderReturns ==
    /\ \/ sender = "post" /\ sender' \in {"get", "drain"}
       \/ sender = "drain" /\ sender' = "get"
       \/ sender = "final" /\ sender' = "stopped"
    /\ safe' = safe \cup mem /\ mem' = {}
    /\ UNCHANGED <<mainVars, scapy, ips, interrupts, ipc, captured>>

\* Mutant: _drain_queue_remaining is skipped and so is the final flush.
SenderGetsStopNoFlush ==
    /\ sender = "get" /\ pipe # <<>> /\ Head(pipe) = Stop
    /\ pipe' = Tail(pipe) /\ mem' = {} /\ sender' = "stopped"
    /\ UNCHANGED <<mainVars, scapy, ips, interrupts, feeder, sentinels, wlock, safe,
                   captured>>

\* The sentinel: the rest of the pipe is taken, the final flush begins.
SenderGetsStop ==
    /\ sender = "get" /\ pipe # <<>> /\ Head(pipe) = Stop
    /\ mem' = mem \cup (Range(pipe) \ {Stop})
    /\ pipe' = <<>>
    /\ sender' = "final"
    /\ UNCHANGED <<mainVars, scapy, ips, interrupts, feeder, sentinels, wlock, safe,
                   captured>>

\* The sender is gone with what it had in memory.
KillSender == sender' = "dead" /\ mem' = {}

SenderDies ==
    /\ SenderMayDie /\ ~SenderEnded
    /\ KillSender
    /\ interrupts' = interrupts \ {"sender"}
    /\ UNCHANGED <<mainVars, scapy, ips, ipc, safe, captured>>

-----------------------------------------------------------------------------
(* The IPS listener: it looks at stop_event every second, or ends because  *)
(* Redis cannot be reached.                                                *)

IpsEnds ==
    /\ ips = "loop"
    /\ ips' = "dead" /\ interrupts' = interrupts \ {"ips"}
    /\ UNCHANGED <<mainVars, scapy, sender, ipc, logs>>

-----------------------------------------------------------------------------
(* Joins that expire.                                                      *)

\* The feeder has nothing to write, or cannot write.
FeederQuiet == feeder = <<>> \/ (wlock = "scapy" /\ PipeFull)

\* No packet comes to run stop_filter, the queue is full, or the pipe is.
SlowScapy ==
    /\ FeederQuiet
    /\ \/ scapy = "sniff"
       \/ scapy = "put" /\ Items >= MaxSize
       \/ scapy = "flush" /\ feeder # <<>>

\* POSTs of 5 s and more, or a sentinel that never comes.
SlowSender ==
    \/ sender \in {"drain", "post", "final"}
    \/ sender = "get" /\ pipe = <<>> /\ (sentinels = 0 \/ wlock = "broken")

\* SIGTERM (or a SIGINT outside sniff) ends the capture process where it is.
KillScapy ==
    /\ scapy' = "dead"
    /\ wlock' = IF wlock = "scapy" THEN "broken" ELSE wlock

-----------------------------------------------------------------------------
(* main when the capture process ends by itself (lines 466-480).           *)

Go(place) ==
    /\ main' = place
    /\ exiting' = (exiting \/ place = "exit")
    /\ UNCHANGED signals

JoinCapture ==
    /\ main = "join" /\ scapy = "dead"
    /\ Go("ownIps")
    /\ stopEvent' = TRUE
    /\ UNCHANGED <<children, ipc, logs>>

OwnJoinsIps ==
    /\ main = "ownIps"
    /\ Go("ownPut")
    /\ ips' = "dead" /\ interrupts' = interrupts \ {"ips"}
    /\ UNCHANGED <<stopEvent, scapy, sender, ipc, logs>>

\* ipc_queue.put(None) waits while the queue is full.
PutStop ==
    /\ Items < MaxSize
    /\ sentinels' = sentinels + 1
    /\ UNCHANGED <<feeder, wlock, pipe>>

OwnPuts ==
    /\ main = "ownPut" /\ PutStop
    /\ Go("ownSender")
    /\ UNCHANGED <<stopEvent, children, logs>>

\* This join may expire, and nothing is terminated.
OwnJoinsSender ==
    /\ main = "ownSender" /\ (SenderEnded \/ SlowSender)
    /\ Go("exit")
    /\ UNCHANGED <<stopEvent, children, ipc, logs>>

\* The feeder thread of main.
MainWrites ==
    /\ sentinels > 0 /\ main # "gone"
    /\ wlock = "free" /\ ~PipeFull
    /\ pipe' = Append(pipe, Stop) /\ sentinels' = sentinels - 1
    /\ UNCHANGED <<mainVars, children, feeder, wlock, logs>>

\* The interpreter joins the children that are left, then the feeder.
Exit ==
    /\ main = "exit" /\ Go("gone")
    /\ scapy = "dead" /\ ips = "dead" /\ SenderEnded
    /\ sentinels = 0
    /\ UNCHANGED <<stopEvent, children, ipc, logs>>

-----------------------------------------------------------------------------
(* signal_handler.                                                         *)

\* sys.exit: an exception that leaves the exit functions too, if they run.
SysExit == main' = IF exiting THEN "gone" ELSE "exit"

\* The first signal runs the handler wherever main stands, a later one calls
\* sys.exit(1) in it.  Ctrl+C goes to the whole process group.
Signal(kind) ==
    /\ main # "gone" /\ signals < MaxSignals
    /\ signals' = signals + 1
    /\ stopEvent' = TRUE
    /\ IF Triggered
       THEN SysExit /\ exiting' = TRUE
       ELSE main' = "hScapy" /\ UNCHANGED exiting
    /\ interrupts' = interrupts \cup
         {c \in {"scapy", "ips", "sender"} :
             /\ kind = "ctrlc"
             /\ \/ c = "scapy" /\ scapy # "dead"
                \/ c = "ips" /\ ips # "dead"
                \/ c = "sender" /\ ~SenderEnded}
    /\ UNCHANGED <<scapy, ips, sender, ipc, logs>>

\* Mutant: the join with the capture process expires, and it is left alone.
HandlerNoTerminate ==
    /\ main = "hScapy" /\ (scapy = "dead" \/ SlowScapy)
    /\ main' = "hIps"
    /\ UNCHANGED <<exiting, signals, stopEvent, children, ipc, logs>>

\* Mutant: the join has no timeout.
HandlerWaitsForScapy ==
    /\ main = "hScapy" /\ scapy = "dead"
    /\ main' = "hIps"
    /\ UNCHANGED <<exiting, signals, stopEvent, children, ipc, logs>>

\* The capture process is joined, or terminated after 3 s.
HandlerJoinsScapy ==
    /\ main = "hScapy" /\ main' = "hIps"
    /\ \/ scapy = "dead" /\ UNCHANGED <<scapy, wlock, interrupts>>
       \/ /\ SlowScapy /\ KillScapy
          /\ interrupts' = interrupts \ {"scapy"}
    /\ UNCHANGED <<exiting, signals, stopEvent, ips, sender, feeder, sentinels, pipe, logs>>

HandlerJoinsIps ==
    /\ main = "hIps" /\ main' = "hPut"
    /\ ips' = "dead" /\ interrupts' = interrupts \ {"ips"}
    /\ UNCHANGED <<exiting, signals, stopEvent, scapy, sender, ipc, logs>>

HandlerPuts ==
    /\ main = "hPut" /\ main' = "hSender"
    /\ PutStop
    /\ UNCHANGED <<exiting, signals, stopEvent, children, logs>>

\* The sender is joined, or terminated after 5 s; then sys.exit(0).
HandlerJoinsSender ==
    /\ main = "hSender" /\ SysExit /\ exiting' = TRUE
    /\ \/ SenderEnded /\ UNCHANGED <<sender, interrupts, mem>>
       \/ SlowSender /\ KillSender /\ interrupts' = interrupts \ {"sender"}
    /\ UNCHANGED <<signals, stopEvent, scapy, ips, ipc, safe, captured>>

\* Ctrl+C in a child, none of which handles it: sniff returns on it, anything
\* else dies (run and _ips_worker catch Exception, not KeyboardInterrupt).
Interrupted(child) ==
    /\ child \in interrupts
    /\ interrupts' = interrupts \ {child}
    /\ \/ /\ child = "scapy"
          /\ \/ scapy \in {"sniff", "put"} /\ scapy' = "flush" /\ UNCHANGED wlock
             \/ scapy = "flush" /\ KillScapy
          /\ UNCHANGED <<ips, sender, mem>>
       \/ /\ child = "ips" /\ ips' = "dead"
          /\ UNCHANGED <<scapy, wlock, sender, mem>>
       \/ /\ child = "sender"
          /\ IF SenderEnded THEN UNCHANGED <<sender, mem>> ELSE KillSender
          /\ UNCHANGED <<scapy, wlock, ips>>
    /\ UNCHANGED <<mainVars, feeder, sentinels, pipe, safe, captured>>

-----------------------------------------------------------------------------
Scapy == PacketArrives \/ (\E l \in Logs : Capture(l)) \/ CaptureEnds \/ CaptureExits
Feeders == FeederBlocks \/ CaptureWrites \/ MainWrites
Sender == SenderGets \/ SenderTimeout \/ SenderReturns \/ SenderGetsStop
Own == JoinCapture \/ OwnJoinsIps \/ OwnPuts \/ OwnJoinsSender \/ Exit
Handler == HandlerJoinsScapy \/ HandlerJoinsIps \/ HandlerPuts \/ HandlerJoinsSender

Next ==
    \/ Scapy \/ Feeders \/ Sender \/ SenderDies \/ IpsEnds
    \/ Own \/ Handler
    \/ \E kind \in Kinds : Signal(kind)
    \/ \E child \in interrupts : Interrupted(child)

Spec == Init /\ [][Next]_vars

\* Threads and processes take the steps open to them: a feeder writes, a put
\* returns, the sender goes on, the kernel delivers a signal, main goes on when
\* a join is over or has expired.  No packet, signal or end of sniff is assumed.
Fairness ==
    /\ WF_vars(\E l \in Logs : Capture(l))
    /\ WF_vars(CaptureExits)
    /\ WF_vars(CaptureWrites) /\ WF_vars(FeederBlocks) /\ WF_vars(MainWrites)
    /\ WF_vars(Sender)
    /\ WF_vars(Own) /\ WF_vars(Handler)
    /\ \A child \in {"scapy", "ips", "sender"} : WF_vars(Interrupted(child))

FairSpec == Spec /\ Fairness

-----------------------------------------------------------------------------
(* Properties.                                                             *)

TypeOK ==
    /\ main \in {"join", "ownIps", "ownPut", "ownSender", "hScapy", "hIps", "hPut",
                 "hSender", "exit", "gone"}
    /\ exiting \in BOOLEAN /\ signals \in 0..MaxSignals /\ stopEvent \in BOOLEAN
    /\ scapy \in {"sniff", "put", "flush", "dead"}
    /\ ips \in {"loop", "dead"}
    /\ sender \in {"drain", "get", "post", "final", "stopped", "dead"}
    /\ interrupts \subseteq {"scapy", "ips", "sender"}
    /\ feeder \in Seq(Logs) /\ sentinels \in 0..2
    /\ wlock \in {"free", "scapy", "broken"}
    /\ pipe \in Seq(Logs \cup {Stop}) /\ Len(pipe) <= PipeCap
    /\ Items <= MaxSize
    /\ mem \subseteq Logs /\ safe \subseteq Logs /\ captured \subseteq Logs

\* The sentinel is the last thing the sender gets: from the moment main puts it
\* the capture process is dead, whoever interrupted whom, and no log follows it
\* in the pipe.  (BufferSender takes this as the guard of its Capture.)
SentinelIsLast ==
    /\ sentinels > 0 \/ Stop \in Range(pipe) => scapy = "dead"
    /\ \A i, j \in DOMAIN pipe : pipe[i] = Stop /\ i < j => pipe[j] = Stop

\* As long as the sender lives no captured log is anywhere but in the hands of
\* the feeder, the pipe or the sender, or safe; and once it has ended by itself,
\* whatever led it there, every captured log is safe but those in the feeder of a
\* capture process that was killed.
GracefulLosesNothing ==
    /\ sender # "dead" =>
         captured = Range(feeder) \cup (Range(pipe) \ {Stop}) \cup mem \cup safe
    /\ sender = "stopped" => captured = safe \cup Range(feeder)

\* What can keep the sentinel from the sender, or main from its exit.
Stuck ==
    \/ wlock = "broken"
    \/ scapy = "dead" /\ feeder # <<>>
    \/ SenderEnded /\ (PipeFull \/ Items >= MaxSize)

\* A single signal ends the agent, wherever it meets it, and so does the end of
\* the capture process without any signal, unless the capture process was killed
\* with items in its feeder or the queue has filled up behind a sender that is gone.
ShutdownEnds ==
    /\ signals = 1 ~> main = "gone" \/ signals > 1 \/ Stuck
    /\ scapy = "dead" ~> main = "gone" \/ Triggered \/ Stuck

-----------------------------------------------------------------------------
(* What of ShutdownEnds is safety: everything but the fairness rule.       *)

\* The shutdown has begun: no packet comes in any more.
Ending == stopEvent \/ scapy = "dead"

\* The places main still has to go through, a put of the sentinel among them.
MainSteps ==
    CASE main \in {"join", "hScapy"}      -> 5
      [] main \in {"ownIps", "hIps"}       -> 4
      [] main \in {"ownPut", "hPut"}       -> 3
      [] main \in {"ownSender", "hSender"} -> 2
      [] main = "exit"                     -> 1
      [] main = "gone"                     -> 0

\* The put that the capture process may be in, its loop and its exit.
CaptureSteps ==
    CASE scapy = "put" -> 5 [] scapy = "sniff" -> 2 [] scapy = "flush" -> 1 [] scapy = "dead" -> 0

\* The final flush.
SenderSteps == IF SenderEnded THEN 0 ELSE IF sender = "final" THEN 1 ELSE 2

\* A feeder that finds the pipe full takes the lock first.
LockSteps == IF wlock = "free" THEN 1 ELSE 0

\* Steps that the shutdown can still take; an item goes from its feeder
\* to the pipe and from there to the sender.
Left ==
    4 * MainSteps + CaptureSteps + SenderSteps
        + 3 * (Len(feeder) + sentinels) + Len(pipe) + LockSteps

\* The steps that bring the end nearer; the others are the rounds of the sender.
Advance ==
    \/ Own \/ Handler \/ Feeders \/ (\E l \in Logs : Capture(l)) \/ CaptureExits
    \/ SenderGets \/ SenderGetsStop \/ (sender = "final" /\ SenderReturns)

\* From the moment the shutdown has begun only a signal can make it longer, and each
\* step that is not just another round of the sender makes it shorter.
ShutdownShrinks ==
    [][Ending => /\ Left' <= Left \/ signals' > signals
                 /\ Advance => Left' < Left]_vars

\* What main waits for, where it stands, has come or is no more waited for.
MainReady ==
    \/ main \in {"ownIps", "hIps"}
    \/ main = "join" /\ scapy = "dead"
    \/ main = "hScapy" /\ (scapy = "dead" \/ SlowScapy)
    \/ main \in {"ownPut", "hPut"} /\ Items < MaxSize
    \/ main \in {"ownSender", "hSender"} /\ (SenderEnded \/ SlowSender)
    \/ main = "exit" /\ scapy = "dead" /\ ips = "dead" /\ SenderEnded /\ sentinels = 0

\* An item can move on, or the capture process can.
FeederReady == feeder # <<>> /\ scapy # "dead" /\ (~PipeFull \/ wlock = "free")
ScapyReady ==
    \/ scapy = "put" /\ Items < MaxSize /\ captured # Logs
    \/ scapy = "flush" /\ feeder = <<>>
SentinelReady == sentinels > 0 /\ wlock = "free" /\ ~PipeFull /\ main # "gone"
SenderReady == (~SenderEnded /\ pipe # <<>>) \/ sender = "final"

\* A shutdown that one signal or the end of the capture has begun is never at a
\* standstill but for the reasons in Stuck: if main has to wait, what it waits for, a
\* put, a feeder, the way of the sentinel or the final flush, can go on.
ShutdownGoesOn ==
    Ending /\ signals <= 1 /\ main # "gone" /\ ~Stuck
        => MainReady \/ FeederReady \/ ScapyReady \/ SentinelReady \/ SenderReady

-----------------------------------------------------------------------------
(* The inductive invariant behind the safety properties.                   *)

\* main gets to the sentinel only behind the capture process, and the sender to
\* its final flush only behind the sentinel.
BehindCapture ==
    /\ main \in {"ownIps", "ownPut", "ownSender", "hIps", "hPut", "hSender"} => scapy = "dead"
    /\ sender \in {"final", "stopped"} => scapy = "dead" /\ Range(pipe) \subseteq {Stop}
    /\ sender = "stopped" => mem = {}

\* main and the handler put one sentinel each, and the handler comes with a signal.
OneEach ==
    /\ main \in {"join", "ownIps", "ownPut"} => sentinels = 0
    /\ main \in {"hScapy", "hIps", "hPut"} \/ signals = 0 => sentinels <= 1
    /\ main \in {"join", "ownIps", "ownPut", "ownSender"} => signals = 0
    /\ main \in {"hScapy", "hIps", "hPut", "hSender"} => signals > 0

\* A put in progress has its log, a feeder that holds the lock its item, and main
\* waits for the capture process with stop_event clear.
InProgress ==
    /\ scapy = "put" => captured # Logs
    /\ wlock = "scapy" => scapy # "dead" /\ feeder # <<>>
    /\ main = "join" => ~stopEvent

\* Behind the join with the listener, and at an exit that no second signal has
\* forced, the children that were joined are gone.
Joined ==
    /\ main \in {"ownPut", "ownSender", "hPut", "hSender"} => ips = "dead"
    /\ main = "exit" /\ signals <= 1 => scapy = "dead" /\ ips = "dead"

\* No sentinel gets lost: once main has put one, a sender that lives has it before it.
SentinelOnItsWay ==
    \/ main \in {"ownSender", "hSender"}
    \/ main = "exit" /\ signals <= 1
    => SenderEnded \/ sender = "final" \/ sentinels > 0 \/ Stop \in Range(pipe)

IInv ==
    /\ TypeOK /\ BehindCapture /\ OneEach /\ SentinelIsLast /\ GracefulLosesNothing
    /\ InProgress /\ Joined /\ SentinelOnItsWay

-----------------------------------------------------------------------------
(* What the documentation says and the code does not do.                   *)

\* "Press Ctrl+C once.  The agent stops Scapy, drains the IPC queue, flushes
\* remaining logs, and exits cleanly" (README.md line 325).
CtrlCDrains == main = "gone" => captured \subseteq safe

\* The same, of the end: one signal ends the agent.
OneSignalEnds == signals = 1 ~> main = "gone" \/ signals > 1
=============================================================================
