------------------------ MODULE AgentLifecycle_proof ------------------------
(***************************************************************************)
(* Proofs about AgentLifecycle, for any logs, any capacity of the queue    *)
(* and its pipe, and any number of signals: the sentinel is the last thing *)
(* the sender gets, and a sender that ends by itself leaves no log behind  *)
(* but those of a capture process that was killed.  The argument: the      *)
(* sentinel is put only behind the capture process (BehindCapture), and a  *)
(* dead process writes no more.                                            *)
(***************************************************************************)
EXTENDS AgentLifecycle, TLAPS

-----------------------------------------------------------------------------
(* The pipe and the feeder.                                                *)

StopsLast(q) == \A i, j \in DOMAIN q : q[i] = Stop /\ i < j => q[j] = Stop

\* One more item at the end.
LEMMA Put ==
    ASSUME NEW S, NEW q \in Seq(S), NEW e \in S
    PROVE  /\ Append(q, e) \in Seq(S) /\ Len(Append(q, e)) = Len(q) + 1
           /\ Range(Append(q, e)) = Range(q) \cup {e}
           /\ StopsLast(q) /\ (e = Stop \/ Stop \notin Range(q)) => StopsLast(Append(q, e))
<1> DEFINE p == Append(q, e)
<1>1. /\ p \in Seq(S) /\ Len(q) \in Nat /\ Len(p) = Len(q) + 1
      /\ DOMAIN q = 1..Len(q) /\ DOMAIN p = 1..(Len(q) + 1) /\ p[Len(q) + 1] = e
      /\ \A i \in 1..Len(q) : p[i] = q[i]
  OBVIOUS
<1> HIDE DEF p
<1>2. \A i \in 1..(Len(q) + 1) : i \in 1..Len(q) \/ i = Len(q) + 1
  BY <1>1
<1>3. Range(p) = Range(q) \cup {e}
  <2>1. Range(p) \subseteq Range(q) \cup {e}
    BY <1>1, <1>2 DEF Range
  <2>2. \A i \in 1..Len(q) : i \in 1..(Len(q) + 1)
    BY <1>1
  <2>3. Len(q) + 1 \in 1..(Len(q) + 1)
    BY <1>1
  <2> QED
    BY <1>1, <2>1, <2>2, <2>3 DEF Range
<1>4. ASSUME StopsLast(q), e = Stop \/ Stop \notin Range(q) PROVE StopsLast(p)
  <2> SUFFICES ASSUME NEW i \in 1..(Len(q) + 1), NEW j \in 1..(Len(q) + 1), p[i] = Stop, i < j
               PROVE  p[j] = Stop
    BY <1>1 DEF StopsLast
  <2>1. i \in 1..Len(q)
    BY <1>1
  <2>2. q[i] = Stop
    BY <1>1, <2>1
  <2>3. CASE j = Len(q) + 1
    BY <1>1, <1>4, <2>1, <2>2, <2>3 DEF Range
  <2>4. CASE j \in 1..Len(q)
    BY <1>1, <1>4, <2>1, <2>2, <2>4 DEF StopsLast
  <2> QED
    BY <1>2, <2>3, <2>4
<1> QED
  BY <1>1, <1>3, <1>4 DEF p

\* The first item is taken.
LEMMA Get ==
    ASSUME NEW S, NEW q \in Seq(S), q # <<>>
    PROVE  /\ Head(q) \in S /\ Tail(q) \in Seq(S) /\ Len(Tail(q)) = Len(q) - 1
           /\ Head(q) \in Range(q)
           /\ Range(q) = Range(Tail(q)) \cup {Head(q)}
           /\ StopsLast(q) => StopsLast(Tail(q))
<1> DEFINE t == Tail(q)
<1>1. /\ Head(q) \in S /\ t \in Seq(S) /\ Len(q) \in Nat \ {0} /\ Head(q) = q[1]
      /\ DOMAIN q = 1..Len(q) /\ DOMAIN t = 1..(Len(q) - 1) /\ Len(t) = Len(q) - 1
      /\ \A i \in 1..(Len(q) - 1) : t[i] = q[i + 1]
  OBVIOUS
<1> HIDE DEF t
<1>2. \A i \in 1..(Len(q) - 1) : i + 1 \in 1..Len(q)
  BY <1>1
<1>3. Range(q) = Range(t) \cup {Head(q)}
  <2>1. Range(t) \subseteq Range(q)
    BY <1>1, <1>2 DEF Range
  <2>2. Head(q) \in Range(q)
    <3>1. 1 \in 1..Len(q)
      BY <1>1
    <3> QED
      BY <1>1, <3>1 DEF Range
  <2>3. ASSUME NEW i \in 1..Len(q), i # 1 PROVE q[i] \in Range(t)
    <3>1. i - 1 \in 1..(Len(q) - 1) /\ i = (i - 1) + 1
      BY <1>1, <2>3
    <3>2. t[i - 1] = q[i]
      BY <1>1, <3>1
    <3> QED
      BY <1>1, <3>1, <3>2 DEF Range
  <2>4. Range(q) \subseteq Range(t) \cup {Head(q)}
    BY <1>1, <2>3 DEF Range
  <2> QED
    BY <2>1, <2>2, <2>4
<1>4. ASSUME StopsLast(q) PROVE StopsLast(t)
  <2> SUFFICES ASSUME NEW i \in 1..(Len(q) - 1), NEW j \in 1..(Len(q) - 1), t[i] = Stop, i < j
               PROVE  t[j] = Stop
    BY <1>1 DEF StopsLast
  <2>1. i + 1 \in 1..Len(q) /\ j + 1 \in 1..Len(q) /\ i + 1 < j + 1
    BY <1>2
  <2>2. t[i] = q[i + 1] /\ t[j] = q[j + 1]
    BY <1>1
  <2> QED
    BY <1>1, <1>4, <2>1, <2>2 DEF StopsLast
<1> QED
  BY <1>1, <1>3, <1>4 DEF t

\* An empty pipe.
LEMMA NoItems == <<>> \in Seq(Logs \cup {Stop}) /\ Len(<<>>) = 0 /\ Range(<<>>) = {} /\ StopsLast(<<>>)
BY DEF Range, StopsLast

-----------------------------------------------------------------------------
(* Types.                                                                  *)

LEMMA TypeStep ==
    ASSUME IInv, Next
    PROVE  TypeOK'
<1>0. /\ TypeOK /\ OneEach
      /\ Len(feeder) \in Nat /\ Len(pipe) \in Nat /\ sentinels \in Nat
      /\ Len(feeder) + sentinels + Len(pipe) <= MaxSize
  BY DEF IInv, TypeOK, Items
<1> USE LifecycleAssumption
<1>1. ASSUME NEW l \in Logs, Capture(l) PROVE TypeOK'
  <2>1. feeder' \in Seq(Logs) /\ Len(feeder') = Len(feeder) + 1
    BY <1>0, <1>1, Put DEF Capture, TypeOK
  <2>2. Items' <= MaxSize
    BY <1>0, <1>1, <2>1 DEF Capture, Items, ipc
  <2> QED
    BY <1>0, <1>1, <2>1, <2>2 DEF Capture, TypeOK, mainVars
<1>2. CASE PacketArrives
  BY <1>0, <1>2 DEF PacketArrives, TypeOK, mainVars, children, ipc, logs, Items
<1>3. CASE CaptureEnds
  BY <1>0, <1>3 DEF CaptureEnds, TypeOK, mainVars, children, ipc, logs, Items
<1>4. CASE CaptureExits
  BY <1>0, <1>4 DEF CaptureExits, TypeOK, mainVars, children, ipc, logs, Items
<1>5. CASE FeederBlocks
  BY <1>0, <1>5 DEF FeederBlocks, TypeOK, mainVars, children, ipc, logs, Items
<1>6. CASE CaptureWrites
  <2>1. /\ feeder' \in Seq(Logs) /\ Len(feeder') = Len(feeder) - 1
        /\ pipe' \in Seq(Logs \cup {Stop}) /\ Len(pipe') = Len(pipe) + 1 /\ Len(pipe') <= PipeCap
    BY <1>0, <1>6, Put, Get DEF CaptureWrites, TypeOK, PipeFull
  <2>2. Items' <= MaxSize
    BY <1>0, <1>6, <2>1 DEF CaptureWrites, Items
  <2> QED
    BY <1>0, <1>6, <2>1, <2>2 DEF CaptureWrites, TypeOK, mainVars, children, logs
<1>7. CASE MainWrites
  <2>1. /\ pipe' \in Seq(Logs \cup {Stop}) /\ Len(pipe') = Len(pipe) + 1 /\ Len(pipe') <= PipeCap
    BY <1>0, <1>7, Put DEF MainWrites, TypeOK, PipeFull
  <2>2. Items' <= MaxSize /\ sentinels' \in 0..2
    BY <1>0, <1>7, <2>1 DEF MainWrites, Items, TypeOK
  <2> QED
    BY <1>0, <1>7, <2>1, <2>2 DEF MainWrites, TypeOK, mainVars, children, logs
<1>8. CASE SenderGets
  <2>1. pipe' \in Seq(Logs \cup {Stop}) /\ Len(pipe') = Len(pipe) - 1
    BY <1>0, <1>8, Get DEF SenderGets, TypeOK
  <2>2. Items' <= MaxSize /\ Len(pipe') <= PipeCap
    BY <1>0, <1>8, <2>1 DEF SenderGets, Items, TypeOK
  <2>3. mem' \subseteq Logs
    BY <1>0, <1>8, Get DEF SenderGets, TypeOK
  <2> QED
    BY <1>0, <1>8, <2>1, <2>2, <2>3 DEF SenderGets, TypeOK, mainVars
<1>9. CASE SenderTimeout
  BY <1>0, <1>9 DEF SenderTimeout, TypeOK, mainVars, children, ipc, logs, Items
<1>10. CASE SenderReturns
  BY <1>0, <1>10 DEF SenderReturns, TypeOK, mainVars, children, ipc, logs, Items
<1>11. CASE SenderGetsStop
  <2>1. pipe' \in Seq(Logs \cup {Stop}) /\ Len(pipe') = 0
    BY <1>0, <1>11, NoItems DEF SenderGetsStop, TypeOK
  <2>2. Items' <= MaxSize /\ Len(pipe') <= PipeCap
    BY <1>0, <1>11, <2>1 DEF SenderGetsStop, Items, TypeOK
  <2>3. mem' \subseteq Logs
    BY <1>0, <1>11 DEF SenderGetsStop, TypeOK, Range
  <2> QED
    BY <1>0, <1>11, <2>1, <2>2, <2>3 DEF SenderGetsStop, TypeOK, mainVars
<1>12. CASE SenderDies
  BY <1>0, <1>12 DEF SenderDies, TypeOK, mainVars, children, ipc, logs, KillSender, Items
<1>13. CASE IpsEnds
  BY <1>0, <1>13 DEF IpsEnds, TypeOK, mainVars, children, ipc, logs, Items
<1>14. CASE JoinCapture
  BY <1>0, <1>14 DEF JoinCapture, TypeOK, mainVars, children, ipc, logs, Go, Items
<1>15. CASE OwnJoinsIps
  BY <1>0, <1>15 DEF OwnJoinsIps, TypeOK, mainVars, children, ipc, logs, Go, Items
<1>16. CASE OwnPuts
  <2>1. sentinels' \in 0..2
    BY <1>0, <1>16 DEF OwnPuts, PutStop, TypeOK, OneEach
  <2>2. Items' <= MaxSize
    BY <1>0, <1>16 DEF OwnPuts, PutStop, Items
  <2> QED
    BY <1>0, <1>16, <2>1, <2>2 DEF OwnPuts, PutStop, Go, TypeOK, children, logs
<1>17. CASE OwnJoinsSender
  BY <1>0, <1>17 DEF OwnJoinsSender, TypeOK, mainVars, children, ipc, logs, Go, Items
<1>18. CASE Exit
  BY <1>0, <1>18 DEF Exit, TypeOK, mainVars, children, ipc, logs, Go, Items
<1>19. CASE HandlerJoinsScapy
  BY <1>0, <1>19 DEF HandlerJoinsScapy, TypeOK, mainVars, children, ipc, logs, KillScapy, Items
<1>20. CASE HandlerJoinsIps
  BY <1>0, <1>20 DEF HandlerJoinsIps, TypeOK, mainVars, children, ipc, logs, Items
<1>21. CASE HandlerPuts
  <2>1. sentinels' \in 0..2
    BY <1>0, <1>21 DEF HandlerPuts, PutStop, TypeOK, OneEach
  <2>2. Items' <= MaxSize
    BY <1>0, <1>21 DEF HandlerPuts, PutStop, Items
  <2> QED
    BY <1>0, <1>21, <2>1, <2>2 DEF HandlerPuts, PutStop, Go, TypeOK, children, logs
<1>22. CASE HandlerJoinsSender
  BY <1>0, <1>22 DEF HandlerJoinsSender, TypeOK, mainVars, children, ipc, logs, KillSender, SysExit, Items
<1>23. ASSUME NEW kind \in Kinds, Signal(kind) PROVE TypeOK'
  <2>1. signals' \in 0..MaxSignals
    BY <1>0, <1>23 DEF Signal, TypeOK
  <2>2. /\ main' \in {"hScapy", "exit", "gone"} /\ stopEvent' \in BOOLEAN
        /\ exiting' \in BOOLEAN
    BY <1>0, <1>23 DEF Signal, SysExit, TypeOK
  <2>3. interrupts' \subseteq {"scapy", "ips", "sender"}
    BY <1>0, <1>23, Zenon DEF Signal, TypeOK
  <2>4. UNCHANGED <<scapy, ips, sender, ipc, logs>> /\ UNCHANGED Items
    BY <1>23 DEF Signal, Items, ipc
  <2> QED
    BY <1>0, <2>1, <2>2, <2>3, <2>4 DEF TypeOK, ipc, logs
<1>24. ASSUME NEW child \in interrupts, Interrupted(child) PROVE TypeOK'
  BY <1>0, <1>24 DEF Interrupted, KillScapy, KillSender, TypeOK, Items, mainVars
<1> QED
  BY <1>1, <1>2, <1>3, <1>4, <1>5, <1>6, <1>7, <1>8, <1>9, <1>10, <1>11, <1>12, <1>13, <1>14, <1>15, <1>16, <1>17, <1>18, <1>19, <1>20, <1>21, <1>22, <1>23, <1>24
     DEF Next, Scapy, Feeders, Sender, Own, Handler

-----------------------------------------------------------------------------
(* main, the handler and the sentinels.                                    *)

LEMMA OneEachStep ==
    ASSUME IInv, Next
    PROVE  OneEach'
<1>0. TypeOK /\ OneEach /\ sentinels \in 0..2 /\ signals \in Nat
  BY LifecycleAssumption DEF IInv, TypeOK
<1> USE DEF OneEach
<1>1. ASSUME NEW kind \in Kinds, Signal(kind) PROVE OneEach'
  BY <1>0, <1>1 DEF Signal, SysExit, Triggered, ipc
<1>2. CASE Own
  BY <1>0, <1>2 DEF Own, JoinCapture, OwnJoinsIps, OwnPuts, OwnJoinsSender, Exit, Go, PutStop, ipc
<1>3. CASE Handler
  BY <1>0, <1>3 DEF Handler, HandlerJoinsScapy, HandlerJoinsIps, HandlerPuts, HandlerJoinsSender,
                    SysExit, KillScapy, PutStop, ipc
<1>4. CASE MainWrites
  BY <1>0, <1>4 DEF MainWrites, mainVars
<1>5. UNCHANGED <<main, signals, sentinels>> => OneEach'
  BY <1>0
<1>6. CASE Scapy \/ FeederBlocks \/ CaptureWrites
  BY <1>5, <1>6 DEF Scapy, PacketArrives, Capture, CaptureEnds, CaptureExits, FeederBlocks,
                    CaptureWrites, mainVars, ipc
<1>7. CASE Sender \/ SenderDies \/ IpsEnds
  BY <1>5, <1>7 DEF Sender, SenderGets, SenderTimeout, SenderReturns, SenderGetsStop, SenderDies,
                    IpsEnds, mainVars, ipc
<1>8. ASSUME NEW child \in interrupts, Interrupted(child) PROVE OneEach'
  BY <1>5, <1>8 DEF Interrupted, mainVars
<1> QED
  BY <1>1, <1>2, <1>3, <1>4, <1>6, <1>7, <1>8 DEF Next, Feeders

-----------------------------------------------------------------------------
(* The sentinel and the capture process.                                   *)

\* A step leaves the pipe alone, takes its head, empties it behind the sentinel, or
\* adds a log of a living capture process or a sentinel.
LEMMA PipeStep ==
    ASSUME IInv, Next
    PROVE  \/ UNCHANGED pipe
           \/ sender = "get" /\ pipe # <<>> /\ pipe' = Tail(pipe)
           \/ SenderGetsStop
           \/ CaptureWrites
           \/ MainWrites
BY DEF Next, Scapy, Feeders, Sender, Own, Handler, PacketArrives, Capture, CaptureEnds,
       CaptureExits, FeederBlocks, SenderGets, SenderTimeout, SenderReturns, SenderDies, IpsEnds,
       JoinCapture, OwnJoinsIps, OwnPuts, OwnJoinsSender, Exit, HandlerJoinsScapy, HandlerJoinsIps,
       HandlerPuts, HandlerJoinsSender, Signal, Interrupted, PutStop, KillScapy, ipc

\* The capture process does not come back.
LEMMA CaptureStaysDead ==
    ASSUME IInv, Next, scapy = "dead"
    PROVE  scapy' = "dead"
BY DEF Next, Scapy, Feeders, Sender, Own, Handler, PacketArrives, Capture, CaptureEnds,
       CaptureExits, FeederBlocks, CaptureWrites, MainWrites, SenderGets, SenderTimeout,
       SenderReturns, SenderGetsStop, SenderDies, IpsEnds,
       JoinCapture, OwnJoinsIps, OwnPuts, OwnJoinsSender, Exit, HandlerJoinsScapy, HandlerJoinsIps,
       HandlerPuts, HandlerJoinsSender, Signal, Interrupted, KillScapy, children

\* More sentinels come only from main behind the capture process.
LEMMA SentinelsStep ==
    ASSUME IInv, Next, sentinels' > 0
    PROVE  sentinels > 0 \/ scapy = "dead"
<1>0. sentinels \in 0..2
  BY DEF IInv, TypeOK
<1>1. CASE OwnPuts \/ HandlerPuts
  BY <1>1 DEF OwnPuts, HandlerPuts, IInv, BehindCapture
<1>2. CASE MainWrites
  BY <1>2 DEF MainWrites
<1>3. CASE UNCHANGED sentinels
  BY <1>3
<1>4. OwnPuts \/ HandlerPuts \/ MainWrites \/ UNCHANGED sentinels
  BY DEF Next, Scapy, Feeders, Sender, Own, Handler, PacketArrives, Capture, CaptureEnds,
       CaptureExits, FeederBlocks, CaptureWrites, SenderGets, SenderTimeout,
       SenderReturns, SenderGetsStop, SenderDies, IpsEnds,
       JoinCapture, OwnJoinsIps, OwnJoinsSender, Exit, HandlerJoinsScapy, HandlerJoinsIps,
       HandlerJoinsSender, Signal, Interrupted, KillScapy, ipc
<1> QED
  BY <1>1, <1>2, <1>3, <1>4

LEMMA SentinelStep ==
    ASSUME IInv, Next
    PROVE  SentinelIsLast'
<1>0. /\ pipe \in Seq(Logs \cup {Stop}) /\ feeder \in Seq(Logs) /\ Stop \notin Logs
      /\ StopsLast(pipe)
      /\ sentinels > 0 \/ Stop \in Range(pipe) => scapy = "dead"
  BY LifecycleAssumption DEF IInv, TypeOK, SentinelIsLast, StopsLast
<1>1. StopsLast(pipe') /\ (Stop \in Range(pipe') => scapy = "dead")
  <2>1. CASE UNCHANGED pipe
    BY <1>0, <2>1
  <2>2. CASE pipe # <<>> /\ pipe' = Tail(pipe)
    BY <1>0, <2>2, Get
  <2>3. CASE SenderGetsStop
    BY <2>3, NoItems DEF SenderGetsStop
  <2>4. CASE CaptureWrites
    <3>1. Head(feeder) \in Logs \cup {Stop} /\ Head(feeder) # Stop /\ scapy # "dead"
      BY <1>0, <2>4, Get DEF CaptureWrites
    <3> QED
      BY <1>0, <2>4, <3>1, Put DEF CaptureWrites
  <2>5. CASE MainWrites
    BY <1>0, <2>5, Put DEF MainWrites
  <2> QED
    BY <2>1, <2>2, <2>3, <2>4, <2>5, PipeStep
<1>2. sentinels' > 0 \/ Stop \in Range(pipe') => scapy' = "dead"
  BY <1>0, <1>1, SentinelsStep, CaptureStaysDead
<1> QED
  BY <1>1, <1>2 DEF SentinelIsLast, StopsLast

LEMMA BehindStep ==
    ASSUME IInv, Next
    PROVE  BehindCapture'
<1>0. /\ pipe \in Seq(Logs \cup {Stop})
      /\ BehindCapture
  BY DEF IInv, TypeOK
<1>1. main' \in {"ownIps", "ownPut", "ownSender", "hIps", "hPut", "hSender"} => scapy' = "dead"
  <2>1. CASE JoinCapture
    BY <2>1, CaptureStaysDead DEF JoinCapture
  <2>2. CASE HandlerJoinsScapy
    BY <2>2, CaptureStaysDead DEF HandlerJoinsScapy, KillScapy
  <2>3. CASE OwnJoinsIps \/ OwnPuts \/ HandlerJoinsIps \/ HandlerPuts
    BY <1>0, <2>3, CaptureStaysDead
       DEF OwnJoinsIps, OwnPuts, HandlerJoinsIps, HandlerPuts, Go, BehindCapture
  <2>4. CASE OwnJoinsSender \/ Exit \/ HandlerJoinsSender \/ \E kind \in Kinds : Signal(kind)
    BY <2>4 DEF OwnJoinsSender, Exit, HandlerJoinsSender, Signal, Go, SysExit
  <2>5. CASE UNCHANGED main
    BY <1>0, <2>5, CaptureStaysDead DEF BehindCapture
  <2>6. UNCHANGED main \/ Own \/ Handler \/ \E kind \in Kinds : Signal(kind)
    BY DEF Next, Scapy, Feeders, Sender, PacketArrives, Capture, CaptureEnds,
       CaptureExits, FeederBlocks, CaptureWrites, MainWrites, SenderGets, SenderTimeout,
       SenderReturns, SenderGetsStop, SenderDies, IpsEnds, Interrupted, mainVars
  <2> QED
    BY <2>1, <2>2, <2>3, <2>4, <2>5, <2>6 DEF Own, Handler
<1>2. sender' \in {"final", "stopped"} => scapy' = "dead" /\ Range(pipe') \subseteq {Stop}
  <2>1. CASE SenderGetsStop
    <3>1. Stop \in Range(pipe)
      BY <1>0, <2>1, Get DEF SenderGetsStop
    <3>2. scapy' = "dead"
      BY <3>1, CaptureStaysDead DEF IInv, SentinelIsLast
    <3> QED
      BY <2>1, <3>2, NoItems DEF SenderGetsStop
  <2>2. ASSUME sender \in {"final", "stopped"}
        PROVE  scapy' = "dead" /\ Range(pipe') \subseteq {Stop}
    <3>1. scapy = "dead" /\ Range(pipe) \subseteq {Stop}
      BY <1>0, <2>2 DEF BehindCapture
    <3>2. CASE UNCHANGED pipe
      BY <3>1, <3>2, CaptureStaysDead
    <3>3. CASE MainWrites
      BY <1>0, <3>1, <3>3, CaptureStaysDead, Put DEF MainWrites
    <3>4. ~CaptureWrites /\ ~SenderGetsStop /\ sender # "get"
      BY <2>2, <3>1 DEF CaptureWrites, SenderGetsStop
    <3> QED
      BY <3>2, <3>3, <3>4, PipeStep
  <2>3. sender' \in {"final", "stopped"} => SenderGetsStop \/ sender \in {"final", "stopped"}
    BY DEF Next, Scapy, Feeders, Sender, Own, Handler, PacketArrives, Capture, CaptureEnds,
       CaptureExits, FeederBlocks, CaptureWrites, MainWrites, SenderGets, SenderTimeout,
       SenderReturns, SenderDies, IpsEnds,
       JoinCapture, OwnJoinsIps, OwnPuts, OwnJoinsSender, Exit, HandlerJoinsScapy, HandlerJoinsIps,
       HandlerPuts, HandlerJoinsSender, Signal, Interrupted, KillSender, SenderEnded, children
  <2> QED
    BY <2>1, <2>2, <2>3
<1>3. sender' = "stopped" => mem' = {}
  <2>1. CASE SenderReturns
    BY <2>1 DEF SenderReturns
  <2>2. CASE UNCHANGED <<sender, mem>>
    BY <1>0, <2>2 DEF BehindCapture
  <2>3. CASE sender' \in {"get", "post", "drain", "final", "dead"}
    BY <2>3
  <2>4. SenderReturns \/ UNCHANGED <<sender, mem>> \/ sender' \in {"get", "post", "drain", "final", "dead"}
    BY DEF Next, Scapy, Feeders, Sender, Own, Handler, PacketArrives, Capture, CaptureEnds,
       CaptureExits, FeederBlocks, CaptureWrites, MainWrites, SenderGets, SenderTimeout,
       SenderGetsStop, SenderDies, IpsEnds,
       JoinCapture, OwnJoinsIps, OwnPuts, OwnJoinsSender, Exit, HandlerJoinsScapy, HandlerJoinsIps,
       HandlerPuts, HandlerJoinsSender, Signal, Interrupted, KillSender, SenderEnded, children, logs
  <2> QED
    BY <2>1, <2>2, <2>3, <2>4
<1> QED
  BY <1>1, <1>2, <1>3 DEF BehindCapture

-----------------------------------------------------------------------------
(* Where the logs are.                                                     *)

Places == Range(feeder) \cup (Range(pipe) \ {Stop}) \cup mem \cup safe

\* A sender that is dead stays dead.
LEMMA LivesBefore ==
    ASSUME IInv, Next, sender' # "dead"
    PROVE  sender # "dead"
BY DEF Next, Scapy, Feeders, Sender, Own, Handler, PacketArrives, Capture, CaptureEnds,
       CaptureExits, FeederBlocks, CaptureWrites, MainWrites, SenderGets, SenderTimeout,
       SenderReturns, SenderGetsStop, SenderDies, IpsEnds,
       JoinCapture, OwnJoinsIps, OwnPuts, OwnJoinsSender, Exit, HandlerJoinsScapy, HandlerJoinsIps,
       HandlerPuts, HandlerJoinsSender, Signal, Interrupted, KillSender, SenderEnded, children

\* As long as the sender lives, logs move from one place to the next.
LEMMA PlacesStep ==
    ASSUME IInv, Next, sender' # "dead"
    PROVE  captured' = Places'
<1>0. /\ pipe \in Seq(Logs \cup {Stop}) /\ feeder \in Seq(Logs) /\ Stop \notin Logs
      /\ captured = Places /\ mem \subseteq Logs /\ safe \subseteq Logs
  BY LivesBefore, LifecycleAssumption DEF IInv, TypeOK, GracefulLosesNothing, Places
<1>1. ASSUME NEW l \in Logs, Capture(l) PROVE captured' = Places'
  <2>1. Range(feeder') = Range(feeder) \cup {l}
    BY <1>0, <1>1, Put DEF Capture
  <2> QED
    BY <1>0, <1>1, <2>1 DEF Capture, Places
<1>2. CASE CaptureWrites
  <2>1. /\ Head(feeder) \in Logs
        /\ Range(feeder) = Range(feeder') \cup {Head(feeder)}
    BY <1>0, <1>2, Get DEF CaptureWrites
  <2>2. Range(pipe') = Range(pipe) \cup {Head(feeder)}
    BY <1>0, <1>2, <2>1, Put DEF CaptureWrites
  <2>3. Head(feeder) # Stop
    BY <1>0, <2>1
  <2> QED
    BY <1>0, <1>2, <2>1, <2>2, <2>3 DEF CaptureWrites, Places, logs
<1>3. CASE MainWrites
  <2>1. Range(pipe') = Range(pipe) \cup {Stop}
    BY <1>0, <1>3, Put DEF MainWrites
  <2> QED
    BY <1>0, <1>3, <2>1 DEF MainWrites, Places, logs
<1>4. CASE SenderGets
  <2>1. Range(pipe) = Range(pipe') \cup {Head(pipe)} /\ Head(pipe) # Stop
    BY <1>0, <1>4, Get DEF SenderGets
  <2> QED
    BY <1>0, <1>4, <2>1 DEF SenderGets, Places
<1>5. CASE SenderGetsStop
  <2>1. Range(pipe') = {}
    BY <1>5, NoItems DEF SenderGetsStop
  <2> QED
    BY <1>0, <1>5, <2>1 DEF SenderGetsStop, Places
<1>6. CASE SenderReturns
  BY <1>0, <1>6 DEF SenderReturns, Places, ipc
<1>7. CASE UNCHANGED <<feeder, pipe, mem, safe, captured>>
  BY <1>0, <1>7 DEF Places
<1>8. \/ \E l \in Logs : Capture(l)
      \/ CaptureWrites \/ MainWrites \/ SenderGets \/ SenderGetsStop \/ SenderReturns
      \/ UNCHANGED <<feeder, pipe, mem, safe, captured>>
  BY DEF Next, Scapy, Feeders, Sender, Own, Handler, PacketArrives, CaptureEnds,
       CaptureExits, FeederBlocks, SenderTimeout, SenderDies, IpsEnds,
       JoinCapture, OwnJoinsIps, OwnPuts, OwnJoinsSender, Exit, HandlerJoinsScapy, HandlerJoinsIps,
       HandlerPuts, HandlerJoinsSender, Signal, Interrupted, KillSender, KillScapy, PutStop,
       SenderEnded, ipc, logs
<1> QED
  BY <1>1, <1>2, <1>3, <1>4, <1>5, <1>6, <1>7, <1>8

LEMMA GracefulStep ==
    ASSUME IInv, Next
    PROVE  GracefulLosesNothing'
<1>1. sender' # "dead" => captured' = Places'
  BY PlacesStep
<1>2. sender' = "stopped" => mem' = {} /\ Range(pipe') \subseteq {Stop}
  BY BehindStep DEF BehindCapture
<1> QED
  BY <1>1, <1>2 DEF GracefulLosesNothing, Places

-----------------------------------------------------------------------------
(* What keeps the shutdown going.                                          *)

LEMMA InProgressStep ==
    ASSUME IInv, Next
    PROVE  InProgress'
<1>0. /\ captured \subseteq Logs /\ feeder \in Seq(Logs)
      /\ scapy \in {"sniff", "put", "flush", "dead"}
  BY DEF IInv, TypeOK
<1>1. scapy' = "put" => captured' # Logs
  BY DEF IInv, InProgress, Next, Scapy, Feeders, Sender, Own, Handler, PacketArrives, Capture, CaptureEnds,
       CaptureExits, FeederBlocks, CaptureWrites, MainWrites, SenderGets, SenderTimeout,
       SenderReturns, SenderGetsStop, SenderDies, IpsEnds,
       JoinCapture, OwnJoinsIps, OwnPuts, OwnJoinsSender, Exit, HandlerJoinsScapy, HandlerJoinsIps,
       HandlerPuts, HandlerJoinsSender, Signal, Interrupted, KillScapy, children, logs
<1>2. main' = "join" => ~stopEvent'
  BY DEF IInv, InProgress, Next, Scapy, Feeders, Sender, Own, Handler, PacketArrives, Capture, CaptureEnds,
       CaptureExits, FeederBlocks, CaptureWrites, MainWrites, SenderGets, SenderTimeout,
       SenderReturns, SenderGetsStop, SenderDies, IpsEnds,
       JoinCapture, OwnJoinsIps, OwnPuts, OwnJoinsSender, Exit, HandlerJoinsScapy, HandlerJoinsIps,
       HandlerPuts, HandlerJoinsSender, Signal, Interrupted, Go, Triggered, SysExit, mainVars
<1>3. wlock' = "scapy" => scapy' # "dead" /\ feeder' # <<>>
  <2>1. ASSUME NEW l \in Logs, Capture(l) PROVE scapy' # "dead" /\ feeder' # <<>>
    <3>1. Len(feeder') = Len(feeder) + 1 /\ Len(feeder) \in Nat /\ feeder' \in Seq(Logs)
      BY <1>0, <2>1, Put DEF Capture
    <3>2. Len(<<>>) = 0
      OBVIOUS
    <3> QED
      BY <2>1, <3>1, <3>2 DEF Capture
  <2>2. CASE CaptureWrites
    BY <2>2 DEF CaptureWrites
  <2>3. CASE UNCHANGED feeder
    BY <2>3 DEF IInv, InProgress, Next, Scapy, Feeders, Sender, Own, Handler, PacketArrives, Capture, CaptureEnds,
       CaptureExits, FeederBlocks, CaptureWrites, MainWrites, SenderGets, SenderTimeout,
       SenderReturns, SenderGetsStop, SenderDies, IpsEnds,
       JoinCapture, OwnJoinsIps, OwnPuts, OwnJoinsSender, Exit, HandlerJoinsScapy, HandlerJoinsIps,
       HandlerPuts, HandlerJoinsSender, Signal, Interrupted, KillScapy, children, ipc, PutStop
  <2>4. (\E l \in Logs : Capture(l)) \/ CaptureWrites \/ UNCHANGED feeder
    BY DEF Next, Scapy, Feeders, Sender, Own, Handler, PacketArrives, CaptureEnds,
       CaptureExits, FeederBlocks, MainWrites, SenderGets, SenderTimeout,
       SenderReturns, SenderGetsStop, SenderDies, IpsEnds,
       JoinCapture, OwnJoinsIps, OwnPuts, OwnJoinsSender, Exit, HandlerJoinsScapy, HandlerJoinsIps,
       HandlerPuts, HandlerJoinsSender, Signal, Interrupted, KillScapy, PutStop, ipc
  <2> QED
    BY <2>1, <2>2, <2>3, <2>4
<1> QED
  BY <1>1, <1>2, <1>3 DEF InProgress

LEMMA JoinedStep ==
    ASSUME IInv, Next
    PROVE  Joined'
<1>1. signals \in Nat
  BY LifecycleAssumption DEF IInv, TypeOK
<1>2. ips = "dead" => ips' = "dead"
  BY DEF Next, Scapy, Feeders, Sender, Own, Handler, PacketArrives, Capture, CaptureEnds,
       CaptureExits, FeederBlocks, CaptureWrites, MainWrites, SenderGets, SenderTimeout,
       SenderReturns, SenderGetsStop, SenderDies, IpsEnds,
       JoinCapture, OwnJoinsIps, OwnPuts, OwnJoinsSender, Exit, HandlerJoinsScapy, HandlerJoinsIps,
       HandlerPuts, HandlerJoinsSender, Signal, Interrupted, children, KillScapy
<1>3. main' \in {"ownPut", "ownSender", "hPut", "hSender"} => ips' = "dead"
  BY <1>2 DEF IInv, Joined, Next, Scapy, Feeders, Sender, Own, Handler, PacketArrives, Capture, CaptureEnds,
       CaptureExits, FeederBlocks, CaptureWrites, MainWrites, SenderGets, SenderTimeout,
       SenderReturns, SenderGetsStop, SenderDies, IpsEnds,
       JoinCapture, OwnJoinsIps, OwnPuts, OwnJoinsSender, Exit, HandlerJoinsScapy, HandlerJoinsIps,
       HandlerPuts, HandlerJoinsSender, Signal, Interrupted, Go, SysExit, mainVars
<1>4. ASSUME main' = "exit", signals' <= 1 PROVE scapy' = "dead" /\ ips' = "dead"
  <2>1. \/ main = "exit" /\ signals' = signals
        \/ main \in {"ownSender", "hSender"}
    BY <1>1, <1>4 DEF IInv, OneEach, Next, Scapy, Feeders, Sender, Own, Handler, PacketArrives, Capture, CaptureEnds,
       CaptureExits, FeederBlocks, CaptureWrites, MainWrites, SenderGets, SenderTimeout,
       SenderReturns, SenderGetsStop, SenderDies, IpsEnds,
       JoinCapture, OwnJoinsIps, OwnPuts, OwnJoinsSender, Exit, HandlerJoinsScapy, HandlerJoinsIps,
       HandlerPuts, HandlerJoinsSender, Signal, Interrupted, Go, SysExit, Triggered, mainVars
  <2>2. scapy = "dead" /\ ips = "dead"
    BY <1>4, <2>1 DEF IInv, Joined, BehindCapture
  <2> QED
    BY <1>2, <2>2, CaptureStaysDead
<1> QED
  BY <1>3, <1>4 DEF Joined

\* The sentinel stays before the sender until it is read.
LEMMA SentinelMoves ==
    ASSUME IInv, Next, SenderEnded \/ sender = "final" \/ sentinels > 0 \/ Stop \in Range(pipe)
    PROVE  (SenderEnded \/ sender = "final" \/ sentinels > 0 \/ Stop \in Range(pipe))'
<1>0. pipe \in Seq(Logs \cup {Stop}) /\ sentinels \in 0..2 /\ MaxSize \in Nat
  BY LifecycleAssumption DEF IInv, TypeOK
<1>1. CASE SenderEnded \/ sender = "final"
  BY <1>1 DEF SenderEnded, Next, Scapy, Feeders, Sender, Own, Handler, PacketArrives, Capture, CaptureEnds,
       CaptureExits, FeederBlocks, CaptureWrites, MainWrites, SenderGets, SenderTimeout,
       SenderReturns, SenderGetsStop, SenderDies, IpsEnds,
       JoinCapture, OwnJoinsIps, OwnPuts, OwnJoinsSender, Exit, HandlerJoinsScapy, HandlerJoinsIps,
       HandlerPuts, HandlerJoinsSender, Signal, Interrupted, KillSender, children
<1>2. CASE sentinels > 0
  <2>1. CASE MainWrites
    BY <1>0, <2>1, Put DEF MainWrites
  <2>2. CASE OwnPuts \/ HandlerPuts
    BY <1>0, <2>2 DEF OwnPuts, HandlerPuts, PutStop
  <2>3. CASE UNCHANGED sentinels
    BY <1>2, <2>3
  <2>4. OwnPuts \/ HandlerPuts \/ MainWrites \/ UNCHANGED sentinels
    BY DEF Next, Scapy, Feeders, Sender, Own, Handler, PacketArrives, Capture, CaptureEnds,
       CaptureExits, FeederBlocks, CaptureWrites, SenderGets, SenderTimeout,
       SenderReturns, SenderGetsStop, SenderDies, IpsEnds,
       JoinCapture, OwnJoinsIps, OwnJoinsSender, Exit, HandlerJoinsScapy, HandlerJoinsIps,
       HandlerJoinsSender, Signal, Interrupted, KillScapy, ipc
  <2> QED
    BY <2>1, <2>2, <2>3, <2>4
<1>3. CASE Stop \in Range(pipe)
  <2>1. CASE UNCHANGED pipe
    BY <1>3, <2>1
  <2>2. CASE SenderGetsStop
    BY <2>2 DEF SenderGetsStop
  <2>3. CASE SenderGets
    <3>1. Range(pipe) = Range(pipe') \cup {Head(pipe)} /\ Head(pipe) # Stop
      BY <1>0, <2>3, Get DEF SenderGets
    <3> QED
      BY <1>3, <3>1
  <2>4. CASE CaptureWrites \/ MainWrites
    <3>1. PICK e \in Logs \cup {Stop} : pipe' = Append(pipe, e)
      <4>1. feeder # <<>> /\ feeder \in Seq(Logs) => Head(feeder) \in Logs
        BY Get
      <4> QED
        BY <2>4, <4>1 DEF CaptureWrites, MainWrites, IInv, TypeOK
    <3>2. Range(pipe') = Range(pipe) \cup {e}
      BY <1>0, <3>1, Put
    <3> QED
      BY <1>3, <3>2
  <2>5. UNCHANGED pipe \/ SenderGets \/ SenderGetsStop \/ CaptureWrites \/ MainWrites
    BY DEF Next, Scapy, Feeders, Sender, Own, Handler, PacketArrives, Capture, CaptureEnds,
       CaptureExits, FeederBlocks, SenderTimeout, SenderReturns, SenderDies, IpsEnds,
       JoinCapture, OwnJoinsIps, OwnPuts, OwnJoinsSender, Exit, HandlerJoinsScapy, HandlerJoinsIps,
       HandlerPuts, HandlerJoinsSender, Signal, Interrupted, PutStop, KillScapy, ipc
  <2> QED
    BY <2>1, <2>2, <2>3, <2>4, <2>5
<1> QED
  BY <1>1, <1>2, <1>3

LEMMA OnItsWayStep ==
    ASSUME IInv, Next
    PROVE  SentinelOnItsWay'
<1>0. signals \in Nat /\ sentinels \in 0..2
  BY LifecycleAssumption DEF IInv, TypeOK
<1>1. CASE OwnPuts \/ HandlerPuts
  BY <1>0, <1>1 DEF OwnPuts, HandlerPuts, PutStop, SentinelOnItsWay
<1>2. CASE ~(OwnPuts \/ HandlerPuts)
  <2> SUFFICES ASSUME main' \in {"ownSender", "hSender"} \/ (main' = "exit" /\ signals' <= 1)
               PROVE  (SenderEnded \/ sender = "final" \/ sentinels > 0 \/ Stop \in Range(pipe))'
    BY DEF SentinelOnItsWay
  <2>1. main \in {"ownSender", "hSender"} \/ (main = "exit" /\ signals <= 1)
    BY <1>0, <1>2 DEF IInv, OneEach, Next, Scapy, Feeders, Sender, Own, Handler, PacketArrives, Capture,
       CaptureEnds, CaptureExits, FeederBlocks, CaptureWrites, MainWrites, SenderGets, SenderTimeout,
       SenderReturns, SenderGetsStop, SenderDies, IpsEnds,
       JoinCapture, OwnJoinsIps, OwnJoinsSender, Exit, HandlerJoinsScapy, HandlerJoinsIps,
       HandlerJoinsSender, Signal, Interrupted, Go, SysExit, Triggered, mainVars
  <2> QED
    BY <2>1, SentinelMoves DEF IInv, SentinelOnItsWay
<1> QED
  BY <1>1, <1>2

-----------------------------------------------------------------------------
(* The theorems.                                                           *)

LEMMA InitInv == Init => IInv
<1> SUFFICES ASSUME Init PROVE IInv
  OBVIOUS
<1>1. Range(<<>>) = {}
  BY NoItems
<1>2. TypeOK
  <2>1. Len(<<>>) = 0 /\ <<>> \in Seq(Logs) /\ <<>> \in Seq(Logs \cup {Stop})
    BY NoItems
  <2>2. Items = 0 /\ Len(pipe) = 0 /\ signals = 0
    BY <2>1 DEF Init, Items
  <2>3. 0 <= MaxSize /\ 0 <= PipeCap /\ 0 \in 0..MaxSignals /\ 0 \in 0..2
    BY LifecycleAssumption
  <2> QED
    BY <2>1, <2>2, <2>3 DEF Init, TypeOK
<1>3. BehindCapture /\ OneEach /\ SentinelIsLast /\ GracefulLosesNothing
  BY <1>1 DEF Init, BehindCapture, OneEach, SentinelIsLast, GracefulLosesNothing
<1>4. InProgress /\ Joined /\ SentinelOnItsWay
  BY DEF Init, InProgress, Joined, SentinelOnItsWay
<1> QED
  BY <1>2, <1>3, <1>4 DEF IInv

LEMMA StepInv == IInv /\ [Next]_vars => IInv'
<1> SUFFICES ASSUME IInv, [Next]_vars PROVE IInv'
  OBVIOUS
<1>1. CASE Next
  BY <1>1, TypeStep, BehindStep, OneEachStep, SentinelStep, GracefulStep,
     InProgressStep, JoinedStep, OnItsWayStep DEF IInv
<1>2. CASE UNCHANGED vars
  BY <1>2 DEF vars, mainVars, children, ipc, logs, IInv, TypeOK, Items, BehindCapture, OneEach,
              SentinelIsLast, GracefulLosesNothing, InProgress, Joined, SentinelOnItsWay, SenderEnded
<1> QED
  BY <1>1, <1>2

\* The inductive invariant: who may put the sentinel, and what the sender knows of it.
THEOREM Invariant == Spec => []IInv
BY InitInv, StepInv, PTL DEF Spec

\* Every variable keeps its type; the queue and the pipe keep their bounds.
THEOREM TypeCorrect == Spec => []TypeOK
<1>1. IInv => TypeOK
  BY DEF IInv
<1> QED
  BY <1>1, Invariant, PTL

\* Nothing follows the sentinel that main or signal_handler puts (sniffer.py): what
\* BufferSender assumes of its queue.
THEOREM SentinelLast == Spec => []SentinelIsLast
<1>1. IInv => SentinelIsLast
  BY DEF IInv
<1> QED
  BY <1>1, Invariant, PTL

\* No log vanishes between the feeder, the pipe and a living sender, and one that
\* ends by itself (run of buffer_sender.py) leaves none behind.
THEOREM LosesNothing == Spec => []GracefulLosesNothing
<1>1. IInv => GracefulLosesNothing
  BY DEF IInv
<1> QED
  BY <1>1, Invariant, PTL
-----------------------------------------------------------------------------
(* The end of the agent.                                                   *)

\* What a sentinel waits for behind a capture process that is dead.
LEMMA SentinelGoes ==
    ASSUME IInv, scapy = "dead", ~Stuck, pipe = <<>>, sentinels > 0, main # "gone"
    PROVE  SentinelReady
<1>1. feeder = <<>> /\ wlock \in {"free", "scapy", "broken"} /\ wlock # "broken"
  BY DEF Stuck, IInv, TypeOK
<1>2. wlock = "free"
  BY <1>1 DEF IInv, InProgress
<1>3. ~PipeFull
  <2>1. Len(pipe) = 0
    BY NoItems
  <2> QED
    BY <2>1, LifecycleAssumption DEF PipeFull
<1> QED
  BY <1>2, <1>3 DEF SentinelReady

LEMMA GoesOn ==
    ASSUME IInv
    PROVE  ShutdownGoesOn
<1> SUFFICES ASSUME Ending, signals <= 1, main # "gone", ~Stuck
             PROVE  MainReady \/ FeederReady \/ ScapyReady \/ SentinelReady \/ SenderReady
  BY DEF ShutdownGoesOn
<1>0. /\ scapy \in {"sniff", "put", "flush", "dead"}
      /\ sender \in {"drain", "get", "post", "final", "stopped", "dead"}
      /\ wlock \in {"free", "scapy"}
      /\ Len(feeder) \in Nat /\ sentinels \in Nat /\ Len(pipe) \in Nat /\ MaxSize \in Nat \ {0}
      /\ feeder = <<>> => Len(feeder) = 0
      /\ pipe = <<>> => Len(pipe) = 0
  BY LifecycleAssumption DEF IInv, TypeOK, Stuck
<1>1. CASE main = "join"
  BY <1>1 DEF IInv, InProgress, Ending, MainReady
<1>2. CASE main \in {"ownIps", "hIps"}
  BY <1>2 DEF MainReady
<1>3. CASE main = "hScapy"
  <2> SUFFICES ASSUME ~SlowScapy, scapy # "dead" PROVE FeederReady \/ ScapyReady
    BY <1>3 DEF MainReady
  <2>1. CASE ~FeederQuiet
    BY <1>0, <2>1 DEF FeederQuiet, FeederReady
  <2>2. CASE FeederQuiet /\ scapy = "put"
    <3>1. Items < MaxSize
      BY <1>0, <2>2 DEF SlowScapy, Items
    <3>2. captured # Logs
      BY <2>2 DEF IInv, InProgress
    <3> QED
      BY <2>2, <3>1, <3>2 DEF ScapyReady
  <2>3. CASE FeederQuiet /\ scapy \in {"sniff", "flush"}
    BY <2>3 DEF SlowScapy, ScapyReady
  <2> QED
    BY <1>0, <2>1, <2>2, <2>3
<1>4. CASE main \in {"ownPut", "hPut"}
  <2>1. scapy = "dead" /\ feeder = <<>>
    BY <1>4 DEF IInv, BehindCapture, Stuck
  <2> SUFFICES ASSUME Items >= MaxSize PROVE SentinelReady \/ SenderReady
    BY <1>0, <1>4 DEF MainReady, Items
  <2>2. ~SenderEnded
    BY DEF Stuck
  <2>3. CASE pipe = <<>>
    <3>1. sentinels > 0
      BY <1>0, <2>1, <2>3 DEF Items
    <3> QED
      BY <2>1, <2>3, <3>1, SentinelGoes
  <2>4. CASE pipe # <<>>
    BY <2>2, <2>4 DEF SenderReady
  <2> QED
    BY <2>3, <2>4
<1>5. CASE main \in {"ownSender", "hSender"}
  <2>1. scapy = "dead"
    BY <1>5 DEF IInv, BehindCapture
  <2> SUFFICES ASSUME ~SenderEnded, ~SlowSender PROVE SentinelReady \/ SenderReady
    BY <1>5 DEF MainReady
  <2>2. CASE pipe = <<>>
    <3>1. sentinels > 0
      BY <1>0, <2>2 DEF SlowSender, SenderEnded
    <3> QED
      BY <2>1, <2>2, <3>1, SentinelGoes
  <2>3. CASE pipe # <<>>
    BY <2>3 DEF SenderReady
  <2> QED
    BY <2>2, <2>3
<1>6. CASE main = "exit"
  <2>1. scapy = "dead" /\ ips = "dead"
    BY <1>6 DEF IInv, Joined
  <2>2. SenderEnded \/ sender = "final" \/ sentinels > 0 \/ Stop \in Range(pipe)
    BY <1>6 DEF IInv, SentinelOnItsWay
  <2>3. CASE SenderEnded
    <3> SUFFICES ASSUME sentinels > 0 PROVE SentinelReady
      BY <1>0, <1>6, <2>1, <2>3 DEF MainReady
    <3>1. ~PipeFull /\ feeder = <<>>
      BY <2>1, <2>3 DEF Stuck
    <3>2. wlock = "free"
      BY <1>0, <3>1 DEF IInv, InProgress
    <3> QED
      BY <1>6, <3>1, <3>2 DEF SentinelReady
  <2>4. CASE ~SenderEnded /\ pipe # <<>>
    BY <2>4 DEF SenderReady
  <2>5. CASE ~SenderEnded /\ pipe = <<>>
    <3>1. Range(pipe) = {}
      BY <2>5, NoItems
    <3>2. sender = "final" \/ sentinels > 0
      BY <2>2, <2>5, <3>1
    <3> QED
      BY <1>6, <2>1, <2>5, <3>2, SentinelGoes DEF SenderReady
  <2> QED
    BY <2>3, <2>4, <2>5
<1> QED
  BY <1>1, <1>2, <1>3, <1>4, <1>5, <1>6 DEF IInv, TypeOK

\* A shutdown is never at a standstill, wherever a signal met the agent: main, the
\* feeders, the capture process, the sentinel or the sender can go on (sniffer.py
\* signal_handler and the end of main).
THEOREM ShutdownNeverStands == Spec => []ShutdownGoesOn
BY Invariant, GoesOn, PTL

-----------------------------------------------------------------------------
(* The measure of the shutdown.                                            *)

Sizes ==
    /\ MainSteps \in 0..5 /\ CaptureSteps \in 0..5 /\ SenderSteps \in 0..2
    /\ Len(feeder) \in Nat /\ sentinels \in Nat /\ Len(pipe) \in Nat /\ LockSteps \in 0..1

LEMMA Counted == IInv => Sizes
<1> SUFFICES ASSUME IInv PROVE Sizes
  OBVIOUS
<1>1. Len(feeder) \in Nat /\ sentinels \in Nat /\ Len(pipe) \in Nat
  BY DEF IInv, TypeOK
<1>2. MainSteps \in 0..5
  BY DEF IInv, TypeOK, MainSteps
<1>3. CaptureSteps \in 0..5
  BY DEF IInv, TypeOK, CaptureSteps
<1>4. SenderSteps \in 0..2 /\ LockSteps \in 0..1
  BY DEF SenderSteps, LockSteps
<1> QED
  BY <1>1, <1>2, <1>3, <1>4 DEF Sizes

LEMMA CountedNext == IInv' => Sizes'
BY Counted, PTL

LEMMA LeftCounted == IInv => (Left \in Int)
<1> SUFFICES ASSUME IInv PROVE Left \in Int
  OBVIOUS
<1>1. /\ MainSteps \in Int /\ CaptureSteps \in Int /\ SenderSteps \in Int
      /\ Len(feeder) \in Int /\ sentinels \in Int /\ Len(pipe) \in Int /\ LockSteps \in Int
  BY Counted DEF Sizes
<1> QED
  BY <1>1 DEF Left

LEMMA LeftCountedNext == IInv' => (Left \in Int)'
BY LeftCounted, PTL

\* What a step leaves alone of the measure.
LEMMA Same ==
    /\ UNCHANGED main => UNCHANGED MainSteps
    /\ UNCHANGED scapy => UNCHANGED CaptureSteps
    /\ UNCHANGED sender => UNCHANGED SenderSteps
    /\ UNCHANGED wlock => UNCHANGED LockSteps
BY DEF MainSteps, CaptureSteps, SenderSteps, SenderEnded, LockSteps

LEMMA AdvanceShrinks ==
    ASSUME IInv, IInv', Ending, Advance
    PROVE  Left' < Left
<1>1. Sizes
  BY Counted
<1>2. Sizes'
  BY CountedNext
<1>3. feeder \in Seq(Logs) /\ pipe \in Seq(Logs \cup {Stop})
  BY DEF IInv, TypeOK
<1>4. ASSUME NEW l \in Logs, Capture(l) PROVE Left' < Left
  <2>1. CaptureSteps = 5 /\ CaptureSteps' = 1
    BY <1>4 DEF Capture, Ending, CaptureSteps
  <2>2. Len(feeder') = Len(feeder) + 1
    BY <1>3, <1>4, Put DEF Capture
  <2>3. UNCHANGED <<MainSteps, SenderSteps, LockSteps, sentinels, pipe>>
    BY <1>4, Same DEF Capture, mainVars
  <2> QED
    BY <1>1, <1>2, <2>1, <2>2, <2>3 DEF Left, Sizes
<1>5. CASE CaptureExits
  <2>1. CaptureSteps = 1 /\ CaptureSteps' = 0
    BY <1>5 DEF CaptureExits, CaptureSteps
  <2>2. UNCHANGED <<MainSteps, SenderSteps, LockSteps, feeder, sentinels, pipe>>
    BY <1>5, Same DEF CaptureExits, mainVars, ipc
  <2> QED
    BY <1>1, <1>2, <2>1, <2>2 DEF Left, Sizes
<1>6. CASE FeederBlocks
  <2>1. LockSteps = 1 /\ LockSteps' = 0
    BY <1>6 DEF FeederBlocks, LockSteps
  <2>2. UNCHANGED <<MainSteps, CaptureSteps, SenderSteps, feeder, sentinels, pipe>>
    BY <1>6, Same DEF FeederBlocks, mainVars, children
  <2> QED
    BY <1>1, <1>2, <2>1, <2>2 DEF Left, Sizes
<1>7. CASE CaptureWrites
  <2>1. Len(feeder') = Len(feeder) - 1 /\ Head(feeder) \in Logs \cup {Stop}
    BY <1>3, <1>7, Get DEF CaptureWrites
  <2>2. Len(pipe') = Len(pipe) + 1
    BY <1>3, <1>7, <2>1, Put DEF CaptureWrites
  <2>3. UNCHANGED <<MainSteps, CaptureSteps, SenderSteps, sentinels>>
    BY <1>7, Same DEF CaptureWrites, mainVars, children
  <2> QED
    BY <1>1, <1>2, <2>1, <2>2, <2>3 DEF Left, Sizes
<1>8. CASE MainWrites
  <2>1. Len(pipe') = Len(pipe) + 1 /\ sentinels' = sentinels - 1
    BY <1>3, <1>8, Put DEF MainWrites
  <2>2. UNCHANGED <<MainSteps, CaptureSteps, SenderSteps, LockSteps, feeder>>
    BY <1>8, Same DEF MainWrites, mainVars, children
  <2> QED
    BY <1>1, <1>2, <2>1, <2>2 DEF Left, Sizes
<1>9. CASE SenderGets
  <2>1. Len(pipe') = Len(pipe) - 1
    BY <1>3, <1>9, Get DEF SenderGets
  <2>2. SenderSteps = 2 /\ SenderSteps' = 2
    BY <1>9 DEF SenderGets, SenderSteps, SenderEnded
  <2>3. UNCHANGED <<MainSteps, CaptureSteps, LockSteps, feeder, sentinels>>
    BY <1>9, Same DEF SenderGets, mainVars
  <2> QED
    BY <1>1, <1>2, <2>1, <2>2, <2>3 DEF Left, Sizes
<1>10. CASE SenderGetsStop
  <2>1. Len(pipe') = 0
    BY <1>10, NoItems DEF SenderGetsStop
  <2>2. SenderSteps = 2 /\ SenderSteps' = 1
    BY <1>10 DEF SenderGetsStop, SenderSteps, SenderEnded
  <2>3. UNCHANGED <<MainSteps, CaptureSteps, LockSteps, feeder, sentinels>>
    BY <1>10, Same DEF SenderGetsStop, mainVars
  <2> QED
    BY <1>1, <1>2, <2>1, <2>2, <2>3 DEF Left, Sizes
<1>11. CASE sender = "final" /\ SenderReturns
  <2>1. SenderSteps = 1 /\ SenderSteps' = 0
    BY <1>11 DEF SenderReturns, SenderSteps, SenderEnded
  <2>2. UNCHANGED <<MainSteps, CaptureSteps, LockSteps, feeder, sentinels, pipe>>
    BY <1>11, Same DEF SenderReturns, mainVars, ipc
  <2> QED
    BY <1>1, <1>2, <2>1, <2>2 DEF Left, Sizes
<1>12. CASE OwnPuts \/ HandlerPuts
  <2>1. MainSteps = 3 /\ MainSteps' = 2
    BY <1>12 DEF OwnPuts, HandlerPuts, Go, MainSteps
  <2>2. sentinels' = sentinels + 1 /\ UNCHANGED <<CaptureSteps, SenderSteps, LockSteps, feeder, pipe>>
    BY <1>12, Same DEF OwnPuts, HandlerPuts, PutStop, children
  <2> QED
    BY <1>1, <1>2, <2>1, <2>2 DEF Left, Sizes
<1>13. CASE JoinCapture \/ OwnJoinsIps \/ OwnJoinsSender \/ Exit \/ HandlerJoinsIps
  <2>1. MainSteps' < MainSteps
    BY <1>13 DEF JoinCapture, OwnJoinsIps, OwnJoinsSender, Exit, HandlerJoinsIps, Go, MainSteps
  <2>2. UNCHANGED <<CaptureSteps, SenderSteps, LockSteps, feeder, sentinels, pipe>>
    BY <1>13, Same
       DEF JoinCapture, OwnJoinsIps, OwnJoinsSender, Exit, HandlerJoinsIps, children, ipc
  <2> QED
    BY <1>1, <1>2, <2>1, <2>2 DEF Left, Sizes
<1>14. CASE HandlerJoinsScapy
  <2>1. MainSteps = 5 /\ MainSteps' = 4
    BY <1>14 DEF HandlerJoinsScapy, MainSteps
  <2>2. CaptureSteps' = 0 /\ LockSteps' <= LockSteps
    BY <1>14 DEF HandlerJoinsScapy, KillScapy, CaptureSteps, LockSteps
  <2>3. UNCHANGED <<SenderSteps, feeder, sentinels, pipe>>
    BY <1>14, Same DEF HandlerJoinsScapy
  <2> QED
    BY <1>1, <1>2, <2>1, <2>2, <2>3 DEF Left, Sizes
<1>15. CASE HandlerJoinsSender
  <2>1. MainSteps' < MainSteps
    BY <1>15 DEF HandlerJoinsSender, SysExit, MainSteps
  <2>2. SenderSteps' = 0
    BY <1>15 DEF HandlerJoinsSender, KillSender, SenderSteps, SenderEnded
  <2>3. UNCHANGED <<CaptureSteps, LockSteps, feeder, sentinels, pipe>>
    BY <1>15, Same DEF HandlerJoinsSender, ipc
  <2> QED
    BY <1>1, <1>2, <2>1, <2>2, <2>3 DEF Left, Sizes
<1> QED
  BY <1>4, <1>5, <1>6, <1>7, <1>8, <1>9, <1>10, <1>11, <1>12, <1>13, <1>14, <1>15
     DEF Advance, Own, Handler, Feeders

\* The other steps make nothing longer.
LEMMA RestShrinks ==
    ASSUME IInv, IInv', Ending, Next, ~Advance
    PROVE  Left' <= Left \/ signals' > signals
<1>1. Sizes
  BY Counted
<1>2. Sizes'
  BY CountedNext
<1>3. ~PacketArrives
  BY DEF PacketArrives, Ending
<1>4. CASE CaptureEnds
  <2>1. CaptureSteps' <= CaptureSteps
    BY <1>4 DEF CaptureEnds, CaptureSteps
  <2>2. UNCHANGED <<MainSteps, SenderSteps, LockSteps, feeder, sentinels, pipe>>
    BY <1>4, Same DEF CaptureEnds, mainVars, ipc
  <2> QED
    BY <1>1, <1>2, <2>1, <2>2 DEF Left, Sizes
<1>5. CASE SenderTimeout \/ SenderReturns \/ SenderDies
  <2>1. SenderSteps' <= SenderSteps
    BY <1>5 DEF SenderTimeout, SenderReturns, SenderDies, KillSender, SenderSteps, SenderEnded
  <2>2. UNCHANGED <<MainSteps, CaptureSteps, LockSteps, feeder, sentinels, pipe>>
    BY <1>5, Same DEF SenderTimeout, SenderReturns, SenderDies, mainVars, ipc
  <2> QED
    BY <1>1, <1>2, <2>1, <2>2 DEF Left, Sizes
<1>6. CASE IpsEnds
  <2>1. UNCHANGED <<MainSteps, CaptureSteps, SenderSteps, LockSteps, feeder, sentinels, pipe>>
    BY <1>6, Same DEF IpsEnds, mainVars, ipc
  <2> QED
    BY <1>1, <1>2, <2>1 DEF Left, Sizes
<1>7. ASSUME NEW kind \in Kinds, Signal(kind) PROVE signals' > signals
  BY <1>7, LifecycleAssumption DEF Signal, IInv, TypeOK
<1>8. ASSUME NEW child \in interrupts, Interrupted(child) PROVE Left' <= Left
  <2>1. CaptureSteps' <= CaptureSteps /\ LockSteps' <= LockSteps /\ SenderSteps' <= SenderSteps
    <3>1. CaptureSteps' <= CaptureSteps
      <4>1. UNCHANGED scapy \/ scapy' = "dead" \/ (scapy \in {"sniff", "put"} /\ scapy' = "flush")
        BY <1>8 DEF Interrupted, KillScapy
      <4> QED
        BY <4>1 DEF CaptureSteps, IInv, TypeOK
    <3>2. LockSteps' <= LockSteps
      BY <1>1, <1>8, Same DEF Sizes, Interrupted, KillScapy, LockSteps
    <3>3. SenderSteps' <= SenderSteps
      BY <1>1, <1>8, Same DEF Sizes, Interrupted, KillSender, SenderSteps, SenderEnded
    <3> QED
      BY <3>1, <3>2, <3>3
  <2>2. UNCHANGED <<MainSteps, feeder, sentinels, pipe>>
    BY <1>8, Same DEF Interrupted, mainVars
  <2> QED
    BY <1>1, <1>2, <2>1, <2>2 DEF Left, Sizes
<1> QED
  BY <1>3, <1>4, <1>5, <1>6, <1>7, <1>8
     DEF Next, Scapy, Sender, Advance

\* Once a shutdown has begun every step that is not another round of the sender brings
\* it nearer to its end, which a signal alone can put off (sniffer.py signal_handler
\* and the end of main): with ShutdownNeverStands, what of ShutdownEnds is not fairness.
THEOREM ShutdownShortens == Spec => ShutdownShrinks
<1>1. /\ IInv /\ IInv' /\ [Next]_vars
      => [Ending => /\ Left' <= Left \/ signals' > signals
                    /\ Advance => Left' < Left]_vars
  <2> SUFFICES ASSUME IInv, IInv', Next, Ending
               PROVE  /\ Left' <= Left \/ signals' > signals
                      /\ Advance => Left' < Left
    OBVIOUS
  <2>1. CASE Advance
    <3>1. Left' < Left
      BY <2>1, AdvanceShrinks
    <3>2. Left \in Int /\ Left' \in Int
      BY LeftCounted, LeftCountedNext
    <3> QED
      BY <3>1, <3>2
  <2>2. CASE ~Advance
    BY <2>2, RestShrinks
  <2> QED
    BY <2>1, <2>2
<1> QED
  BY <1>1, Invariant, PTL DEF Spec, ShutdownShrinks
=============================================================================
