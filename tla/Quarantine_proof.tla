-------------------------- MODULE Quarantine_proof --------------------------
(***************************************************************************)
(* Proofs about Quarantine, for every number of agents on every number of  *)
(* hosts, every whitelist, and every number of commands and faults: a host *)
(* has at most one rule for a source per agent and misread check, and no   *)
(* rule against an address that all its agents exempt; and its firewall    *)
(* does as the last order says wherever its agents have missed nothing.    *)
(***************************************************************************)
EXTENDS Quarantine, TLAPS, FiniteSetTheorems, SequenceTheorems

-----------------------------------------------------------------------------
(* Commands, inboxes and the agents of a host.                             *)

LEMMA CommandFacts ==
    ASSUME NEW c \in Commands
    PROVE  /\ c.order \in Orders /\ c.source \in Sources
           /\ c = [order |-> c.order, source |-> c.source]
           /\ c # Nothing
BY QuarantineAssumption DEF Commands

\* The commands of an inbox, one more and one less.
LEMMA InboxFacts ==
    ASSUME NEW q \in Seq(Commands)
    PROVE  /\ \A c \in Commands : Append(q, c) \in Seq(Commands)
           /\ q # <<>> => Head(q) \in Commands /\ Tail(q) \in Seq(Commands)
BY AppendProperties, HeadTailProperties

\* Hosts have finitely many agents, and as many or fewer are adding a rule.
LEMMA AgentSets ==
    ASSUME NEW S \in SUBSET Agents
    PROVE  IsFiniteSet(S) /\ Cardinality(S) \in Nat
BY QuarantineAssumption, FS_Subset, FS_CardinalityType

LEMMA AddingFacts ==
    ASSUME NEW h, NEW s
    PROVE  /\ Adding(h, s) \subseteq AgentsOn(h) /\ AgentsOn(h) \subseteq Agents
           /\ Cardinality(Adding(h, s)) \in Nat /\ Cardinality(AgentsOn(h)) \in Nat
           /\ Cardinality(Adding(h, s)) <= Cardinality(AgentsOn(h))
<1>1. Adding(h, s) \subseteq AgentsOn(h) /\ AgentsOn(h) \subseteq Agents
  BY DEF Adding, AgentsOn
<1>2. IsFiniteSet(AgentsOn(h)) /\ IsFiniteSet(Adding(h, s))
  BY <1>1, AgentSets
<1>3. Cardinality(Adding(h, s)) <= Cardinality(AgentsOn(h))
  BY <1>1, <1>2, FS_Subset
<1> QED
  BY <1>1, <1>2, <1>3, FS_CardinalityType

-----------------------------------------------------------------------------
(* Types.                                                                  *)

LEMMA InitInvariant == Init => TypeOK /\ NoneRefused /\ CopiesBounded /\ ExemptNeverBlocked
<1> SUFFICES ASSUME Init PROVE TypeOK /\ NoneRefused /\ CopiesBounded /\ ExemptNeverBlocked
  OBVIOUS
<1>1. TypeOK
  BY QuarantineAssumption DEF Init, TypeOK, Orders
<1>2. NoneRefused /\ ExemptNeverBlocked
  BY DEF Init, NoneRefused, ExemptNeverBlocked
<1>3. CopiesBounded
  <2> SUFFICES ASSUME NEW h \in Hosts, NEW s \in Sources
               PROVE  rules[h][s] + Cardinality(Adding(h, s))
                         <= Cardinality(AgentsOn(h)) + misread[h][s]
    BY DEF CopiesBounded
  <2>1. rules[h][s] = 0 /\ misread[h][s] = 0
    BY DEF Init
  <2> QED
    BY <2>1, AddingFacts
<1> QED
  BY <1>1, <1>2, <1>3

\* The parts of the type that only the bookkeeping of faults touches.
LEMMA SpoilType ==
    ASSUME TypeOK, NEW a \in Agents, NEW S \in SUBSET Sources, Spoil(a, S)
    PROVE  spoilt' \subseteq Hosts \X Sources
BY QuarantineAssumption DEF TypeOK, Spoil

LEMMA UndoneType ==
    ASSUME TypeOK, NEW a \in Agents
    PROVE  Undone(a) \subseteq Sources /\ {inbox[a][i].source : i \in DOMAIN inbox[a]} \subseteq Sources
<1>1. inbox[a] \in Seq(Commands) /\ cmd[a] \in Commands \cup {Nothing}
  BY DEF TypeOK
<1>2. \A i \in DOMAIN inbox[a] : inbox[a][i] \in Commands
  BY <1>1, LenProperties, ElementOfSeq
<1>3. {inbox[a][i].source : i \in DOMAIN inbox[a]} \subseteq Sources
  BY <1>2, CommandFacts
<1> QED
  BY <1>1, <1>3, CommandFacts DEF Undone

LEMMA LeaveType ==
    ASSUME TypeOK, NEW a \in Agents, Leave(a), faults' \in 0..MaxFaults
    PROVE  TypeOK'
<1>1. spoilt' \subseteq Hosts \X Sources
  BY UndoneType, SpoilType DEF Leave
<1>2. inbox' \in [Agents -> Seq(Commands)]
  BY EmptySeq DEF TypeOK, Leave
<1> QED
  BY <1>1, <1>2 DEF TypeOK, Leave, Go

LEMMA TypeStep == TypeOK /\ [Next]_vars => TypeOK'
<1> SUFFICES ASSUME TypeOK, [Next]_vars PROVE TypeOK'
  OBVIOUS
<1> USE DEF Fault
<1>1. ASSUME NEW order \in Orders, NEW s \in Sources, Publish(order, s) PROVE TypeOK'
  <2>1. [order |-> order, source |-> s] \in Commands
    BY DEF Commands
  <2>2. inbox' \in [Agents -> Seq(Commands)]
    BY <1>1, <2>1, InboxFacts DEF TypeOK, Publish
  <2>3. spoilt' \subseteq Hosts \X Sources
    BY <1>1, QuarantineAssumption DEF TypeOK, Publish
  <2>4. last' \in [Sources -> Orders \cup {"none"}]
    BY <1>1 DEF TypeOK, Publish
  <2>5. published' \in 0..MaxCommands
    BY <1>1, QuarantineAssumption DEF TypeOK, Publish
  <2> QED
    BY <1>1, <2>2, <2>3, <2>4, <2>5 DEF TypeOK, Publish
<1>2. ASSUME NEW a \in Agents, Subscribe(a) PROVE TypeOK'
  BY <1>2 DEF TypeOK, Subscribe, Go
<1>3. ASSUME NEW a \in Agents, SubscribeFails(a) PROVE TypeOK'
  BY <1>3, QuarantineAssumption DEF TypeOK, SubscribeFails, Go
<1>4. ASSUME NEW a \in Agents, LinkLost(a) PROVE TypeOK'
  <2>1. spoilt' \subseteq Hosts \X Sources
    BY <1>4, UndoneType, SpoilType DEF LinkLost
  <2>2. inbox' \in [Agents -> Seq(Commands)]
    BY <1>4, EmptySeq DEF TypeOK, LinkLost
  <2> QED
    BY <1>4, <2>1, <2>2, QuarantineAssumption DEF TypeOK, LinkLost
<1>5. ASSUME NEW a \in Agents, Relink(a) PROVE TypeOK'
  BY <1>5 DEF TypeOK, Relink
<1>6. ASSUME NEW a \in Agents, Loop(a) PROVE TypeOK'
  <2>1. CASE a \in stop
    BY <1>6, <2>1, LeaveType DEF TypeOK, Loop
  <2>2. CASE a \notin stop
    BY <1>6, <2>2 DEF TypeOK, Loop, Go
  <2> QED
    BY <2>1, <2>2
<1>7. ASSUME NEW a \in Agents, PollsNothing(a) PROVE TypeOK'
  BY <1>7 DEF TypeOK, PollsNothing, Go
<1>8. ASSUME NEW a \in Agents, Take(a) PROVE TypeOK'
  <2> DEFINE c == Head(inbox[a])
             h == HostOf[a]
  <2>1. /\ inbox[a] \in Seq(Commands) /\ c \in Commands /\ c.source \in Sources /\ c # Nothing
        /\ Tail(inbox[a]) \in Seq(Commands) /\ h \in Hosts /\ at[a] = "poll"
    BY <1>8, InboxFacts, CommandFacts, QuarantineAssumption DEF TypeOK, Take
  <2>2. inbox' \in [Agents -> Seq(Commands)] /\ UNCHANGED <<linked, stop, rules, last, published>>
    BY <1>8, <2>1 DEF TypeOK, Take
  <2>3. /\ at' \in [Agents -> {"start", "loop", "poll", "act", "ended"}]
        /\ cmd' \in [Agents -> Commands \cup {Nothing}]
        /\ \A b \in Agents : at'[b] = "act" <=> cmd'[b] # Nothing
    <3>1. CASE Go(a, "act") /\ cmd' = [cmd EXCEPT ![a] = c]
      BY <2>1, <3>1 DEF TypeOK, Go
    <3>2. CASE Go(a, "loop") /\ cmd' = cmd
      BY <2>1, <3>2 DEF TypeOK, Go
    <3> QED
      BY <1>8, <3>1, <3>2 DEF Take
  <2>4. misread' \in [Hosts -> [Sources -> Nat]]
    <3>1. CASE misread' = misread
      BY <3>1 DEF TypeOK
    <3>2. CASE misread' = [misread EXCEPT ![h][c.source] = @ + 1]
      <4>1. misread[h] \in [Sources -> Nat] /\ misread[h][c.source] + 1 \in Nat
        BY <2>1 DEF TypeOK
      <4> QED
        BY <2>1, <3>2, <4>1 DEF TypeOK
    <3> QED
      BY <1>8, <3>1, <3>2 DEF Take
  <2>5. spoilt' \subseteq Hosts \X Sources /\ faults' \in 0..MaxFaults
    <3>1. CASE UNCHANGED <<spoilt, faults>>
      BY <3>1 DEF TypeOK
    <3>2. CASE Spoil(a, {c.source}) /\ Fault
      <4>1. {c.source} \in SUBSET Sources
        BY <2>1
      <4> HIDE DEF c
      <4> QED
        BY <3>2, <4>1, SpoilType, QuarantineAssumption DEF TypeOK
    <3> QED
      BY <1>8, <3>1, <3>2 DEF Take
  <2> QED
    BY <2>2, <2>3, <2>4, <2>5 DEF TypeOK
<1>9. ASSUME NEW a \in Agents, Act(a) PROVE TypeOK'
  <2> DEFINE h == HostOf[a]
             s == cmd[a].source
             n == IF cmd[a].order = "quarantine" THEN Added(rules[h][s]) ELSE Deleted(rules[h][s])
  <2>1. cmd[a] \in Commands /\ s \in Sources /\ h \in Hosts
    BY <1>9, CommandFacts, QuarantineAssumption DEF TypeOK, Act
  <2>2. rules[h] \in [Sources -> Nat] /\ rules[h][s] \in Nat
    BY <2>1 DEF TypeOK
  <2>3. n \in Nat
    BY <2>2 DEF Added, Deleted
  <2>4. rules' = [rules EXCEPT ![h] = [@ EXCEPT ![s] = n]]
    BY <1>9 DEF Act
  <2>5. rules' \in [Hosts -> [Sources -> Nat]]
    <3> HIDE DEF n, s, h
    <3> QED BY <2>1, <2>2, <2>3, <2>4 DEF TypeOK
  <2> QED
    BY <1>9, <2>5 DEF TypeOK, Act, Go
<1>10. ASSUME NEW a \in Agents, ActFails(a) PROVE TypeOK'
  <2>1. cmd[a] \in Commands /\ cmd[a].source \in Sources
    BY <1>10, CommandFacts DEF TypeOK, ActFails
  <2>2. {cmd[a].source} \in SUBSET Sources
    BY <2>1
  <2>3. spoilt' \subseteq Hosts \X Sources
    BY <1>10, <2>2, SpoilType DEF ActFails
  <2> QED
    BY <1>10, <2>3, QuarantineAssumption DEF TypeOK, ActFails, Go
<1>11. ASSUME NEW a \in Agents, SetStop(a) PROVE TypeOK'
  BY <1>11, QuarantineAssumption DEF TypeOK, SetStop
<1>14. ASSUME NEW a \in Agents, Restart(a) PROVE TypeOK'
  <2>1. /\ at' \in [Agents -> {"start", "loop", "poll", "act", "ended"}]
        /\ \A b \in Agents : at'[b] = "act" <=> cmd'[b] # Nothing
    BY <1>14 DEF TypeOK, Restart, Go
  <2>2. stop' \subseteq Agents /\ faults' \in 0..MaxFaults
    BY <1>14, QuarantineAssumption DEF TypeOK, Restart
  <2> QED
    BY <1>14, <2>1, <2>2 DEF TypeOK, Restart
<1>12. ASSUME NEW a \in Agents, Terminate(a) PROVE TypeOK'
  BY <1>12, LeaveType, QuarantineAssumption DEF TypeOK, Terminate
<1>13. CASE UNCHANGED vars
  BY <1>13 DEF TypeOK, vars, listeners
<1> QED
  BY <1>1, <1>2, <1>3, <1>4, <1>5, <1>6, <1>7, <1>8, <1>9, <1>10, <1>11, <1>12, <1>13, <1>14
  DEF Next, Step, Detect, Release, Orders

-----------------------------------------------------------------------------
(* Nobody blocks what it exempts.                                          *)

\* Most steps leave the firewall alone and give no listener a new command.
NoOrders ==
    /\ UNCHANGED <<rules, misread>>
    /\ \A b \in Agents : cmd'[b] = cmd[b] \/ cmd'[b] = Nothing

LEMMA LeaveOrders ==
    ASSUME TypeOK, NEW a \in Agents, Leave(a)
    PROVE  NoOrders
BY DEF TypeOK, Leave, NoOrders

\* What a step can do to commands and rules.
LEMMA StepOrders ==
    ASSUME TypeOK, [Next]_vars
    PROVE  \/ NoOrders
           \/ \E a \in Agents : Take(a) \/ Act(a)
<1>1. ASSUME NEW order \in Orders, NEW s \in Sources, Publish(order, s) PROVE NoOrders
  BY <1>1 DEF Publish, NoOrders
<1>2. ASSUME NEW a \in Agents, Subscribe(a) \/ SubscribeFails(a) \/ LinkLost(a) \/ Relink(a)
                                  \/ PollsNothing(a) \/ SetStop(a) \/ Restart(a)
      PROVE  NoOrders
  BY <1>2 DEF Subscribe, SubscribeFails, LinkLost, Relink, PollsNothing, SetStop, Restart, NoOrders
<1>3. ASSUME NEW a \in Agents, Loop(a) PROVE NoOrders
  BY <1>3, LeaveOrders DEF Loop, NoOrders
<1>4. ASSUME NEW a \in Agents, Terminate(a) PROVE NoOrders
  BY <1>4, LeaveOrders DEF Terminate
<1>5. ASSUME NEW a \in Agents, ActFails(a) PROVE NoOrders
  BY <1>5 DEF TypeOK, ActFails, NoOrders
<1>6. CASE UNCHANGED vars
  BY <1>6 DEF vars, listeners, NoOrders
<1> QED
  BY <1>1, <1>2, <1>3, <1>4, <1>5, <1>6 DEF Next, Step, Detect, Release, Orders

\* A taken command is either done with or kept, and then it was not refused.
LEMMA TakeOrders ==
    ASSUME TypeOK, NEW a \in Agents, Take(a)
    PROVE  /\ cmd[a] = Nothing /\ rules' = rules
           /\ \/ cmd' = cmd
              \/ /\ cmd' = [cmd EXCEPT ![a] = Head(inbox[a])]
                 /\ ~Refused(a, Head(inbox[a]))
           /\ Head(inbox[a]) \in Commands
<1>1. at[a] = "poll" /\ inbox[a] # <<>> /\ inbox[a] \in Seq(Commands)
  BY DEF TypeOK, Take
<1>2. cmd[a] = Nothing
  BY <1>1 DEF TypeOK
<1> QED
  BY <1>1, <1>2, InboxFacts DEF Take

LEMMA NoneRefusedStep == TypeOK /\ NoneRefused /\ [Next]_vars => NoneRefused'
<1> SUFFICES ASSUME TypeOK, NoneRefused, [Next]_vars,
                    NEW b \in Agents, cmd'[b] # Nothing, cmd'[b].order = "quarantine"
             PROVE  cmd'[b].source \notin Exempt[b]
  BY DEF NoneRefused
<1>1. CASE NoOrders
  BY <1>1 DEF NoneRefused, NoOrders
<1>2. ASSUME NEW a \in Agents, Take(a) PROVE cmd'[b].source \notin Exempt[b]
  <2>1. CASE cmd' = cmd
    BY <2>1 DEF NoneRefused
  <2>2. CASE cmd' = [cmd EXCEPT ![a] = Head(inbox[a])] /\ ~Refused(a, Head(inbox[a]))
    BY <2>2 DEF NoneRefused, Refused, TypeOK
  <2> QED
    BY <1>2, <2>1, <2>2, TakeOrders
<1>3. ASSUME NEW a \in Agents, Act(a) PROVE cmd'[b].source \notin Exempt[b]
  BY <1>3 DEF NoneRefused, Act, TypeOK
<1> QED
  BY <1>1, <1>2, <1>3, StepOrders

\* What carrying out a command does to the rules of a host.
LEMMA ActRules ==
    ASSUME TypeOK, NEW a \in Agents, Act(a), NEW h \in Hosts, NEW s \in Sources
    PROVE  /\ cmd[a] \in Commands /\ cmd[a] # Nothing
           /\ rules[h][s] \in Nat /\ rules'[h][s] \in Nat
           /\ \/ rules'[h][s] <= rules[h][s]
              \/ /\ rules'[h][s] = rules[h][s] + 1
                 /\ HostOf[a] = h /\ cmd[a].order = "quarantine" /\ cmd[a].source = s
<1> DEFINE n == IF cmd[a].order = "quarantine" THEN Added(rules[HostOf[a]][cmd[a].source])
                ELSE Deleted(rules[HostOf[a]][cmd[a].source])
<1>1. cmd[a] \in Commands /\ cmd[a] # Nothing /\ cmd[a].source \in Sources /\ HostOf[a] \in Hosts
  BY CommandFacts, QuarantineAssumption DEF TypeOK, Act
<1>2. /\ rules \in [Hosts -> [Sources -> Nat]]
      /\ rules' = [rules EXCEPT ![HostOf[a]] = [@ EXCEPT ![cmd[a].source] = n]]
  BY DEF TypeOK, Act
<1>3. rules[h] \in [Sources -> Nat] /\ rules[h][s] \in Nat
  BY <1>2
<1>4. CASE HostOf[a] = h /\ cmd[a].source = s
  <2>1. rules'[h][s] = n
    <3> HIDE DEF n
    <3> QED BY <1>2, <1>3, <1>4
  <2> QED
    BY <1>1, <1>3, <1>4, <2>1 DEF Added, Deleted
<1>5. CASE ~(HostOf[a] = h /\ cmd[a].source = s)
  <2>1. rules'[h][s] = rules[h][s]
    <3> HIDE DEF n
    <3> QED BY <1>1, <1>2, <1>3, <1>5
  <2> QED
    BY <1>1, <1>3, <2>1
<1> QED
  BY <1>4, <1>5

LEMMA ExemptStep == TypeOK /\ NoneRefused /\ ExemptNeverBlocked /\ [Next]_vars => ExemptNeverBlocked'
<1> SUFFICES ASSUME TypeOK, NoneRefused, ExemptNeverBlocked, [Next]_vars,
                    NEW h \in Hosts, NEW s \in Sources, rules'[h][s] > 0
             PROVE  \E b \in AgentsOn(h) : s \notin Exempt[b]
  BY DEF ExemptNeverBlocked, AgentsOn
<1>1. CASE rules' = rules
  BY <1>1 DEF ExemptNeverBlocked
<1>2. ASSUME NEW a \in Agents, Act(a) PROVE \E b \in AgentsOn(h) : s \notin Exempt[b]
  <2>1. CASE rules'[h][s] <= rules[h][s]
    <3>1. \A m, k \in Nat : m > 0 /\ m <= k => k > 0
      OBVIOUS
    <3>2. rules[h][s] > 0
      BY <1>2, <2>1, <3>1, ActRules
    <3> QED
      BY <3>2 DEF ExemptNeverBlocked
  <2>2. CASE HostOf[a] = h /\ cmd[a].order = "quarantine" /\ cmd[a].source = s
    <3>1. cmd[a] # Nothing
      BY <1>2, ActRules
    <3> QED
      BY <2>2, <3>1 DEF NoneRefused, AgentsOn
  <2> QED
    BY <1>2, <2>1, <2>2, ActRules
<1> QED
  BY <1>1, <1>2, StepOrders, TakeOrders DEF NoOrders

-----------------------------------------------------------------------------
(* The copies of a rule.  An agent that looked in vain is counted among    *)
(* those that add; all of these were there, with no rule, or misread.      *)

\* The agents that add, after a step.
LEMMA AddingAfter ==
    ASSUME NEW h, NEW s
    PROVE  /\ Adding(h, s)' \subseteq AgentsOn(h)
           /\ Cardinality(Adding(h, s)') \in Nat
           /\ Cardinality(Adding(h, s)') <= Cardinality(AgentsOn(h))
           /\ Adding(h, s)' \subseteq Adding(h, s)
                 => Cardinality(Adding(h, s)') <= Cardinality(Adding(h, s))
<1>1. Adding(h, s)' \subseteq AgentsOn(h) /\ AgentsOn(h) \subseteq Agents
  BY DEF Adding, AgentsOn
<1>2. IsFiniteSet(AgentsOn(h)) /\ IsFiniteSet(Adding(h, s)) /\ IsFiniteSet(Adding(h, s)')
  BY <1>1, AddingFacts, AgentSets
<1>3. Cardinality(Adding(h, s)') <= Cardinality(AgentsOn(h))
  BY <1>1, <1>2, FS_Subset
<1>4. Adding(h, s)' \subseteq Adding(h, s) => Cardinality(Adding(h, s)') <= Cardinality(Adding(h, s))
  BY <1>2, FS_Subset
<1> QED
  BY <1>1, <1>2, <1>3, <1>4, FS_CardinalityType

LEMMA CopiesStep == TypeOK /\ CopiesBounded /\ [Next]_vars => CopiesBounded'
<1> SUFFICES ASSUME TypeOK, CopiesBounded, [Next]_vars, NEW h \in Hosts, NEW s \in Sources
             PROVE  rules'[h][s] + Cardinality(Adding(h, s)')
                       <= Cardinality(AgentsOn(h)) + misread'[h][s]
  BY DEF CopiesBounded, AgentsOn
<1> DEFINE A == Cardinality(Adding(h, s))
           B == Cardinality(Adding(h, s)')
           N == Cardinality(AgentsOn(h))
           r == rules[h][s]
           m == misread[h][s]
<1>1. A \in Nat /\ B \in Nat /\ N \in Nat /\ B <= N /\ r \in Nat /\ m \in Nat
  BY AddingFacts, AddingAfter DEF TypeOK
<1>2. r + A <= N + m
  BY DEF CopiesBounded
<1>3. Adding(h, s)' \subseteq Adding(h, s) => B <= A
  BY AddingAfter
<1>4. ASSUME rules' = rules, Adding(h, s)' \subseteq Adding(h, s), misread' = misread
      PROVE  rules'[h][s] + B <= N + misread'[h][s]
  <2>1. B <= A /\ rules'[h][s] = r /\ misread'[h][s] = m
    BY <1>3, <1>4
  <2> HIDE DEF A, B, N, r, m
  <2> QED BY <1>1, <1>2, <2>1
<1>5. CASE NoOrders
  <2>1. Adding(h, s)' \subseteq Adding(h, s)
    BY <1>5 DEF NoOrders, Adding, AgentsOn
  <2> QED
    BY <1>4, <1>5, <2>1 DEF NoOrders
<1>6. ASSUME NEW a \in Agents, Act(a) PROVE rules'[h][s] + B <= N + misread'[h][s]
  <2>1. Adding(h, s)' \subseteq Adding(h, s) /\ a \notin Adding(h, s)'
    BY <1>6 DEF Act, Adding, AgentsOn, TypeOK
  <2>2. misread'[h][s] = m /\ B <= A
    BY <1>3, <1>6, <2>1 DEF Act
  <2>3. CASE rules'[h][s] <= r
    <3>1. rules'[h][s] \in Nat
      BY <1>6, ActRules
    <3> HIDE DEF A, B, N, r, m
    <3> QED BY <1>1, <1>2, <2>2, <2>3, <3>1
  <2>4. CASE /\ rules'[h][s] = r + 1
             /\ HostOf[a] = h /\ cmd[a].order = "quarantine" /\ cmd[a].source = s
    <3>1. a \in Adding(h, s)
      BY <1>6, <2>4, ActRules, CommandFacts DEF Adding, AgentsOn
    <3>2. IsFiniteSet(Adding(h, s)) /\ Adding(h, s)' \subseteq Adding(h, s) \ {a}
      BY <2>1, AddingFacts, AgentSets
    <3>3. Cardinality(Adding(h, s) \ {a}) = A - 1 /\ IsFiniteSet(Adding(h, s) \ {a})
      BY <3>1, <3>2, FS_RemoveElement
    <3>4. B <= A - 1
      BY <3>2, <3>3, FS_Subset
    <3> HIDE DEF A, B, N, r, m
    <3> QED BY <1>1, <1>2, <2>2, <2>4, <3>4
  <2> QED
    BY <1>6, <2>3, <2>4, ActRules
<1>7. ASSUME NEW a \in Agents, Take(a) PROVE rules'[h][s] + B <= N + misread'[h][s]
  <2> DEFINE c == Head(inbox[a])
             k == HostOf[a]
  <2>1. /\ cmd[a] = Nothing /\ rules' = rules /\ c \in Commands /\ c.source \in Sources
        /\ k \in Hosts /\ c # Nothing /\ c = [order |-> c.order, source |-> c.source]
    BY <1>7, TakeOrders, CommandFacts, QuarantineAssumption
  <2>2. /\ \/ misread' = misread /\ cmd' = cmd
           \/ /\ misread' = misread /\ cmd' = [cmd EXCEPT ![a] = c]
              /\ Acts(a, c, Present(a, c.source))
           \/ /\ misread' = [misread EXCEPT ![k][c.source] = @ + 1]
              /\ cmd' = cmd \/ (cmd' = [cmd EXCEPT ![a] = c] /\ Acts(a, c, FALSE))
    BY <1>7 DEF Take
  <2>3. rules'[h][s] = r
    BY <2>1
  <2>4. CASE misread' = misread /\ cmd' = cmd
    <3>1. Adding(h, s)' \subseteq Adding(h, s)
      BY <2>4 DEF Adding, AgentsOn
    <3> QED
      BY <1>4, <2>1, <2>4, <3>1
  <2>5. ASSUME cmd' = [cmd EXCEPT ![a] = c]
        PROVE  /\ Adding(h, s)' \subseteq Adding(h, s) \cup {a}
               /\ ~(c.order = "quarantine" /\ c.source = s /\ k = h)
                     => Adding(h, s)' \subseteq Adding(h, s)
    <3> HIDE DEF c
    <3>1. \A b \in Agents : b # a => cmd'[b] = cmd[b]
      BY <2>5 DEF TypeOK
    <3>2. cmd'[a] = c
      BY <2>5 DEF TypeOK
    <3>3. a \in Adding(h, s)' => c.order = "quarantine" /\ c.source = s /\ k = h
      BY <2>1, <3>2 DEF Adding, AgentsOn
    <3>4. \A b : b # a /\ b \in Adding(h, s)' => b \in Adding(h, s)
      BY <3>1 DEF Adding, AgentsOn
    <3> QED
      BY <3>3, <3>4
  <2>6. CASE /\ misread' = misread /\ cmd' = [cmd EXCEPT ![a] = c]
             /\ Acts(a, c, Present(a, c.source))
    <3>1. CASE c.order = "quarantine" /\ c.source = s /\ k = h
      <4>1. ~(r > 0)
        BY <2>6, <3>1 DEF Acts, Present
      <4>2. misread'[h][s] = m
        BY <2>6
      <4> HIDE DEF A, B, N, r, m, c, k
      <4> QED BY <1>1, <2>3, <4>1, <4>2
    <3>2. CASE ~(c.order = "quarantine" /\ c.source = s /\ k = h)
      BY <1>4, <2>1, <2>5, <2>6, <3>2
    <3> QED
      BY <3>1, <3>2
  <2>7. CASE /\ misread' = [misread EXCEPT ![k][c.source] = @ + 1]
             /\ cmd' = cmd \/ (cmd' = [cmd EXCEPT ![a] = c] /\ Acts(a, c, FALSE))
    <3>1. /\ misread'[h][s] \in Nat /\ m <= misread'[h][s]
          /\ c.source = s /\ k = h => misread'[h][s] = m + 1
      <4> HIDE DEF c, k
      <4>1. misread \in [Hosts -> [Sources -> Nat]] /\ misread[h] \in [Sources -> Nat]
        BY DEF TypeOK
      <4>2. CASE c.source = s /\ k = h
        <5>1. misread'[h][s] = misread[h][s] + 1
          BY <2>7, <4>1, <4>2
        <5> QED BY <1>1, <4>2, <5>1
      <4>3. CASE ~(c.source = s /\ k = h)
        <5>1. misread'[h][s] = misread[h][s]
          BY <2>1, <2>7, <4>1, <4>3
        <5> QED BY <1>1, <4>3, <5>1
      <4> QED
        BY <4>2, <4>3
    <3>2. CASE Adding(h, s)' \subseteq Adding(h, s)
      <4>1. B <= A
        BY <1>3, <3>2
      <4> HIDE DEF A, B, N, r, m, c, k
      <4> QED BY <1>1, <1>2, <2>3, <3>1, <4>1
    <3>3. CASE cmd' = [cmd EXCEPT ![a] = c] /\ c.source = s /\ k = h
      <4>1. IsFiniteSet(Adding(h, s)) /\ Adding(h, s)' \subseteq Adding(h, s) \cup {a}
        BY <2>5, <3>3, AddingFacts, AgentSets
      <4>2. a \notin Adding(h, s)
        BY <2>1 DEF Adding
      <4>3. Cardinality(Adding(h, s) \cup {a}) = A + 1 /\ IsFiniteSet(Adding(h, s) \cup {a})
        BY <4>1, <4>2, FS_AddElement
      <4>4. B <= A + 1
        BY <4>1, <4>3, FS_Subset
      <4>5. misread'[h][s] = m + 1
        BY <3>1, <3>3
      <4> HIDE DEF A, B, N, r, m, c, k
      <4> QED BY <1>1, <1>2, <2>3, <4>4, <4>5
    <3>4. cmd' = cmd => Adding(h, s)' \subseteq Adding(h, s)
      BY DEF Adding, AgentsOn
    <3> QED
      BY <2>5, <2>7, <3>2, <3>3, <3>4
  <2> QED
    BY <2>2, <2>4, <2>6, <2>7
<1> QED
  BY <1>5, <1>6, <1>7, StepOrders

-----------------------------------------------------------------------------
(* Commands about a source in a queue.                                     *)

LEMMA HasTail ==
    ASSUME NEW q \in Seq(Commands), q # <<>>, NEW s
    PROVE  /\ Has(q, s) <=> Head(q).source = s \/ Has(Tail(q), s)
           /\ \A o : EndsWith(q, s, o) => EndsWith(Tail(q), s, o)
           /\ \A o : EndsWith(q, s, o) /\ Head(q).source = s /\ ~Has(Tail(q), s)
                        => Head(q).order = o
<1> DEFINE t == Tail(q)
<1>1. /\ Len(q) \in Nat /\ Len(q) >= 1 /\ DOMAIN q = 1..Len(q)
      /\ DOMAIN t = 1..(Len(q) - 1) /\ Head(q) = q[1]
      /\ \A i \in 1..(Len(q) - 1) : t[i] = q[i + 1]
  BY LenProperties, HeadTailProperties, EmptySeq
<1> HIDE DEF t
<1>2. \A i \in DOMAIN t : i + 1 \in DOMAIN q /\ q[i + 1] = t[i]
  BY <1>1
<1>3. \A i \in DOMAIN q : i = 1 \/ (i - 1 \in DOMAIN t /\ t[i - 1] = q[i])
  BY <1>1
<1>4. Has(q, s) <=> Head(q).source = s \/ Has(t, s)
  BY <1>1, <1>2, <1>3 DEF Has
<1>5. ASSUME NEW o, EndsWith(q, s, o) PROVE EndsWith(t, s, o)
  <2> SUFFICES ASSUME NEW i \in DOMAIN t, t[i].source = s,
                      \A j \in DOMAIN t : j > i => t[j].source # s
               PROVE  t[i].order = o
    BY DEF EndsWith
  <2>1. i \in Nat /\ i + 1 \in DOMAIN q /\ q[i + 1] = t[i]
    BY <1>1, <1>2
  <2>2. ASSUME NEW j \in DOMAIN q, j > i + 1 PROVE q[j].source # s
    <3>1. j # 1 /\ j - 1 > i
      BY <1>1, <2>1, <2>2
    <3> QED
      BY <1>3, <3>1
  <2> QED
    BY <1>5, <2>1, <2>2 DEF EndsWith
<1>6. ASSUME NEW o, EndsWith(q, s, o), Head(q).source = s, ~Has(t, s) PROVE Head(q).order = o
  <2>1. \A j \in DOMAIN q : j > 1 => q[j].source # s
    BY <1>1, <1>3, <1>6 DEF Has
  <2> QED
    BY <1>1, <1>6, <2>1 DEF EndsWith
<1> QED
  BY <1>4, <1>5, <1>6 DEF t

LEMMA HasAppend ==
    ASSUME NEW q \in Seq(Commands), NEW c \in Commands, NEW s
    PROVE  /\ Has(Append(q, c), s) <=> Has(q, s) \/ c.source = s
           /\ c.source = s => EndsWith(Append(q, c), s, c.order)
           /\ \A o : c.source # s /\ EndsWith(q, s, o) => EndsWith(Append(q, c), s, o)
<1> DEFINE t == Append(q, c)
           n == Len(q) + 1
<1>1. /\ Len(q) \in Nat /\ DOMAIN q = 1..Len(q) /\ DOMAIN t = 1..n /\ t[n] = c
      /\ \A i \in 1..Len(q) : t[i] = q[i]
  BY LenProperties, AppendProperties
<1> HIDE DEF t
<1>2. /\ n \in DOMAIN t /\ \A i \in DOMAIN q : i \in DOMAIN t /\ t[i] = q[i] /\ i # n
      /\ \A i \in DOMAIN t : i = n \/ i \in DOMAIN q
      /\ \A i \in DOMAIN q : n > i
  BY <1>1
<1>3. Has(t, s) <=> Has(q, s) \/ c.source = s
  BY <1>1, <1>2 DEF Has
<1>4. c.source = s => EndsWith(t, s, c.order)
  BY <1>1, <1>2 DEF EndsWith
<1>5. ASSUME NEW o, c.source # s, EndsWith(q, s, o) PROVE EndsWith(t, s, o)
  BY <1>1, <1>2, <1>5 DEF EndsWith
<1> QED
  BY <1>3, <1>4, <1>5 DEF t

-----------------------------------------------------------------------------
(* The last order reaches the firewall.                                    *)

\* A step that leaves what b has before it about s as it was.
Calm(b, s) ==
    /\ Latest(b, s) => Latest(b, s)'
    /\ Carries(b, s)' \/ Has(inbox[b], s)' <=> Carries(b, s) \/ Has(inbox[b], s)
    /\ (cmd[b] # Nothing /\ cmd[b] = [order |-> "quarantine", source |-> s])'
          <=> (cmd[b] # Nothing /\ cmd[b] = [order |-> "quarantine", source |-> s])

Quiet(h, s) ==
    /\ rules'[h][s] = rules[h][s] /\ last'[s] = last[s] /\ misread'[h][s] = misread[h][s]
    /\ \A b \in AgentsOn(h) : Calm(b, s)

Kept(h, s) ==
    /\ misread[h][s] = 0
    /\ \A a \in AgentsOn(h) : Latest(a, s)
    /\ AgentsOn(h) # {} /\ (\A a \in AgentsOn(h) : s \notin Exempt[a]) => Followed(h, s)

LEMMA QuietKeeps ==
    ASSUME NEW h, NEW s, Kept(h, s), Quiet(h, s)
    PROVE  Kept(h, s)'
<1>1. AgentsOn(h)' = AgentsOn(h)
  BY DEF AgentsOn
<1>2. Owing(h, s)' = Owing(h, s)
  BY <1>1 DEF Owing, Quiet, Calm
<1>3. Adding(h, s)' = Adding(h, s)
  BY <1>1 DEF Adding, Quiet, Calm
<1>4. Followed(h, s) => Followed(h, s)'
  BY <1>2, <1>3 DEF Followed, Quiet
<1> QED
  BY <1>1, <1>4 DEF Kept, Quiet, Calm

\* What is as it was, or has nothing to do with s, is calm.
LEMMA SameCalm ==
    ASSUME NEW b, NEW s, last'[s] = last[s],
           \/ cmd'[b] = cmd[b] /\ inbox'[b] = inbox[b]
           \/ /\ ~Carries(b, s) /\ ~Has(inbox[b], s)
              /\ ~Carries(b, s)' /\ ~Has(inbox[b], s)'
    PROVE  Calm(b, s)
<1>1. CASE cmd'[b] = cmd[b] /\ inbox'[b] = inbox[b]
  BY <1>1 DEF Calm, Latest, Carries
<1>2. CASE /\ ~Carries(b, s) /\ ~Has(inbox[b], s)
           /\ ~Carries(b, s)' /\ ~Has(inbox[b], s)'
  <2>1. Latest(b, s)'
    BY <1>2 DEF Latest, Has, EndsWith
  <2>2. \A c : c = [order |-> "quarantine", source |-> s] => c.source = s
    OBVIOUS
  <2> QED
    BY <1>2, <2>1, <2>2 DEF Calm, Carries
<1> QED
  BY <1>1, <1>2

\* What an agent spoils it had to do with, and the rest is calm.
LEMMA UndoneHas ==
    ASSUME NEW a, NEW s
    PROVE  /\ s \in Undone(a) <=> Carries(a, s) \/ Has(inbox[a], s)
           /\ s \in {inbox[a][i].source : i \in DOMAIN inbox[a]} <=> Has(inbox[a], s)
BY DEF Undone, Carries, Has

LEMMA LeaveQuiet ==
    ASSUME TypeOK, NEW a \in Agents, Leave(a), NEW h \in Hosts, NEW s \in Sources,
           <<h, s>> \notin spoilt'
    PROVE  Quiet(h, s)
<1>1. rules' = rules /\ last' = last /\ misread' = misread
  BY DEF Leave
<1>2. ASSUME NEW b \in AgentsOn(h) PROVE Calm(b, s)
  <2>0. b \in Agents /\ HostOf[b] = h
    BY DEF AgentsOn
  <2>1. CASE b # a
    BY <1>1, <2>0, <2>1, SameCalm DEF Leave, TypeOK
  <2>2. CASE b = a
    <3>1. s \notin Undone(a)
      BY <2>0, <2>2 DEF Leave, Spoil
    <3>2. cmd'[a] = Nothing /\ inbox'[a] = <<>>
      BY DEF Leave, TypeOK
    <3>3. ~Carries(a, s)' /\ ~Has(inbox[a], s)'
      BY <3>2 DEF Carries, Has
    <3> QED
      BY <1>1, <2>2, <3>1, <3>3, UndoneHas, SameCalm
  <2> QED
    BY <2>1, <2>2
<1> QED
  BY <1>1, <1>2 DEF Quiet

\* A command about another source is begun or ended.
LEMMA OtherCalm ==
    ASSUME NEW b, NEW s, last'[s] = last[s], ~Carries(b, s), ~Carries(b, s)',
           Has(inbox[b], s)' <=> Has(inbox[b], s),
           EndsWith(inbox[b], s, last[s]) => EndsWith(inbox'[b], s, last[s])
    PROVE  Calm(b, s)
<1>1. \A c : c = [order |-> "quarantine", source |-> s] => c.source = s
  OBVIOUS
<1>2. Latest(b, s) => Latest(b, s)'
  BY DEF Latest
<1> QED
  BY <1>1, <1>2 DEF Calm, Carries

\* Agents that do something about s, and those of them that add a rule.
LEMMA OwingFacts ==
    ASSUME NEW h, NEW s
    PROVE  /\ Owing(h, s) \subseteq AgentsOn(h) /\ Owing(h, s)' \subseteq AgentsOn(h)
           /\ Adding(h, s)' \subseteq Owing(h, s)'
           /\ IsFiniteSet(AgentsOn(h)) /\ IsFiniteSet(Owing(h, s)) /\ IsFiniteSet(Owing(h, s)')
           /\ IsFiniteSet(Adding(h, s)) /\ IsFiniteSet(Adding(h, s)')
           /\ Cardinality(AgentsOn(h)) \in Nat
           /\ Cardinality(Owing(h, s)) \in Nat /\ Cardinality(Owing(h, s)') \in Nat
           /\ Cardinality(Adding(h, s)) \in Nat /\ Cardinality(Adding(h, s)') \in Nat
           /\ Cardinality(Adding(h, s)') <= Cardinality(Owing(h, s)')
<1>1. /\ Owing(h, s) \subseteq AgentsOn(h) /\ Owing(h, s)' \subseteq AgentsOn(h)
      /\ Adding(h, s) \subseteq AgentsOn(h) /\ Adding(h, s)' \subseteq AgentsOn(h)
      /\ AgentsOn(h) \subseteq Agents
  BY DEF Owing, Adding, AgentsOn
<1>2. Adding(h, s)' \subseteq Owing(h, s)'
  BY DEF Owing, Adding, Carries, AgentsOn
<1>3. /\ IsFiniteSet(AgentsOn(h)) /\ IsFiniteSet(Owing(h, s)) /\ IsFiniteSet(Owing(h, s)')
      /\ IsFiniteSet(Adding(h, s)) /\ IsFiniteSet(Adding(h, s)')
  BY <1>1, AgentSets
<1>4. Cardinality(Adding(h, s)') <= Cardinality(Owing(h, s)')
  BY <1>2, <1>3, FS_Subset
<1> QED
  BY <1>1, <1>2, <1>3, <1>4, FS_CardinalityType

\* A command about s reaches all agents of the host, as none of them missed it.
LEMMA PublishKeeps ==
    ASSUME IInv, NEW order \in Orders, NEW p \in Sources, Publish(order, p),
           NEW h \in Hosts, NEW s \in Sources, <<h, s>> \notin spoilt', Kept(h, s)
    PROVE  Kept(h, s)'
<1>1. PICK c : c = [order |-> order, source |-> p]
  OBVIOUS
<1>2. c \in Commands /\ c.order = order /\ c.source = p
  BY <1>1 DEF Commands
<1>3. /\ cmd' = cmd /\ rules' = rules /\ misread' = misread
      /\ \A b \in Agents : inbox[b] \in Seq(Commands)
                           /\ inbox'[b] = IF b \in linked THEN Append(inbox[b], c) ELSE inbox[b]
      /\ last \in [Sources -> Orders \cup {"none"}] /\ last' = [last EXCEPT ![p] = order]
  BY <1>1 DEF IInv, TypeOK, Publish
<1>4. CASE p # s
  <2>1. last'[s] = last[s]
    BY <1>3, <1>4
  <2>2. ASSUME NEW b \in AgentsOn(h) PROVE Calm(b, s)
    <3>1. b \in Agents
      BY DEF AgentsOn
    <3>2. CASE b \notin linked
      BY <1>3, <2>1, <3>1, <3>2, SameCalm
    <3>3. CASE b \in linked
      <4>1. inbox[b] \in Seq(Commands) /\ inbox'[b] = Append(inbox[b], c) /\ cmd'[b] = cmd[b]
        BY <1>3, <3>1, <3>3
      <4>2. /\ Has(inbox[b], s)' <=> Has(inbox[b], s)
            /\ EndsWith(inbox[b], s, last[s]) => EndsWith(inbox'[b], s, last[s])
        BY <1>2, <1>4, <4>1, HasAppend
      <4> QED
        BY <2>1, <4>1, <4>2 DEF Calm, Latest, Carries
    <3> QED
      BY <3>2, <3>3
  <2> QED
    BY <1>3, <2>1, <2>2, QuietKeeps DEF Quiet
<1>5. CASE p = s
  <2>1. \A b \in AgentsOn(h) : b \in Agents /\ b \in linked
    BY <1>5 DEF Publish, AgentsOn
  <2>2. \A b \in AgentsOn(h) : /\ Has(inbox'[b], s) /\ EndsWith(inbox'[b], s, order)
    BY <1>2, <1>3, <1>5, <2>1, HasAppend
  <2>3. last'[s] = order
    BY <1>3, <1>5
  <2>4. \A b \in AgentsOn(h) : Latest(b, s)'
    BY <2>2, <2>3 DEF Latest
  <2>5. AgentsOn(h)' = AgentsOn(h) /\ Owing(h, s)' = AgentsOn(h) /\ Adding(h, s)' = Adding(h, s)
    BY <1>3, <2>2 DEF AgentsOn, Owing, Adding
  <2>6. AgentsOn(h) # {} => Followed(h, s)'
    <3>1. rules[h][s] + Cardinality(Adding(h, s)) <= Cardinality(AgentsOn(h)) + misread[h][s]
      BY DEF IInv, CopiesBounded
    <3>2. misread[h][s] = 0
      BY DEF Kept
    <3>3. rules[h][s] + Cardinality(Adding(h, s)) <= Cardinality(AgentsOn(h))
      BY <3>1, <3>2, OwingFacts
    <3> QED
      BY <1>3, <2>5, <3>3 DEF Followed
  <2> QED
    BY <1>3, <2>4, <2>5, <2>6 DEF Kept
<1> QED
  BY <1>4, <1>5

\* A rule is added or removed.
LEMMA ActKeeps ==
    ASSUME IInv, NEW a \in Agents, Act(a), NEW h \in Hosts, NEW s \in Sources, Kept(h, s)
    PROVE  Kept(h, s)'
<1>1. /\ cmd[a] \in Commands /\ cmd[a] # Nothing /\ rules[h][s] \in Nat /\ TypeOK
      /\ cmd[a].source \in Sources /\ HostOf[a] \in Hosts /\ cmd[a].order \in Orders
      /\ cmd[a] = [order |-> cmd[a].order, source |-> cmd[a].source]
  BY ActRules, CommandFacts, QuarantineAssumption DEF IInv
<1>2. /\ inbox' = inbox /\ last' = last /\ misread' = misread
      /\ cmd'[a] = Nothing /\ \A b \in Agents : b # a => cmd'[b] = cmd[b]
  BY <1>1 DEF TypeOK, Act
<1>3. CASE ~(HostOf[a] = h /\ cmd[a].source = s)
  <2>1. rules'[h][s] = rules[h][s]
    <3>1. rules \in [Hosts -> [Sources -> Nat]]
      BY <1>1 DEF TypeOK
    <3>2. PICK n : rules' = [rules EXCEPT ![HostOf[a]][cmd[a].source] = n]
      BY DEF Act
    <3> QED
      BY <1>1, <1>3, <3>1, <3>2
  <2>2. ASSUME NEW b \in AgentsOn(h) PROVE Calm(b, s)
    <3>1. b \in Agents /\ HostOf[b] = h
      BY DEF AgentsOn
    <3>2. CASE b # a
      BY <1>2, <3>1, <3>2, SameCalm
    <3>3. CASE b = a
      <4>1. ~Carries(a, s) /\ ~Carries(a, s)'
        BY <1>2, <1>3, <3>1, <3>3 DEF Carries
      <4> QED
        BY <1>2, <3>3, <4>1, OtherCalm
    <3> QED
      BY <3>2, <3>3
  <2> QED
    BY <1>2, <2>1, <2>2, QuietKeeps DEF Quiet
<1>4. CASE HostOf[a] = h /\ cmd[a].source = s
  <2>1. a \in AgentsOn(h) /\ AgentsOn(h) \subseteq Agents /\ AgentsOn(h)' = AgentsOn(h)
    BY <1>4 DEF AgentsOn
  <2>2. \A b \in AgentsOn(h) : Latest(b, s)'
    BY <1>2, <2>1 DEF Kept, Latest, Carries
  <2>3. /\ a \in Owing(h, s)
        /\ Owing(h, s)' = IF Has(inbox[a], s) THEN Owing(h, s) ELSE Owing(h, s) \ {a}
    BY <1>1, <1>2, <1>4, <2>1 DEF Owing, Carries
  <2>4. cmd[a].order # last[s] => Has(inbox[a], s)
    BY <1>1, <1>4, <2>1 DEF Kept, Latest, Carries
  <2>5. rules'[h][s] = IF cmd[a].order = "quarantine" THEN rules[h][s] + 1
                       ELSE IF rules[h][s] = 0 THEN 0 ELSE rules[h][s] - 1
    <3>1. rules \in [Hosts -> [Sources -> Nat]]
      BY <1>1 DEF TypeOK
    <3>2. PICK n : n = IF cmd[a].order = "quarantine" THEN Added(rules[h][s]) ELSE Deleted(rules[h][s])
      OBVIOUS
    <3>3. rules' = [rules EXCEPT ![h] = [rules[h] EXCEPT ![s] = n]]
      BY <1>4, <3>2 DEF Act
    <3>4. rules'[h][s] = n
      BY <3>1, <3>3
    <3> QED
      BY <3>2, <3>4 DEF Added, Deleted
  <2>6. ASSUME Followed(h, s) PROVE Followed(h, s)'
    <3> PICK A, B, O, P, r :
             /\ A = Cardinality(Adding(h, s)) /\ B = Cardinality(Adding(h, s)')
             /\ O = Cardinality(Owing(h, s)) /\ P = Cardinality(Owing(h, s)')
             /\ r = rules[h][s]
      OBVIOUS
    <3>1. A \in Nat /\ B \in Nat /\ O \in Nat /\ P \in Nat /\ B <= P /\ r \in Nat
      BY <1>1, OwingFacts
    <3>2. Has(inbox[a], s) => P = O
      BY <2>3
    <3>3. O <= P + 1
      <4>1. IsFiniteSet(Owing(h, s)) /\ Cardinality(Owing(h, s) \ {a}) = O - 1
        BY <2>3, OwingFacts, FS_RemoveElement
      <4> QED
        BY <2>3, <3>1, <4>1
    <3>4. CASE cmd[a].order = "quarantine"
      <4>1. a \in Adding(h, s) /\ Adding(h, s)' = Adding(h, s) \ {a}
        BY <1>1, <1>2, <1>4, <2>1, <3>4 DEF Adding
      <4>2. B = A - 1
        BY <4>1, OwingFacts, FS_RemoveElement
      <4>3. rules'[h][s] = r + 1
        BY <2>5, <3>4
      <4>4. last[s] # "quarantine" => r + 1 + B <= P
        <5>1. last[s] # "quarantine" => r + A <= O /\ P = O
          BY <2>4, <2>6, <3>2, <3>4 DEF Followed
        <5> QED
          BY <3>1, <4>2, <5>1
      <4>5. r + 1 > 0
        BY <3>1
      <4> QED
        BY <1>2, <4>3, <4>4, <4>5 DEF Followed
    <3>5. CASE cmd[a].order # "quarantine"
      <4>1. Adding(h, s)' = Adding(h, s)
        BY <1>1, <1>2, <2>1, <3>5 DEF Adding
      <4>2. B = A
        BY <4>1
      <4>3. last[s] = "quarantine" => Owing(h, s)' # {}
        BY <2>3, <2>4, <3>5
      <4>4. rules'[h][s] = IF r = 0 THEN 0 ELSE r - 1
        BY <2>5, <3>5
      <4>5. last[s] # "quarantine" => rules'[h][s] + B <= P
        <5>1. last[s] # "quarantine" => r + A <= O
          BY <2>6 DEF Followed
        <5> QED
          BY <3>1, <3>3, <4>2, <4>4, <5>1
      <4> QED
        BY <1>2, <4>3, <4>5 DEF Followed
    <3> QED
      BY <3>4, <3>5
  <2> QED
    BY <1>2, <2>1, <2>2, <2>6 DEF Kept
<1> QED
  BY <1>3, <1>4

\* What taking a command does, where its check is not misread.
LEMMA TakeFacts ==
    ASSUME IInv, NEW a \in Agents, Take(a), NEW c, c = Head(inbox[a])
    PROVE  /\ inbox[a] \in Seq(Commands) /\ inbox[a] # <<>>
           /\ c \in Commands /\ cmd[a] = Nothing /\ inbox'[a] = Tail(inbox[a])
           /\ \A b \in Agents : b # a => inbox'[b] = inbox[b] /\ cmd'[b] = cmd[b]
           /\ rules' = rules /\ last' = last
           /\ cmd'[a] = Nothing \/ cmd'[a] = c
           /\ \A h \in Hosts, s \in Sources :
                 ~(HostOf[a] = h /\ c.source = s) => misread'[h][s] = misread[h][s]
           /\ <<HostOf[a], c.source>> \notin spoilt' =>
                 /\ misread' = misread
                 /\ ~Refused(a, c) =>
                       cmd'[a] = IF Acts(a, c, Present(a, c.source)) THEN c ELSE Nothing
<1>1. /\ inbox \in [Agents -> Seq(Commands)] /\ inbox[a] # <<>> /\ inbox[a] \in Seq(Commands)
      /\ inbox' = [inbox EXCEPT ![a] = Tail(@)] /\ rules' = rules /\ last' = last /\ TypeOK
  BY DEF IInv, TypeOK, Take
<1>2. cmd[a] = Nothing /\ c \in Commands
  BY <1>1, TakeOrders
<1>3. cmd \in [Agents -> Commands \cup {Nothing}] /\ misread \in [Hosts -> [Sources -> Nat]]
  BY <1>1 DEF TypeOK
<1>4. HostOf[a] \in Hosts /\ c.source \in Sources
  BY <1>2, CommandFacts, QuarantineAssumption
<1>5. \/ Refused(a, c) /\ cmd' = cmd /\ misread' = misread
      \/ /\ ~Refused(a, c) /\ misread' = misread
         /\ IF Acts(a, c, Present(a, c.source)) THEN cmd' = [cmd EXCEPT ![a] = c] ELSE cmd' = cmd
      \/ /\ \/ misread' = [misread EXCEPT ![HostOf[a]][c.source] = @ + 1]
            \/ misread' = misread
         /\ Spoil(a, {c.source})
         /\ cmd' = [cmd EXCEPT ![a] = c] \/ cmd' = cmd
  BY DEF Take
<1>6. Spoil(a, {c.source}) => <<HostOf[a], c.source>> \in spoilt'
  BY DEF Spoil
<1>7. cmd' = [cmd EXCEPT ![a] = c] \/ cmd' = cmd
  BY <1>5
<1>8. /\ \A b \in Agents : b # a => inbox'[b] = inbox[b] /\ cmd'[b] = cmd[b]
      /\ cmd'[a] = Nothing \/ cmd'[a] = c
      /\ inbox'[a] = Tail(inbox[a])
  BY <1>1, <1>2, <1>3, <1>7
<1>9. \A h \in Hosts, s \in Sources :
         ~(HostOf[a] = h /\ c.source = s) => misread'[h][s] = misread[h][s]
  <2>1. CASE misread' = misread
    BY <2>1
  <2>2. CASE misread' = [misread EXCEPT ![HostOf[a]][c.source] = @ + 1]
    BY <1>3, <1>4, <2>2
  <2> QED
    BY <1>5, <2>1, <2>2
<1>10. <<HostOf[a], c.source>> \notin spoilt' =>
          /\ misread' = misread
          /\ ~Refused(a, c) =>
                cmd'[a] = IF Acts(a, c, Present(a, c.source)) THEN c ELSE Nothing
  <2> SUFFICES ASSUME <<HostOf[a], c.source>> \notin spoilt'
               PROVE  /\ misread' = misread
                      /\ ~Refused(a, c) =>
                            cmd'[a] = IF Acts(a, c, Present(a, c.source)) THEN c ELSE Nothing
    OBVIOUS
  <2>1. CASE Refused(a, c) /\ cmd' = cmd /\ misread' = misread
    BY <2>1
  <2>2. CASE /\ ~Refused(a, c) /\ misread' = misread
             /\ IF Acts(a, c, Present(a, c.source)) THEN cmd' = [cmd EXCEPT ![a] = c] ELSE cmd' = cmd
    BY <1>2, <1>3, <2>2
  <2> QED
    BY <1>5, <1>6, <2>1, <2>2
<1> QED
  BY <1>1, <1>2, <1>8, <1>9, <1>10

\* A command about s is taken: what it asks for is already so, or is about to be.
LEMMA TakeKeeps ==
    ASSUME IInv, NEW a \in Agents, Take(a),
           NEW h \in Hosts, NEW s \in Sources, <<h, s>> \notin spoilt', Kept(h, s)
    PROVE  Kept(h, s)'
<1>1. PICK c : c = Head(inbox[a])
  OBVIOUS
<1>2. /\ inbox[a] \in Seq(Commands) /\ inbox[a] # <<>>
      /\ c \in Commands /\ cmd[a] = Nothing /\ inbox'[a] = Tail(inbox[a])
      /\ \A b \in Agents : b # a => inbox'[b] = inbox[b] /\ cmd'[b] = cmd[b]
      /\ rules' = rules /\ last' = last
      /\ cmd'[a] = Nothing \/ cmd'[a] = c
      /\ ~(HostOf[a] = h /\ c.source = s) => misread'[h][s] = misread[h][s]
  BY <1>1, TakeFacts
<1>3. c # Nothing /\ c = [order |-> c.order, source |-> c.source] /\ c.order \in Orders
  BY <1>2, CommandFacts
<1>4. /\ Has(inbox[a], s) <=> c.source = s \/ Has(inbox'[a], s)
      /\ EndsWith(inbox[a], s, last[s]) => EndsWith(inbox'[a], s, last[s])
      /\ EndsWith(inbox[a], s, last[s]) /\ c.source = s /\ ~Has(inbox'[a], s)
            => c.order = last[s]
  BY <1>1, <1>2, HasTail
<1>5. ~Carries(a, s)
  BY <1>2 DEF Carries
<1>6. CASE ~(HostOf[a] = h /\ c.source = s)
  <2>1. ASSUME NEW b \in AgentsOn(h) PROVE Calm(b, s)
    <3>1. b \in Agents /\ HostOf[b] = h
      BY DEF AgentsOn
    <3>2. CASE b # a
      BY <1>2, <3>1, <3>2, SameCalm
    <3>3. CASE b = a
      <4>1. c.source # s
        BY <1>6, <3>1, <3>3
      <4>2. ~Carries(b, s) /\ ~Carries(b, s)'
        BY <1>2, <1>5, <3>3, <4>1 DEF Carries
      <4>3. /\ Has(inbox[b], s)' <=> Has(inbox[b], s)
            /\ EndsWith(inbox[b], s, last[s]) => EndsWith(inbox'[b], s, last[s])
        BY <1>4, <3>3, <4>1
      <4>4. last'[s] = last[s]
        BY <1>2
      <4> QED
        BY <4>2, <4>3, <4>4, OtherCalm
    <3> QED
      BY <3>2, <3>3
  <2> QED
    BY <1>2, <1>6, <2>1, QuietKeeps DEF Quiet
<1>7. CASE HostOf[a] = h /\ c.source = s
  <2>1. a \in AgentsOn(h) /\ AgentsOn(h) \subseteq Agents /\ AgentsOn(h)' = AgentsOn(h)
    BY <1>7 DEF AgentsOn
  <2>2. /\ misread' = misread
        /\ ~Refused(a, c) => cmd'[a] = IF Acts(a, c, rules[h][s] > 0) THEN c ELSE Nothing
    BY <1>1, <1>7, TakeFacts DEF Present
  <2>3. Latest(a, s) /\ Latest(a, s)'
    <3>1. EndsWith(inbox[a], s, last[s]) /\ Latest(a, s)
      BY <2>1 DEF Kept, Latest
    <3>2. last'[s] = last[s]
      BY <1>2
    <3> QED
      BY <1>2, <1>4, <1>7, <3>1, <3>2 DEF Latest, Carries
  <2>4. \A b \in AgentsOn(h) : Latest(b, s)'
    <3>1. ASSUME NEW b \in AgentsOn(h), b # a PROVE Latest(b, s)'
      BY <1>2, <2>1, <3>1 DEF Kept, Latest, Carries
    <3> QED
      BY <2>3, <3>1
  <2>5. a \in Owing(h, s)
    BY <1>4, <1>7, <2>1 DEF Owing
  <2>6. Owing(h, s)' = IF Carries(a, s)' \/ Has(inbox'[a], s) THEN Owing(h, s)
                       ELSE Owing(h, s) \ {a}
    <3>1. \A b \in AgentsOn(h) : b # a => (b \in Owing(h, s)' <=> b \in Owing(h, s))
      BY <1>2, <2>1 DEF Owing, Carries
    <3>2. a \in Owing(h, s)' <=> Carries(a, s)' \/ Has(inbox'[a], s)
      BY <2>1 DEF Owing
    <3> QED
      BY <2>1, <2>5, <3>1, <3>2, OwingFacts
  <2>7. ASSUME Followed(h, s), s \notin Exempt[a] PROVE Followed(h, s)'
    <3>1. cmd'[a] = IF Acts(a, c, rules[h][s] > 0) THEN c ELSE Nothing
      BY <1>7, <2>2, <2>7 DEF Refused
    <3>2. last[s] # c.order => Has(inbox'[a], s)
      BY <1>4, <1>7, <2>3 DEF Latest
    <3>3. rules[h][s] \in Nat /\ last'[s] = last[s] /\ rules'[h][s] = rules[h][s]
      BY <1>2 DEF IInv, TypeOK
    <3>4. c.order = "quarantine" /\ rules[h][s] = 0 => Carries(a, s)'
      BY <1>3, <1>7, <3>1 DEF Acts, Carries
    <3>5. last[s] = "quarantine" => rules'[h][s] > 0 \/ Owing(h, s)' # {}
      <4>1. CASE rules[h][s] > 0
        BY <3>3, <4>1
      <4>2. CASE rules[h][s] = 0 /\ last[s] = "quarantine"
        BY <2>5, <2>6, <3>2, <3>4, <4>2
      <4> QED
        BY <3>3, <4>1, <4>2
    <3>6. ASSUME last[s] # "quarantine"
          PROVE  rules'[h][s] + Cardinality(Adding(h, s)') <= Cardinality(Owing(h, s)')
      <4>1. CASE rules[h][s] = 0
        BY <3>3, <4>1, OwingFacts
      <4>2. CASE rules[h][s] > 0
        <5>1. Carries(a, s)' \/ Has(inbox'[a], s)
          <6>1. CASE c.order = "quarantine"
            BY <3>2, <3>6, <6>1
          <6>2. CASE c.order # "quarantine"
            BY <1>3, <1>7, <3>1, <4>2, <6>2 DEF Acts, Carries
          <6> QED
            BY <6>1, <6>2
        <5>2. ~(cmd'[a] # Nothing /\ cmd'[a] = [order |-> "quarantine", source |-> s])
          <6>1. c.order = "quarantine" => cmd'[a] = Nothing
            BY <3>1, <4>2 DEF Acts
          <6>2. cmd'[a] # Nothing => cmd'[a].order # "quarantine"
            BY <1>2, <6>1
          <6> QED
            BY <6>2
        <5>3. Adding(h, s)' = Adding(h, s)
          BY <1>2, <2>1, <5>2 DEF Adding
        <5>4. Owing(h, s)' = Owing(h, s)
          BY <2>6, <5>1
        <5> QED
          BY <2>7, <3>3, <3>6, <5>3, <5>4 DEF Followed
      <4> QED
        BY <3>3, <4>1, <4>2
    <3> QED
      BY <3>3, <3>5, <3>6 DEF Followed
  <2>8. Kept(h, s)' <=> /\ misread'[h][s] = 0
                        /\ \A b \in AgentsOn(h) : Latest(b, s)'
                        /\ AgentsOn(h) # {} /\ (\A b \in AgentsOn(h) : s \notin Exempt[b])
                              => Followed(h, s)'
    BY <2>1 DEF Kept
  <2> QED
    BY <2>1, <2>2, <2>4, <2>7, <2>8 DEF Kept
<1> QED
  BY <1>6, <1>7

\* A lost link takes commands about other sources only.
LEMMA LinkLostQuiet ==
    ASSUME TypeOK, NEW a \in Agents, LinkLost(a), NEW h \in Hosts, NEW s \in Sources,
           <<h, s>> \notin spoilt'
    PROVE  Quiet(h, s)
<1>1. rules' = rules /\ last' = last /\ misread' = misread /\ cmd' = cmd
  BY DEF LinkLost
<1>2. ASSUME NEW b \in AgentsOn(h) PROVE Calm(b, s)
  <2>1. b \in Agents /\ HostOf[b] = h
    BY DEF AgentsOn
  <2>2. CASE b # a
    BY <1>1, <2>1, <2>2, SameCalm DEF LinkLost, TypeOK
  <2>3. CASE b = a
    <3>1. ~Has(inbox[b], s)
      BY <2>1, <2>3, UndoneHas DEF LinkLost, Spoil
    <3>2. inbox'[b] = <<>>
      BY <2>3 DEF LinkLost, TypeOK
    <3>3. ~Has(inbox'[b], s) /\ EndsWith(inbox'[b], s, last[s])
      BY <3>2 DEF Has, EndsWith
    <3> QED
      BY <1>1, <3>1, <3>3 DEF Calm, Latest, Carries
  <2> QED
    BY <2>2, <2>3
<1> QED
  BY <1>1, <1>2 DEF Quiet

LEMMA ActFailsQuiet ==
    ASSUME TypeOK, NEW a \in Agents, ActFails(a), NEW h \in Hosts, NEW s \in Sources,
           <<h, s>> \notin spoilt'
    PROVE  Quiet(h, s)
<1>1. rules' = rules /\ last' = last /\ misread' = misread /\ inbox' = inbox
  BY DEF ActFails
<1>2. ASSUME NEW b \in AgentsOn(h) PROVE Calm(b, s)
  <2>1. b \in Agents /\ HostOf[b] = h
    BY DEF AgentsOn
  <2>2. CASE b # a
    BY <1>1, <2>1, <2>2, SameCalm DEF ActFails, TypeOK
  <2>3. CASE b = a
    <3>1. ~Carries(b, s)
      BY <2>1, <2>3 DEF ActFails, Spoil, Carries
    <3>2. ~Carries(b, s)'
      BY <2>3 DEF ActFails, TypeOK, Carries
    <3> QED
      BY <1>1, <3>1, <3>2, OtherCalm
  <2> QED
    BY <2>2, <2>3
<1> QED
  BY <1>1, <1>2 DEF Quiet

\* Steps of the loop, of main and of a restart change nothing here.
LEMMA IdleQuiet ==
    ASSUME UNCHANGED <<inbox, cmd, rules, last, misread>>, NEW h, NEW s
    PROVE  Quiet(h, s)
BY SameCalm DEF Quiet

LEMMA OrdersReachStep == IInv /\ [Next]_vars => OrdersReach'
<1> SUFFICES ASSUME IInv, [Next]_vars, NEW h \in Hosts, NEW s \in Sources, <<h, s>> \notin spoilt'
             PROVE  Kept(h, s)'
  BY DEF OrdersReach, Kept
<1>1. spoilt \subseteq spoilt'
  BY DEF Next, Step, Detect, Release, Publish, Subscribe, SubscribeFails, LinkLost, Relink, Leave,
         Loop, PollsNothing, Take, Act, ActFails, SetStop, Terminate, Restart, Spoil, vars, listeners
<1>2. Kept(h, s) /\ TypeOK
  BY <1>1 DEF IInv, OrdersReach, Kept
<1>3. ASSUME NEW order \in Orders, NEW p \in Sources, Publish(order, p) PROVE Kept(h, s)'
  BY <1>2, <1>3, PublishKeeps
<1>4. ASSUME NEW a \in Agents, Take(a) PROVE Kept(h, s)'
  BY <1>2, <1>4, TakeKeeps
<1>5. ASSUME NEW a \in Agents, Act(a) PROVE Kept(h, s)'
  BY <1>2, <1>5, ActKeeps
<1>6. ASSUME NEW a \in Agents, Subscribe(a) \/ SubscribeFails(a) \/ Relink(a)
                                  \/ PollsNothing(a) \/ SetStop(a) \/ Restart(a)
      PROVE  Kept(h, s)'
  <2>1. UNCHANGED <<inbox, cmd, rules, last, misread>>
    BY <1>6 DEF Subscribe, SubscribeFails, Relink, PollsNothing, SetStop, Restart
  <2> QED
    BY <1>2, <2>1, IdleQuiet, QuietKeeps
<1>7. ASSUME NEW a \in Agents, Loop(a) PROVE Kept(h, s)'
  <2>1. CASE Leave(a)
    BY <1>2, <2>1, LeaveQuiet, QuietKeeps
  <2>2. CASE UNCHANGED <<inbox, cmd, rules, last, misread>>
    BY <1>2, <2>2, IdleQuiet, QuietKeeps
  <2> QED
    BY <1>7, <2>1, <2>2 DEF Loop
<1>8. ASSUME NEW a \in Agents, Terminate(a) PROVE Kept(h, s)'
  BY <1>2, <1>8, LeaveQuiet, QuietKeeps DEF Terminate
<1>9. ASSUME NEW a \in Agents, LinkLost(a) PROVE Kept(h, s)'
  BY <1>2, <1>9, LinkLostQuiet, QuietKeeps
<1>10. ASSUME NEW a \in Agents, ActFails(a) PROVE Kept(h, s)'
  BY <1>2, <1>10, ActFailsQuiet, QuietKeeps
<1>11. CASE UNCHANGED vars
  <2>1. UNCHANGED <<inbox, cmd, rules, last, misread>>
    BY <1>11 DEF vars, listeners
  <2> QED
    BY <1>2, <2>1, IdleQuiet, QuietKeeps
<1> QED
  BY <1>3, <1>4, <1>5, <1>6, <1>7, <1>8, <1>9, <1>10, <1>11
  DEF Next, Step, Detect, Release, Orders

LEMMA InitOrdersReach == Init => OrdersReach
<1> SUFFICES ASSUME Init, NEW h \in Hosts, NEW s \in Sources PROVE Kept(h, s)
  BY DEF OrdersReach, Kept
<1>1. \A a \in AgentsOn(h) : inbox[a] = <<>> /\ cmd[a] = Nothing
  BY DEF Init, AgentsOn
<1>2. rules[h][s] = 0 /\ misread[h][s] = 0 /\ last[s] = "none"
  BY DEF Init
<1>3. \A a \in AgentsOn(h) : ~Carries(a, s) /\ ~Has(inbox[a], s) /\ Latest(a, s)
  BY <1>1 DEF Carries, Has, Latest, EndsWith
<1>4. Owing(h, s) = {} /\ Adding(h, s) = {}
  BY <1>1, <1>3 DEF Owing, Adding
<1>5. Followed(h, s)
  BY <1>2, <1>4, FS_EmptySet DEF Followed
<1> QED
  BY <1>2, <1>3, <1>5 DEF Kept

\* Once the agents of a host have done all they know of, none owes anything.
LEMMA SettledFollows == IInv => FirewallFollowsOrders
<1> SUFFICES ASSUME IInv, NEW h \in Hosts, NEW s \in Sources,
                    Settled(h), <<h, s>> \notin spoilt, AgentsOn(h) # {},
                    \A a, b \in AgentsOn(h) : s \in Exempt[a] <=> s \in Exempt[b]
             PROVE  rules[h][s] > 0
                      <=> last[s] = "quarantine" /\ \A a \in AgentsOn(h) : s \notin Exempt[a]
  BY DEF FirewallFollowsOrders
<1>1. \A a \in AgentsOn(h) : inbox[a] = <<>> /\ cmd[a] = Nothing
  BY DEF Settled
<1>2. Owing(h, s) = {} /\ Adding(h, s) = {}
  BY <1>1 DEF Owing, Adding, Carries, Has
<1>3. rules[h][s] \in Nat
  BY DEF IInv, TypeOK
<1>4. CASE \E a \in AgentsOn(h) : s \in Exempt[a]
  <2>1. \A a \in AgentsOn(h) : s \in Exempt[a]
    BY <1>4
  <2> QED
    BY <1>4, <2>1 DEF IInv, ExemptNeverBlocked
<1>5. CASE \A a \in AgentsOn(h) : s \notin Exempt[a]
  <2>1. Followed(h, s)
    BY <1>5 DEF IInv, OrdersReach
  <2>2. last[s] # "quarantine" => rules[h][s] + 0 <= 0
    BY <1>2, <2>1, FS_EmptySet DEF Followed
  <2>3. last[s] = "quarantine" => rules[h][s] > 0
    BY <1>2, <2>1 DEF Followed
  <2> QED
    BY <1>3, <1>5, <2>2, <2>3
<1> QED
  BY <1>4, <1>5

-----------------------------------------------------------------------------
(* The theorems.                                                           *)

\* The inductive invariant of the IPS.
THEOREM Invariant == Spec => []IInv
<1>1. IInv /\ [Next]_vars => IInv'
  BY TypeStep, NoneRefusedStep, CopiesStep, ExemptStep, OrdersReachStep DEF IInv
<1>2. Init => IInv
  BY InitInvariant, InitOrdersReach DEF IInv
<1> QED
  BY <1>1, <1>2, PTL DEF Spec

\* The listeners of _ips_worker and the rules keep their types.
THEOREM TypeCorrect == Spec => []TypeOK
BY Invariant, PTL DEF IInv

\* The checks and additions of the agents of a host can race, for each agent once.
THEOREM Copies == Spec => []CopiesBounded
BY Invariant, PTL DEF IInv

\* No command makes the agents of a host block what all of them exempt.
THEOREM Exempts == Spec => []ExemptNeverBlocked
BY Invariant, PTL DEF IInv
\* However the agents of a host interleave their looks and calls, the rule is there at
\* the end if the last order was a quarantine, and not if it was a release.
THEOREM Follows == Spec => []FirewallFollowsOrders
BY Invariant, SettledFollows, PTL
-----------------------------------------------------------------------------
(* What of ListenersGoOn is safety.                                        *)

LEMMA InboxLinked == Spec => []InboxOfLinked
<1>1. Init => InboxOfLinked
  BY DEF Init, InboxOfLinked
<1>2. TypeOK /\ InboxOfLinked /\ [Next]_vars => InboxOfLinked'
  <2> SUFFICES ASSUME TypeOK, InboxOfLinked, [Next]_vars, NEW b \in Agents
               PROVE  /\ inbox'[b] # <<>> => b \in linked'
                      /\ b \in linked' => at'[b] \notin {"start", "ended"}
    BY DEF InboxOfLinked
  <2>0. /\ inbox[b] # <<>> => b \in linked
        /\ b \in linked => at[b] \notin {"start", "ended"}
        /\ at \in [Agents -> {"start", "loop", "poll", "act", "ended"}]
        /\ inbox \in [Agents -> Seq(Commands)]
    BY DEF InboxOfLinked, TypeOK
  <2>1. ASSUME NEW order \in Orders, NEW s \in Sources, Publish(order, s)
        PROVE  /\ inbox'[b] # <<>> => b \in linked'
               /\ b \in linked' => at'[b] \notin {"start", "ended"}
    BY <2>0, <2>1 DEF Publish
  <2>2. ASSUME NEW a \in Agents, Leave(a)
        PROVE  /\ inbox'[b] # <<>> => b \in linked'
               /\ b \in linked' => at'[b] \notin {"start", "ended"}
    BY <2>0, <2>2 DEF Leave, Go
  <2>3. ASSUME NEW a \in Agents, Take(a)
        PROVE  /\ inbox'[b] # <<>> => b \in linked'
               /\ b \in linked' => at'[b] \notin {"start", "ended"}
    <3>1. /\ at' = [at EXCEPT ![a] = "loop"] \/ at' = [at EXCEPT ![a] = "act"]
          /\ inbox[a] # <<>> /\ inbox' = [inbox EXCEPT ![a] = Tail(@)] /\ linked' = linked
      BY <2>3 DEF Take, Go
    <3> QED
      BY <2>0, <3>1
  <2>4. ASSUME NEW a \in Agents,
               \/ Subscribe(a) \/ Relink(a) \/ PollsNothing(a) \/ Act(a)
               \/ SubscribeFails(a) \/ LinkLost(a) \/ ActFails(a) \/ SetStop(a) \/ Restart(a)
        PROVE  /\ inbox'[b] # <<>> => b \in linked'
               /\ b \in linked' => at'[b] \notin {"start", "ended"}
    <3>1. CASE a = b
      BY <2>0, <2>4, <3>1
         DEF Subscribe, Relink, PollsNothing, Act, SubscribeFails, LinkLost, ActFails, SetStop, Restart, Go
    <3>2. CASE a # b
      BY <2>0, <2>4, <3>2
         DEF Subscribe, Relink, PollsNothing, Act, SubscribeFails, LinkLost, ActFails, SetStop, Restart, Go
    <3> QED
      BY <3>1, <3>2
  <2>5. ASSUME NEW a \in Agents, Loop(a)
        PROVE  /\ inbox'[b] # <<>> => b \in linked'
               /\ b \in linked' => at'[b] \notin {"start", "ended"}
    <3>1. CASE Leave(a)
      BY <2>2, <3>1
    <3>2. CASE Go(a, "poll") /\ UNCHANGED <<linked, inbox>>
      BY <2>0, <3>2 DEF Go
    <3> QED
      BY <2>5, <3>1, <3>2 DEF Loop
  <2>6. ASSUME NEW a \in Agents, Terminate(a)
        PROVE  /\ inbox'[b] # <<>> => b \in linked'
               /\ b \in linked' => at'[b] \notin {"start", "ended"}
    BY <2>2, <2>6 DEF Terminate
  <2>7. CASE UNCHANGED vars
    BY <2>0, <2>7 DEF vars, listeners
  <2> QED
    BY <2>1, <2>3, <2>4, <2>5, <2>6, <2>7 DEF Next, Step, Detect, Release, Orders
<1>3. IInv => TypeOK
  BY DEF IInv
<1> QED
  BY <1>1, <1>2, <1>3, Invariant, PTL DEF Spec

\* The places and the length of a queue.
LEMMA Places ==
    /\ RoundFrom("start") = 3 /\ RoundFrom("act") = 3 /\ RoundFrom("loop") = 2
    /\ RoundFrom("poll") = 1 /\ RoundFrom("ended") = 0
BY DEF RoundFrom

LEMMA Lengths ==
    ASSUME NEW q \in Seq(Commands)
    PROVE  /\ Len(q) \in Nat /\ Len(<<>>) = 0
           /\ q # <<>> => Len(q) >= 1 /\ Len(Tail(q)) = Len(q) - 1
OBVIOUS

\* Nobody else moves a listener or takes from its inbox.
LEMMA OthersLeave ==
    ASSUME TypeOK, NEW a \in Agents, NEW b \in Agents, a # b,
           \/ Step(a) \/ SubscribeFails(a) \/ LinkLost(a) \/ ActFails(a)
           \/ SetStop(a) \/ Terminate(a) \/ Restart(a)
    PROVE  /\ at'[b] = at[b] /\ inbox'[b] = inbox[b]
           /\ b \in linked' <=> b \in linked
<1>0. /\ at \in [Agents -> {"start", "loop", "poll", "act", "ended"}]
      /\ inbox \in [Agents -> Seq(Commands)]
  BY DEF TypeOK
<1>1. CASE Leave(a)
  BY <1>0, <1>1 DEF Leave, Go
<1>2. CASE Take(a)
  <2>1. /\ at' = [at EXCEPT ![a] = "loop"] \/ at' = [at EXCEPT ![a] = "act"]
        /\ inbox' = [inbox EXCEPT ![a] = Tail(@)] /\ linked' = linked
    BY <1>2 DEF Take, Go
  <2> QED
    BY <1>0, <2>1
<1>3. CASE Subscribe(a) \/ Relink(a) \/ PollsNothing(a) \/ Act(a) \/ SubscribeFails(a)
             \/ LinkLost(a) \/ ActFails(a) \/ SetStop(a) \/ Restart(a)
  BY <1>0, <1>3
     DEF Subscribe, Relink, PollsNothing, Act, SubscribeFails, LinkLost, ActFails, SetStop, Restart, Go
<1>4. CASE Loop(a) /\ ~Leave(a)
  BY <1>0, <1>4 DEF Loop, Go
<1> QED
  BY <1>1, <1>2, <1>3, <1>4 DEF Step, Terminate, Loop

\* What a has before it, as numbers.
Rounds(a) == 3 * Len(inbox[a]) + RoundFrom(at[a])
RoundsNext(a) == 3 * Len(inbox'[a]) + RoundFrom(at'[a])
Heads(a) == HeadFrom(at[a], a \in linked)
HeadsNext(a) == HeadFrom(at'[a], a \in linked')

LEMMA HeadPlaces ==
    ASSUME NEW a
    PROVE  /\ at[a] \in {"start", "act"} => Heads(a) = 2
           /\ at[a] = "loop" => Heads(a) = 1
           /\ at[a] = "ended" => Heads(a) = 0
           /\ at[a] = "poll" => Heads(a) = IF a \in linked THEN 3 ELSE 4
           /\ at'[a] \in {"start", "act"} => HeadsNext(a) = 2
           /\ at'[a] = "loop" => HeadsNext(a) = 1
           /\ at'[a] = "ended" => HeadsNext(a) = 0
           /\ at'[a] = "poll" => HeadsNext(a) = IF a \in linked' THEN 3 ELSE 4
BY DEF Heads, HeadsNext, HeadFrom

\* Its own steps bring a listener on.
LEMMA StepMoves ==
    ASSUME TypeOK, InboxOfLinked, NEW a \in Agents, Step(a)
    PROVE  /\ inbox[a] # <<>> => RoundsNext(a) < Rounds(a)
           /\ a \in stop => HeadsNext(a) < Heads(a)
<1>0. /\ at \in [Agents -> {"start", "loop", "poll", "act", "ended"}]
      /\ inbox \in [Agents -> Seq(Commands)] /\ inbox[a] \in Seq(Commands)
      /\ inbox[a] # <<>> => a \in linked
      /\ a \in linked => at[a] \notin {"start", "ended"}
  BY DEF TypeOK, InboxOfLinked
<1>1. /\ Len(inbox[a]) \in Nat /\ Len(<<>>) = 0
      /\ inbox[a] # <<>> => Len(inbox[a]) >= 1 /\ Len(Tail(inbox[a])) = Len(inbox[a]) - 1
  BY <1>0, Lengths
<1>2. CASE Subscribe(a)
  <2>1. at[a] = "start" /\ at'[a] = "loop" /\ inbox[a] = <<>>
    BY <1>0, <1>2 DEF Subscribe, Go
  <2> QED
    BY <1>0, <2>1, HeadPlaces
<1>3. CASE Loop(a)
  <2>1. CASE a \in stop
    <3>1. at[a] = "loop" /\ at'[a] = "ended" /\ inbox'[a] = <<>>
      BY <1>0, <1>3, <2>1 DEF Loop, Leave, Go
    <3>2. HeadsNext(a) < Heads(a)
      BY <1>0, <3>1, HeadPlaces
    <3>3. RoundsNext(a) = 0 /\ Rounds(a) = 3 * Len(inbox[a]) + 2
      BY <1>1, <3>1, Places DEF Rounds, RoundsNext
    <3> QED
      BY <1>1, <3>2, <3>3
  <2>2. CASE a \notin stop
    <3>1. at[a] = "loop" /\ at'[a] = "poll" /\ inbox'[a] = inbox[a]
      BY <1>0, <1>3, <2>2 DEF Loop, Go
    <3>2. RoundsNext(a) = 3 * Len(inbox[a]) + 1 /\ Rounds(a) = 3 * Len(inbox[a]) + 2
      BY <3>1, Places DEF Rounds, RoundsNext
    <3> QED
      BY <1>1, <2>2, <3>2
  <2> QED
    BY <2>1, <2>2
<1>4. CASE Relink(a)
  <2>1. at[a] = "poll" /\ at'[a] = "poll" /\ a \notin linked /\ a \in linked' /\ inbox[a] = <<>>
    BY <1>0, <1>4 DEF Relink
  <2>2. Heads(a) = 4 /\ HeadsNext(a) = 3
    BY <1>0, <2>1, HeadPlaces
  <2> QED
    BY <2>1, <2>2
<1>5. CASE PollsNothing(a)
  <2>1. at[a] = "poll" /\ at'[a] = "loop" /\ inbox[a] = <<>>
    BY <1>0, <1>5 DEF PollsNothing, Go
  <2>2. HeadsNext(a) = 1 /\ Heads(a) \in {3, 4}
    BY <1>0, <2>1, HeadPlaces
  <2> QED
    BY <2>1, <2>2
<1>6. CASE Take(a)
  <2>1. /\ at' = [at EXCEPT ![a] = "loop"] \/ at' = [at EXCEPT ![a] = "act"]
        /\ at[a] = "poll" /\ inbox[a] # <<>>
        /\ inbox' = [inbox EXCEPT ![a] = Tail(@)] /\ linked' = linked
    BY <1>6 DEF Take, Go
  <2>2. at'[a] \in {"loop", "act"} /\ inbox'[a] = Tail(inbox[a])
    BY <1>0, <2>1
  <2>3. HeadsNext(a) \in {1, 2} /\ Heads(a) \in {3, 4}
    BY <1>0, <2>1, <2>2, HeadPlaces
  <2>4. /\ Rounds(a) = 3 * Len(inbox[a]) + 1
        /\ RoundFrom(at'[a]) \in {2, 3}
        /\ RoundsNext(a) = 3 * Len(Tail(inbox[a])) + RoundFrom(at'[a])
    BY <2>1, <2>2, Places DEF Rounds, RoundsNext
  <2>5. Len(inbox[a]) >= 1 /\ Len(Tail(inbox[a])) = Len(inbox[a]) - 1
    BY <1>1, <2>1
  <2>6. RoundsNext(a) < Rounds(a)
    BY <1>1, <2>4, <2>5
  <2> QED
    BY <2>3, <2>6
<1>7. CASE Act(a)
  <2>1. at[a] = "act" /\ at'[a] = "loop" /\ inbox'[a] = inbox[a]
    BY <1>0, <1>7 DEF Act, Go
  <2>2. HeadsNext(a) < Heads(a)
    BY <1>0, <2>1, HeadPlaces
  <2>3. RoundsNext(a) = 3 * Len(inbox[a]) + 2 /\ Rounds(a) = 3 * Len(inbox[a]) + 3
    BY <2>1, Places DEF Rounds, RoundsNext
  <2> QED
    BY <1>1, <2>2, <2>3
<1> QED
  BY <1>2, <1>3, <1>4, <1>5, <1>6, <1>7 DEF Step

\* What befalls a listener gives it no more commands to do, and each time it has
\* further to go a fault is counted.
LEMMA FaultMoves ==
    ASSUME TypeOK, InboxOfLinked, NEW a \in Agents,
           \/ SubscribeFails(a) \/ LinkLost(a) \/ ActFails(a)
           \/ SetStop(a) \/ Terminate(a) \/ Restart(a)
    PROVE  /\ inbox[a] # <<>> => RoundsNext(a) <= Rounds(a)
           /\ faults' > faults
<1>0. /\ at \in [Agents -> {"start", "loop", "poll", "act", "ended"}]
      /\ inbox \in [Agents -> Seq(Commands)] /\ inbox[a] \in Seq(Commands)
      /\ inbox[a] # <<>> => a \in linked
      /\ a \in linked => at[a] \notin {"start", "ended"}
      /\ faults \in Nat
  BY QuarantineAssumption DEF TypeOK, InboxOfLinked
<1>1. faults' > faults
  BY <1>0 DEF SubscribeFails, LinkLost, ActFails, SetStop, Terminate, Restart, Fault
<1>2. Len(inbox[a]) \in Nat /\ Len(<<>>) = 0 /\ RoundFrom(at[a]) \in 0..3
  BY <1>0, Lengths, Places
<1>3. CASE SubscribeFails(a) \/ Restart(a)
  <2>1. inbox[a] = <<>>
    BY <1>0, <1>3 DEF SubscribeFails, Restart
  <2> QED
    BY <1>1, <2>1
<1>4. CASE LinkLost(a)
  <2>1. inbox'[a] = <<>> /\ at'[a] = at[a]
    BY <1>0, <1>4 DEF LinkLost
  <2>2. RoundsNext(a) = RoundFrom(at[a]) /\ Rounds(a) = 3 * Len(inbox[a]) + RoundFrom(at[a])
    BY <1>2, <2>1 DEF Rounds, RoundsNext
  <2> QED
    BY <1>1, <1>2, <2>2
<1>5. CASE ActFails(a)
  <2>1. at[a] = "act" /\ at'[a] = "loop" /\ inbox'[a] = inbox[a]
    BY <1>0, <1>5 DEF ActFails, Go
  <2>2. RoundsNext(a) = 3 * Len(inbox[a]) + 2 /\ Rounds(a) = 3 * Len(inbox[a]) + 3
    BY <2>1, Places DEF Rounds, RoundsNext
  <2> QED
    BY <1>1, <1>2, <2>2
<1>6. CASE SetStop(a)
  <2>1. at'[a] = at[a] /\ inbox'[a] = inbox[a]
    BY <1>6 DEF SetStop
  <2>2. RoundsNext(a) = 3 * Len(inbox[a]) + RoundFrom(at[a]) /\ Rounds(a) = 3 * Len(inbox[a]) + RoundFrom(at[a])
    BY <2>1 DEF Rounds, RoundsNext
  <2> QED
    BY <1>1, <1>2, <2>2
<1>7. CASE Terminate(a)
  <2>1. inbox'[a] = <<>> /\ at'[a] = "ended"
    BY <1>0, <1>7 DEF Terminate, Leave, Go
  <2>2. RoundsNext(a) = 0 /\ Rounds(a) = 3 * Len(inbox[a]) + RoundFrom(at[a])
    BY <1>2, <2>1, Places DEF Rounds, RoundsNext
  <2> QED
    BY <1>1, <1>2, <2>2
<1> QED
  BY <1>3, <1>4, <1>5, <1>6, <1>7

\* A listener gets through the commands it has, and one that is told to stop comes to
\* the place where it looks at stop_event, whatever it has to do (sniffer._ips_worker).
THEOREM ListenersMove == Spec => ListenersAdvance
<1>1. TypeOK /\ InboxOfLinked /\ [Next]_vars =>
          [\A a \in Agents :
             /\ inbox[a] # <<>> =>
                   /\ Step(a) => ToDo(a)' < ToDo(a)
                   /\ ToDo(a)' <= ToDo(a) \/ published' > published
             /\ a \in stop =>
                   /\ Step(a) => ToHead(a)' < ToHead(a)
                   /\ ToHead(a)' <= ToHead(a) \/ faults' > faults]_vars
  <2> SUFFICES ASSUME TypeOK, InboxOfLinked, Next, NEW a \in Agents
               PROVE  /\ inbox[a] # <<>> =>
                           /\ Step(a) => RoundsNext(a) < Rounds(a)
                           /\ RoundsNext(a) <= Rounds(a) \/ published' > published
                      /\ a \in stop =>
                           /\ Step(a) => HeadsNext(a) < Heads(a)
                           /\ HeadsNext(a) <= Heads(a) \/ faults' > faults
    BY DEF ToDo, ToHead, Rounds, RoundsNext, Heads, HeadsNext
  <2>0. /\ at \in [Agents -> {"start", "loop", "poll", "act", "ended"}]
        /\ inbox \in [Agents -> Seq(Commands)] /\ inbox[a] \in Seq(Commands)
        /\ published \in Nat
    BY QuarantineAssumption DEF TypeOK
  <2>1. Len(inbox[a]) \in Nat /\ RoundFrom(at[a]) \in 0..3
    BY <2>0, Lengths, Places
  <2>2. Rounds(a) \in Nat /\ Heads(a) \in Nat
    <3>1. Rounds(a) \in Nat
      BY <2>1 DEF Rounds
    <3>2. Heads(a) \in Nat
      BY <2>0, HeadPlaces
    <3> QED
      BY <3>1, <3>2
  <2>3. Step(a) => /\ inbox[a] # <<>> => RoundsNext(a) < Rounds(a)
                   /\ a \in stop => HeadsNext(a) < Heads(a)
    BY StepMoves
  <2> SUFFICES /\ inbox[a] # <<>> => RoundsNext(a) <= Rounds(a) \/ published' > published
               /\ a \in stop => HeadsNext(a) <= Heads(a) \/ faults' > faults
    BY <2>3
  <2>4. CASE Step(a)
    <3>1. inbox[a] # <<>> => RoundsNext(a) <= Rounds(a)
      <4> SUFFICES ASSUME inbox[a] # <<>> PROVE RoundsNext(a) <= Rounds(a)
        OBVIOUS
      <4>1. RoundsNext(a) < Rounds(a)
        BY <2>3, <2>4
      <4>2. inbox'[a] \in Seq(Commands) /\ at'[a] \in {"start", "loop", "poll", "act", "ended"}
        BY TypeStep DEF TypeOK
      <4>3. RoundsNext(a) \in Int
        BY <4>2, Lengths, Places DEF RoundsNext
      <4> QED
        BY <2>2, <4>1, <4>3
    <3>2. a \in stop => HeadsNext(a) <= Heads(a)
      <4>1. at'[a] \in {"start", "loop", "poll", "act", "ended"}
        BY TypeStep DEF TypeOK
      <4>2. HeadsNext(a) \in Int
        BY <4>1, HeadPlaces
      <4> QED
        BY <2>2, <2>3, <2>4, <4>2
    <3> QED
      BY <3>1, <3>2
  <2>5. CASE \/ SubscribeFails(a) \/ LinkLost(a) \/ ActFails(a)
             \/ SetStop(a) \/ Terminate(a) \/ Restart(a)
    BY <2>5, FaultMoves
  <2>6. ASSUME NEW b \in Agents, a # b,
               \/ Step(b) \/ SubscribeFails(b) \/ LinkLost(b) \/ ActFails(b)
               \/ SetStop(b) \/ Terminate(b) \/ Restart(b)
        PROVE  RoundsNext(a) = Rounds(a) /\ HeadsNext(a) = Heads(a)
    <3>1. at'[a] = at[a] /\ inbox'[a] = inbox[a] /\ (a \in linked' <=> a \in linked)
      BY <2>6, OthersLeave
    <3>2. (a \in linked') = (a \in linked)
      BY <3>1
    <3> QED
      BY <3>1, <3>2 DEF Rounds, RoundsNext, Heads, HeadsNext
  <2>7. ASSUME NEW order, NEW s, Publish(order, s)
        PROVE  published' > published /\ HeadsNext(a) = Heads(a)
    <3>1. published' = published + 1 /\ at' = at /\ linked' = linked
      BY <2>7 DEF Publish
    <3> QED
      BY <2>0, <3>1 DEF Heads, HeadsNext
  <2>8. CASE \E b \in Agents : \/ Step(b) \/ SubscribeFails(b) \/ LinkLost(b) \/ ActFails(b)
                               \/ SetStop(b) \/ Terminate(b) \/ Restart(b)
    <3> PICK b \in Agents : \/ Step(b) \/ SubscribeFails(b) \/ LinkLost(b) \/ ActFails(b)
                            \/ SetStop(b) \/ Terminate(b) \/ Restart(b)
      BY <2>8
    <3>1. CASE a = b
      BY <2>4, <2>5, <3>1
    <3>2. CASE a # b
      BY <2>2, <2>6, <3>2
    <3> QED
      BY <3>1, <3>2
  <2>9. CASE Detect \/ Release
    BY <2>2, <2>7, <2>9 DEF Detect, Release
  <2> QED
    BY <2>8, <2>9 DEF Next
<1>2. IInv => TypeOK
  BY DEF IInv
<1> QED
  BY <1>1, <1>2, Invariant, InboxLinked, PTL DEF Spec, ListenersAdvance
=============================================================================
