----------------------------- MODULE Quarantine -----------------------------
(***************************************************************************)
(* The IPS: _ips_worker (agent/sniffer.py), one listener per agent, with   *)
(* the Redis channel novaguard:ips:commands that process_and_enrich_batch  *)
(* (backend/workers/intel_tasks.py) and operators publish to, and the      *)
(* iptables rules of the hosts.  Several agents may run on one host, one   *)
(* per interface.                                                          *)
(*                                                                         *)
(* The channel reaches whoever is subscribed, at most once.  A rule is     *)
(* looked for (iptables -C) and then added or removed by another process   *)
(* call, and any call may fail, as it does while another process holds the *)
(* lock of iptables.  A rule outlives the agent that added it.             *)
(*                                                                         *)
(* Abstracted: JSON and malformed messages, which the listener drops; what *)
(* was detected (Enrichment).                                              *)
(***************************************************************************)
EXTENDS Integers, Sequences, FiniteSets

CONSTANTS
    Agents, Hosts, Sources,
    HostOf,        \* [Agents -> Hosts]
    Exempt,        \* [Agents -> sources on its whitelist], its own address for one
    MaxCommands,   \* bound: commands that are published
    MaxFaults,     \* bound: lost links, failed calls, kills, restarts
    Nothing        \* no command

Orders == {"quarantine", "un-quarantine"}
Commands == [order : Orders, source : Sources]

ASSUME QuarantineAssumption ==
    /\ IsFiniteSet(Agents)
    /\ HostOf \in [Agents -> Hosts]
    /\ Exempt \in [Agents -> SUBSET Sources]
    /\ MaxCommands \in Nat /\ MaxFaults \in Nat
    /\ Nothing \notin Commands

VARIABLES
    at,         \* where each listener stands
    linked,     \* listeners whose subscription is alive
    inbox,      \* commands Redis has sent and the listener has not read
    cmd,        \* the command it carries out
    stop,       \* listeners whose stop_event is set
    rules,      \* DROP rules of each host: how many for each source
    last,       \* the last order published about each source
    misread,    \* [host, source] -> checks that failed although the rule was there
    spoilt,     \* <<host, source>> about which something was missed or failed
    published, faults

listeners == <<at, linked, inbox, cmd, stop>>
vars == <<listeners, rules, last, misread, spoilt, published, faults>>

Init ==
    /\ at = [a \in Agents |-> "start"]
    /\ linked = {}
    /\ inbox = [a \in Agents |-> <<>>]
    /\ cmd = [a \in Agents |-> Nothing]
    /\ stop = {}
    /\ rules = [h \in Hosts |-> [s \in Sources |-> 0]]
    /\ last = [s \in Sources |-> "none"]
    /\ misread = [h \in Hosts |-> [s \in Sources |-> 0]]
    /\ spoilt = {}
    /\ published = 0 /\ faults = 0

-----------------------------------------------------------------------------
Go(a, place) == at' = [at EXCEPT ![a] = place]
Fault == faults < MaxFaults /\ faults' = faults + 1

\* What a knows of and has not done.
Undone(a) == {inbox[a][i].source : i \in DOMAIN inbox[a]}
                 \cup (IF cmd[a] = Nothing THEN {} ELSE {cmd[a].source})

\* The host of a does not get what the commands about S say.
Spoil(a, S) == spoilt' = spoilt \cup {<<HostOf[a], s>> : s \in S}

Subscribe(a) ==
    /\ at[a] = "start"
    /\ Go(a, "loop")
    /\ linked' = linked \cup {a}
    /\ UNCHANGED <<inbox, cmd, stop, rules, last, misread, spoilt, published, faults>>

\* "Failed to connect to Redis/subscribe": the process returns.
SubscribeFails(a) ==
    /\ Fault /\ at[a] = "start"
    /\ Go(a, "ended")
    /\ UNCHANGED <<linked, inbox, cmd, stop, rules, last, misread, spoilt, published>>

\* Redis sends the command to those who listen now; the others never get it.
Publish(order, s) ==
    /\ published < MaxCommands
    /\ published' = published + 1
    /\ last' = [last EXCEPT ![s] = order]
    /\ inbox' = [a \in Agents |->
                    IF a \in linked THEN Append(inbox[a], [order |-> order, source |-> s])
                    ELSE inbox[a]]
    /\ spoilt' = spoilt \cup {<<HostOf[a], s>> : a \in Agents \ linked}
    /\ UNCHANGED <<at, linked, cmd, stop, rules, misread, faults>>

\* A confirmed threat (a retried task publishes again), or an operator's decision.
Detect == \E s \in Sources : Publish("quarantine", s)
Release == \E s \in Sources : Publish("un-quarantine", s)

\* The link to Redis breaks with what was on its way ...
LinkLost(a) ==
    /\ Fault /\ a \in linked
    /\ linked' = linked \ {a}
    /\ inbox' = [inbox EXCEPT ![a] = <<>>]
    /\ Spoil(a, {inbox[a][i].source : i \in DOMAIN inbox[a]})
    /\ UNCHANGED <<at, cmd, stop, rules, last, misread, published>>

\* ... and get_message connects and subscribes again.
Relink(a) ==
    /\ at[a] = "poll" /\ a \notin linked
    /\ linked' = linked \cup {a}
    /\ UNCHANGED <<at, inbox, cmd, stop, rules, last, misread, spoilt, published, faults>>

\* The process ends, with what it has not done.
Leave(a) ==
    /\ linked' = linked \ {a}
    /\ inbox' = [inbox EXCEPT ![a] = <<>>]
    /\ cmd' = [cmd EXCEPT ![a] = Nothing]
    /\ Go(a, "ended")
    /\ Spoil(a, Undone(a))
    /\ UNCHANGED <<stop, rules, last, misread, published>>

\* The head of the loop looks at stop_event.
Loop(a) ==
    /\ at[a] = "loop"
    /\ IF a \in stop THEN Leave(a) /\ UNCHANGED faults
       ELSE /\ Go(a, "poll")
            /\ UNCHANGED <<linked, inbox, cmd, stop, rules, last, misread, spoilt, published, faults>>

\* get_message times out.
PollsNothing(a) ==
    /\ at[a] = "poll" /\ inbox[a] = <<>>
    /\ Go(a, "loop")
    /\ UNCHANGED <<linked, inbox, cmd, stop, rules, last, misread, spoilt, published, faults>>

Present(a, s) == rules[HostOf[a]][s] > 0

\* Mutant: nobody is exempt.
ExemptsNobody(a, c) == FALSE

\* An address that must not be blocked; it may be released.
Refused(a, c) == c.order = "quarantine" /\ c.source \in Exempt[a]

\* Mutant: a rule is added whether it is there or not.
NoCheck(a, c, found) == TRUE

\* A quarantine adds the rule that is not found, a release removes the one that is.
Acts(a, c, found) == IF c.order = "quarantine" THEN ~found ELSE found

\* The command is taken and, unless it is refused, the rule looked for.  Whatever
\* makes iptables -C fail reads as "there is no such rule"; where it cannot be run at
\* all subprocess.run raises, and the command is dropped with a line in the log.
Take(a) ==
    /\ at[a] = "poll" /\ inbox[a] # <<>>
    /\ inbox' = [inbox EXCEPT ![a] = Tail(@)]
    /\ LET c == Head(inbox[a])
           h == HostOf[a]
       IN  \/ /\ Refused(a, c)
              /\ Go(a, "loop") /\ cmd' = cmd
              /\ UNCHANGED <<misread, spoilt, faults>>
           \/ /\ ~Refused(a, c)
              /\ IF Acts(a, c, Present(a, c.source))
                 THEN Go(a, "act") /\ cmd' = [cmd EXCEPT ![a] = c]
                 ELSE Go(a, "loop") /\ cmd' = cmd
              /\ UNCHANGED <<misread, spoilt, faults>>
           \/ /\ ~Refused(a, c) /\ Present(a, c.source) /\ Fault
              /\ misread' = [misread EXCEPT ![h][c.source] = @ + 1]
              /\ Spoil(a, {c.source})
              /\ IF Acts(a, c, FALSE)
                 THEN Go(a, "act") /\ cmd' = [cmd EXCEPT ![a] = c]
                 ELSE Go(a, "loop") /\ cmd' = cmd
           \/ /\ ~Refused(a, c) /\ Fault
              /\ Spoil(a, {c.source})
              /\ Go(a, "loop")
              /\ UNCHANGED <<cmd, misread>>
    /\ UNCHANGED <<linked, stop, rules, last, published>>

\* iptables -A appends one copy, -D removes one or fails.
Added(n) == n + 1
Deleted(n) == IF n = 0 THEN 0 ELSE n - 1

\* Mutant: the call waits for the lock for ever.
ActHangs(a) == FALSE /\ UNCHANGED vars

\* The rule is added or removed ...
Act(a) ==
    /\ at[a] = "act"
    /\ LET c == cmd[a]
       IN  rules' = [rules EXCEPT ![HostOf[a]][c.source] =
                        IF c.order = "quarantine" THEN Added(@) ELSE Deleted(@)]
    /\ cmd' = [cmd EXCEPT ![a] = Nothing]
    /\ Go(a, "loop")
    /\ UNCHANGED <<linked, inbox, stop, last, misread, spoilt, published, faults>>

\* ... or the call fails, which is logged.
ActFails(a) ==
    /\ Fault /\ at[a] = "act"
    /\ Spoil(a, {cmd[a].source})
    /\ cmd' = [cmd EXCEPT ![a] = Nothing]
    /\ Go(a, "loop")
    /\ UNCHANGED <<linked, inbox, stop, rules, last, misread, published>>

\* main sets stop_event ...
SetStop(a) ==
    /\ Fault /\ at[a] # "ended" /\ a \notin stop
    /\ stop' = stop \cup {a}
    /\ UNCHANGED <<at, linked, inbox, cmd, rules, last, misread, spoilt, published>>

\* ... and terminates a listener that has not ended after three seconds.
Terminate(a) ==
    /\ Fault /\ a \in stop /\ at[a] # "ended"
    /\ Leave(a)

\* A new agent on the same host; the rules are still there.
Restart(a) ==
    /\ Fault /\ at[a] = "ended"
    /\ Go(a, "start")
    /\ stop' = stop \ {a}
    /\ UNCHANGED <<linked, inbox, cmd, rules, last, misread, spoilt, published>>

-----------------------------------------------------------------------------
Step(a) == \/ Subscribe(a) \/ Loop(a) \/ Relink(a) \/ PollsNothing(a) \/ Take(a) \/ Act(a)

Next ==
    \/ Detect \/ Release
    \/ \E a \in Agents : \/ Step(a) \/ SubscribeFails(a) \/ LinkLost(a) \/ ActFails(a)
                         \/ SetStop(a) \/ Terminate(a) \/ Restart(a)

Spec == Init /\ [][Next]_vars

\* A listener that lives goes on; commands, faults and signals are not assumed.
Fairness == \A a \in Agents : WF_vars(Step(a))

FairSpec == Spec /\ Fairness

-----------------------------------------------------------------------------
AgentsOn(h) == {a \in Agents : HostOf[a] = h}

TypeOK ==
    /\ at \in [Agents -> {"start", "loop", "poll", "act", "ended"}]
    /\ linked \subseteq Agents /\ stop \subseteq Agents
    /\ inbox \in [Agents -> Seq(Commands)]
    /\ cmd \in [Agents -> Commands \cup {Nothing}]
    /\ \A a \in Agents : at[a] = "act" <=> cmd[a] # Nothing
    /\ rules \in [Hosts -> [Sources -> Nat]]
    /\ misread \in [Hosts -> [Sources -> Nat]]
    /\ last \in [Sources -> Orders \cup {"none"}]
    /\ spoilt \subseteq Hosts \X Sources
    /\ published \in 0..MaxCommands /\ faults \in 0..MaxFaults

\* Listeners on h that are about to add a rule for s.
Adding(h, s) ==
    {a \in AgentsOn(h) : cmd[a] # Nothing /\ cmd[a] = [order |-> "quarantine", source |-> s]}

\* However the checks and additions of the agents of a host interleave, a source has
\* at most one rule per agent of the host, plus one for each check that failed.
CopiesBounded ==
    \A h \in Hosts, s \in Sources :
        rules[h][s] + Cardinality(Adding(h, s)) <= Cardinality(AgentsOn(h)) + misread[h][s]

\* An address that every agent of the host exempts is never blocked there, whatever
\* is published: no lockout of the host by its own agents.
ExemptNeverBlocked ==
    \A h \in Hosts, s \in Sources :
        rules[h][s] > 0 => \E a \in AgentsOn(h) : s \notin Exempt[a]

\* The agents of a host have done all they know of.
Settled(h) == \A a \in AgentsOn(h) : inbox[a] = <<>> /\ cmd[a] = Nothing

\* Where no command was missed and no call failed, and the agents of the host agree
\* on whom to exempt, the firewall ends up as the last order says, in whatever order
\* the agents of the host see each other's rules.
FirewallFollowsOrders ==
    \A h \in Hosts, s \in Sources :
        /\ Settled(h) /\ <<h, s>> \notin spoilt /\ AgentsOn(h) # {}
        /\ \A a, b \in AgentsOn(h) : s \in Exempt[a] <=> s \in Exempt[b]
        => (rules[h][s] > 0
              <=> last[s] = "quarantine" /\ \A a \in AgentsOn(h) : s \notin Exempt[a])

\* Lost links and failed calls do not stop a listener: what has reached it is carried
\* out or given up, and once it is told to stop it ends, even while commands come.
ListenersGoOn ==
    \A a \in Agents : /\ inbox[a] # <<>> ~> inbox[a] = <<>>
                      /\ a \in stop ~> at[a] = "ended" \/ a \notin stop

-----------------------------------------------------------------------------
(* What of ListenersGoOn is safety: everything but the fairness rule.      *)

\* Steps from a place to the next round of the loop, and to its head, where the
\* listener looks at stop_event.
RoundFrom(place) ==
    CASE place \in {"start", "act"} -> 3 [] place = "loop" -> 2
      [] place = "poll" -> 1 [] place = "ended" -> 0

HeadFrom(place, connected) ==
    CASE place = "poll" -> IF connected THEN 3 ELSE 4
      [] place \in {"start", "act"} -> 2 [] place = "loop" -> 1 [] place = "ended" -> 0

\* What a has before it: a round for each command in its inbox.
ToDo(a) == 3 * Len(inbox[a]) + RoundFrom(at[a])
ToHead(a) == HeadFrom(at[a], a \in linked)

\* A listener that has commands gets through them, as only a further command gives it
\* more to do; and one that is told to stop gets to its end in four steps and one more
\* for each fault, whatever commands it has and whatever comes.
ListenersAdvance ==
    [][\A a \in Agents :
          /\ inbox[a] # <<>> =>
                /\ Step(a) => ToDo(a)' < ToDo(a)
                /\ ToDo(a)' <= ToDo(a) \/ published' > published
          /\ a \in stop =>
                /\ Step(a) => ToHead(a)' < ToHead(a)
                /\ ToHead(a)' <= ToHead(a) \/ faults' > faults]_vars

\* Only a listener that is connected, and lives, has commands before it.
InboxOfLinked ==
    \A a \in Agents : /\ inbox[a] # <<>> => a \in linked
                      /\ a \in linked => at[a] \notin {"start", "ended"}

-----------------------------------------------------------------------------
(* The inductive invariant behind the safety properties: nobody is about   *)
(* to block what it exempts; and where nothing was missed, the last order  *)
(* about a source is the last that each agent of the host has before it.   *)

\* A listener never carries out a quarantine of an address it exempts.
NoneRefused ==
    \A a \in Agents : cmd[a] # Nothing /\ cmd[a].order = "quarantine" => cmd[a].source \notin Exempt[a]

\* A queue has commands about s, and the last of them gives this order.
Has(queue, s) == \E i \in DOMAIN queue : queue[i].source = s
EndsWith(queue, s, order) ==
    \A i \in DOMAIN queue :
        queue[i].source = s /\ (\A j \in DOMAIN queue : j > i => queue[j].source # s)
            => queue[i].order = order

Carries(a, s) == cmd[a] # Nothing /\ cmd[a].source = s

Latest(a, s) ==
    /\ EndsWith(inbox[a], s, last[s])
    /\ Carries(a, s) /\ ~Has(inbox[a], s) => cmd[a].order = last[s]

\* Agents of h that have something to do about s.
Owing(h, s) == {a \in AgentsOn(h) : Carries(a, s) \/ Has(inbox[a], s)}

\* After a quarantine the rule is there, or an agent has that order before it; after
\* a release each rule, there or about to be added, has an agent that will remove it.
Followed(h, s) ==
    /\ last[s] = "quarantine" => rules[h][s] > 0 \/ Owing(h, s) # {}
    /\ last[s] # "quarantine" =>
          rules[h][s] + Cardinality(Adding(h, s)) <= Cardinality(Owing(h, s))

OrdersReach ==
    \A h \in Hosts, s \in Sources :
        <<h, s>> \notin spoilt =>
            /\ misread[h][s] = 0
            /\ \A a \in AgentsOn(h) : Latest(a, s)
            /\ AgentsOn(h) # {} /\ (\A a \in AgentsOn(h) : s \notin Exempt[a]) => Followed(h, s)

IInv == TypeOK /\ NoneRefused /\ CopiesBounded /\ ExemptNeverBlocked /\ OrdersReach
=============================================================================
