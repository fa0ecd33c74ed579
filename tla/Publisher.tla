------------------------------ MODULE Publisher ------------------------------
(***************************************************************************)
(* How an API process keeps its connection to the broker                   *)
(* (api/src/queue/publisher.service.ts): connectWithRetry at startup, the  *)
(* close handler that starts reconnectForever, and the channel handler     *)
(* that recycles a connection whose channel died.                          *)
(*                                                                         *)
(* connect() is an async function called from several places, so several   *)
(* calls may be under way: a task is one running loop that calls it, the   *)
(* startup loop or a call of reconnectForever.  JavaScript runs each piece *)
(* between two awaits without interruption: that piece is one action.      *)
(***************************************************************************)
EXTENDS Integers, FiniteSets

CONSTANTS
    Tasks,          \* names for running loops
    Startup,        \* the loop of onModuleInit
    Connections,    \* names for connections that are not yet closed
    None,
    StartupRetryMax,
    BrokerFaults,   \* the kinds of fault that may strike
    MaxBrokerFaults \* how often altogether

BrokerFaultKinds == {"unreachable",  \* connect(url) rejects
                     "setup",        \* the channel or the topology is refused
                     "channelDies",  \* the broker closes the channel
                     "connectionDies"} \* nothing comes through any more

(* A loop is started by a close event, each of which a fault caused, and   *)
(* has one connection at most: enough names for all of them.               *)
ASSUME PublisherAssumption ==
    /\ Startup \in Tasks
    /\ IsFiniteSet(Tasks) /\ Cardinality(Tasks) > MaxBrokerFaults
    /\ IsFiniteSet(Connections) /\ Cardinality(Connections) > MaxBrokerFaults
    /\ None \notin Connections
    /\ StartupRetryMax \in Nat \ {0}
    /\ BrokerFaults \subseteq BrokerFaultKinds
    /\ MaxBrokerFaults \in Nat

VARIABLES
    alive,          \* the process runs
    shuttingDown,
    connection,     \* this.connection
    channel,        \* the connection of this.channel, or None
    link,           \* per connection: what it is like
    task,           \* per loop: the await it is at
    via,            \* per loop: the connection its connect() call opened
    attempt,        \* of connectWithRetry
    brokerFaults    \* number of faults so far

pubVars == <<alive, shuttingDown, connection, channel, link, task, via,
             attempt, brokerFaults>>

(* A deaf connection is up without a channel; a dead one is lost, and the  *)
(* process has not heard of it.                                            *)
LinkState == {"none", "up", "deaf", "dead", "closing"}

TaskState == {"off", "dialing", "opening", "abandoning", "sleeping"}

PublisherTypeOK ==
    /\ alive \in BOOLEAN
    /\ shuttingDown \in BOOLEAN
    /\ connection \in Connections \cup {None}
    /\ channel \in Connections \cup {None}
    /\ link \in [Connections -> LinkState]
    /\ task \in [Tasks -> TaskState]
    /\ via \in [Tasks -> Connections \cup {None}]
    /\ attempt \in 1..StartupRetryMax
    /\ brokerFaults \in 0..MaxBrokerFaults

Init ==
    /\ alive = TRUE
    /\ shuttingDown = FALSE
    /\ connection = None
    /\ channel = None
    /\ link = [c \in Connections |-> "none"]
    /\ task = [t \in Tasks |-> IF t = Startup THEN "dialing" ELSE "off"]
    /\ via = [t \in Tasks |-> None]
    /\ attempt = 1
    /\ brokerFaults = 0

-----------------------------------------------------------------------------
(* Helpers *)

Strike(kind) ==
    /\ kind \in BrokerFaults
    /\ brokerFaults < MaxBrokerFaults
    /\ brokerFaults' = brokerFaults + 1

Enter(t, state) == task' = [task EXCEPT ![t] = state]

SetLink(c, state) == link' = [link EXCEPT ![c] = state]

(* Mutant of KeepsTrying: a channel does not end the loop. *)
KeepsTryingAnyway == ~shuttingDown

(* The guard of the while loop of reconnectForever. *)
KeepsTrying == ~shuttingDown /\ channel = None

-----------------------------------------------------------------------------
(* connect() *)

Dialed(t) ==
    /\ task[t] = "dialing"
    /\ \E c \in Connections :
          /\ link[c] = "none"
          /\ SetLink(c, "up")
          /\ via' = [via EXCEPT ![t] = c]
    /\ Enter(t, "opening")
    /\ UNCHANGED <<alive, shuttingDown, connection, channel, attempt, brokerFaults>>

DialFails(t) ==
    /\ task[t] = "dialing"
    /\ Strike("unreachable")
    /\ Enter(t, "sleeping")
    /\ UNCHANGED <<alive, shuttingDown, connection, channel, link, via, attempt>>

(* The channel is open and the topology declared: publish both fields,     *)
(* whatever they held.  connectWithRetry returns; the other loop goes back *)
(* to its guard.                                                           *)
Opened(t) ==
    /\ task[t] = "opening"
    /\ link[via[t]] = "up"
    /\ connection' = via[t]
    /\ channel' = via[t]
    /\ via' = [via EXCEPT ![t] = None]
    /\ UNCHANGED <<alive, shuttingDown, link, attempt, brokerFaults>>
    /\ Enter(t, IF t # Startup /\ KeepsTrying' THEN "dialing" ELSE "off")

(* The catch block closes the connection and waits for that. *)
SetupFails(t) ==
    /\ task[t] = "opening"
    /\ link[via[t]] = "up"
    /\ Strike("setup")
    /\ SetLink(via[t], "closing")
    /\ Enter(t, "abandoning")
    /\ UNCHANGED <<alive, shuttingDown, connection, channel, via, attempt>>

-----------------------------------------------------------------------------
(* Events *)

(* Mutant of Forget: only one of the two fields is reset. *)
ForgetKeepsChannel == connection' = None /\ UNCHANGED channel

(* The close handler resets both, whichever connection it was attached to. *)
Forget == connection' = None /\ channel' = None

(* 'close' of connection c.  Awaits of connect() calls on c reject, and    *)
(* their loops go to sleep.  Unless shutting down, a new loop starts; its  *)
(* guard holds, so it dials at once.                                       *)
CloseEvent(c) ==
    LET settled == [t \in Tasks |-> IF via[t] = c THEN "sleeping" ELSE task[t]]
    IN  /\ SetLink(c, "none")
        /\ Forget
        /\ via' = [t \in Tasks |-> IF via[t] = c THEN None ELSE via[t]]
        /\ IF shuttingDown
           THEN task' = settled
           ELSE \E t \in Tasks \ {Startup} :
                   /\ task[t] = "off"
                   /\ task' = [settled EXCEPT ![t] = "dialing"]
        /\ UNCHANGED <<alive, shuttingDown, attempt>>

(* The link is lost.  Nobody tells the process: a channel on it stays in   *)
(* its field, and what is awaited on it goes on waiting.                   *)
LoseLink(c) ==
    /\ link[c] \in {"up", "deaf"}
    /\ Strike("connectionDies")
    /\ SetLink(c, "dead")
    /\ UNCHANGED <<alive, shuttingDown, connection, channel, task, via, attempt>>

(* A failing write, a closed socket or a missing heartbeat gives it away. *)
LossNoticed(c) ==
    /\ link[c] = "dead"
    /\ CloseEvent(c)
    /\ UNCHANGED brokerFaults

(* A close() asked for by this side completes. *)
ConnectionCloses(c) ==
    /\ link[c] = "closing"
    /\ CloseEvent(c)
    /\ UNCHANGED brokerFaults

(* Mutant of ChannelDies: the connection is not recycled. *)
ChannelDiesUnnoticed(c) ==
    /\ link[c] = "up"
    /\ \A t \in Tasks : via[t] # c
    /\ Strike("channelDies")
    /\ SetLink(c, "deaf")
    /\ channel' = IF channel = c THEN None ELSE channel
    /\ UNCHANGED <<alive, shuttingDown, connection, task, via, attempt>>

(* Only the current channel's death recycles its connection; on another    *)
(* connection it leaves a link that is up, without a channel.              *)
ChannelDies(c) ==
    /\ link[c] = "up"
    /\ \A t \in Tasks : via[t] # c
    /\ Strike("channelDies")
    /\ IF ~shuttingDown /\ channel = c
       THEN channel' = None /\ SetLink(c, "closing")
       ELSE SetLink(c, "deaf") /\ UNCHANGED channel
    /\ UNCHANGED <<alive, shuttingDown, connection, task, via, attempt>>

-----------------------------------------------------------------------------
(* The loops, and the process *)

(* Mutant of Resume: one failed attempt is enough. *)
ResumeOnce(t) ==
    /\ task[t] = "sleeping"
    /\ t # Startup
    /\ Enter(t, "off")
    /\ UNCHANGED <<alive, shuttingDown, connection, channel, link, via,
                   attempt, brokerFaults>>

(* reconnectForever after its pause. *)
Resume(t) ==
    /\ task[t] = "sleeping"
    /\ t # Startup
    /\ Enter(t, IF KeepsTrying THEN "dialing" ELSE "off")
    /\ UNCHANGED <<alive, shuttingDown, connection, channel, link, via,
                   attempt, brokerFaults>>

(* connectWithRetry after its pause. *)
StartupRetries ==
    /\ task[Startup] = "sleeping"
    /\ attempt < StartupRetryMax
    /\ attempt' = attempt + 1
    /\ Enter(Startup, "dialing")
    /\ UNCHANGED <<alive, shuttingDown, connection, channel, link, via, brokerFaults>>

(* Every task and connection goes with the process. *)
Terminate ==
    /\ alive' = FALSE
    /\ connection' = None
    /\ channel' = None
    /\ link' = [c \in Connections |-> "none"]
    /\ task' = [t \in Tasks |-> "off"]
    /\ via' = [t \in Tasks |-> None]
    /\ UNCHANGED <<shuttingDown, attempt, brokerFaults>>

(* onModuleInit throws, and the application is not created. *)
StartupGivesUp ==
    /\ task[Startup] = "sleeping"
    /\ attempt = StartupRetryMax
    /\ Terminate

(* onModuleDestroy.  enableShutdownHooks comes before listen, which runs   *)
(* onModuleInit: a signal may also find the startup loop at work.          *)
Destroy ==
    /\ alive
    /\ ~shuttingDown
    /\ shuttingDown' = TRUE
    /\ IF connection # None THEN SetLink(connection, "closing") ELSE UNCHANGED link
    /\ UNCHANGED <<alive, connection, channel, task, via, attempt, brokerFaults>>

(* The other modules' hooks may take as long; then the signal is re-raised. *)
Exit ==
    /\ alive
    /\ shuttingDown
    /\ Terminate

-----------------------------------------------------------------------------
Loop(t) == Dialed(t) \/ Opened(t) \/ Resume(t)

Ends(c) == ConnectionCloses(c) \/ LossNoticed(c)

Next ==
    \/ \E t \in Tasks : Loop(t) \/ DialFails(t) \/ SetupFails(t)
    \/ \E c \in Connections : Ends(c) \/ LoseLink(c) \/ ChannelDies(c)
    \/ StartupRetries
    \/ StartupGivesUp
    \/ Destroy
    \/ Exit

Spec == Init /\ [][Next]_pubVars

(* Timers fire, replies arrive, a close() completes, and a lost link is    *)
(* noticed: amqplib and RabbitMQ exchange heartbeats.                      *)
Fairness ==
    /\ \A t \in Tasks : WF_pubVars(Loop(t))
    /\ \A c \in Connections : WF_pubVars(Ends(c))
    /\ WF_pubVars(StartupRetries \/ StartupGivesUp)

FairSpec == Spec /\ Fairness

-----------------------------------------------------------------------------
(* Properties *)

(* What isConnected tells the health endpoint, and publishJob relies on,   *)
(* is true as far as the process can know: the channel is that of a        *)
(* connection that is up, or whose loss has not been noticed yet, and is   *)
(* the one onModuleDestroy would close, although several connect() calls   *)
(* and close handlers assign the two fields.                               *)
ConnectedIsTrue ==
    channel # None => /\ channel = connection
                      /\ \/ link[channel] \in {"up", "dead"}
                         \/ shuttingDown /\ link[channel] \in {"closing", "deaf"}

Running == {t \in Tasks : task[t] # "off"}

(* Connections that no connect() call is at work on: the one in the field, *)
(* those on their way out, and those a second loop left behind when it     *)
(* overwrote the fields.                                                   *)
Loose == {c \in Connections : link[c] # "none" /\ \A t \in Tasks : via[t] # c}

(* Reconnecting does not feed itself: although every close event starts a  *)
(* loop, a failed set-up two of them, and loops overwrite each other's     *)
(* connections, each loop and connection but the first is paid by a fault. *)
ReconnectsBounded == Cardinality(Running) + Cardinality(Loose) <= 1 + brokerFaults

(* A process without a channel is never left to itself: a loop is running, *)
(* or a close event is on its way that starts one.                         *)
NeverAbandoned ==
    alive /\ ~shuttingDown /\ channel = None =>
        \/ \E t \in Tasks : task[t] # "off"
        \/ \E c \in Connections : link[c] = "closing"

(* Once the broker stays well, every process that is to stay up gets a     *)
(* channel that works, and keeps it.                                       *)
EventuallyConnected ==
    <>[](\/ channel # None /\ link[channel] = "up"
         \/ shuttingDown
         \/ ~alive)
=============================================================================
