--------------------------- MODULE PublisherProofs ---------------------------
(***************************************************************************)
(* Proofs about an API process and the connection its publisher keeps, for *)
(* every environment and every number of loops, connections, attempts and  *)
(* faults.                                                                 *)
(***************************************************************************)
EXTENDS ApiProcess, FiniteSetTheorems, TLAPS

(* A connect() call under way has a connection of its own, which nobody    *)
(* else knows: neither another call nor the two fields.                    *)
CallsApart ==
    /\ \A t \in Tasks : task[t] = "opening" => link[via[t]] \in {"up", "dead"} /\ via[t] # None
    /\ \A t \in Tasks : task[t] = "abandoning" => link[via[t]] = "closing" /\ via[t] # None
    /\ \A t \in Tasks : via[t] # None => task[t] \in {"opening", "abandoning"}
    /\ \A t, u \in Tasks : via[t] # None /\ via[t] = via[u] => t = u
    /\ \A t \in Tasks : via[t] # None => via[t] # channel /\ via[t] # connection

(* The field onModuleDestroy reads names a connection that is not yet gone. *)
ConnectionThere == connection # None => link[connection] # "none"

ConnInv == PublisherTypeOK /\ CallsApart /\ ConnectionThere /\ ConnectedIsTrue

-----------------------------------------------------------------------------
(* The process starts with one loop and no connection. *)
LEMMA InitConn == Init => ConnInv
<1> SUFFICES ASSUME Init PROVE ConnInv
    OBVIOUS
<1>1. PublisherTypeOK
    <2>1. alive \in BOOLEAN /\ shuttingDown \in BOOLEAN
        BY Zenon DEF Init
    <2>2. attempt \in 1..StartupRetryMax /\ brokerFaults \in 0..MaxBrokerFaults
        BY PublisherAssumption DEF Init
    <2>3. task \in [Tasks -> TaskState]
        BY DEF Init, TaskState
    <2> QED
        BY <2>1, <2>2, <2>3 DEF Init, PublisherTypeOK, LinkState
<1>2. CallsApart
    BY DEF Init, CallsApart
<1> QED
    BY <1>1, <1>2 DEF Init, ConnInv, ConnectionThere, ConnectedIsTrue

(* A close event takes its connection out of every variable. *)
LEMMA CloseKeeps ==
    ASSUME ConnInv, NEW c \in Connections, CloseEvent(c), link[c] # "none",
           brokerFaults' \in 0..MaxBrokerFaults
    PROVE  ConnInv'
<1> USE PublisherAssumption DEF ConnInv, PublisherTypeOK, TaskState, LinkState
<1> DEFINE settled == [t \in Tasks |-> IF via[t] = c THEN "sleeping" ELSE task[t]]
<1>1. /\ link' = [link EXCEPT ![c] = "none"]
      /\ via' = [t \in Tasks |-> IF via[t] = c THEN None ELSE via[t]]
      /\ connection' = None /\ channel' = None
      /\ UNCHANGED <<alive, shuttingDown, attempt>>
    BY DEF CloseEvent, SetLink, Forget
<1>2. /\ task' \in [Tasks -> TaskState]
      /\ \A t \in Tasks : \/ task'[t] = settled[t]
                          \/ task[t] = "off" /\ task'[t] = "dialing"
    BY DEF CloseEvent
<1>3. \A t \in Tasks : via'[t] # None => via'[t] = via[t] /\ via[t] # c /\ task'[t] = task[t]
    BY <1>1, <1>2 DEF CallsApart
<1>4. \A t \in Tasks : task'[t] \in {"opening", "abandoning"} => task'[t] = task[t] /\ via[t] # c
    BY <1>1, <1>2
<1>5. CallsApart'
    <2>1. \A t \in Tasks : via'[t] # None => task'[t] \in {"opening", "abandoning"}
        BY <1>3 DEF CallsApart
    <2>2. \A t \in Tasks : task'[t] = "opening" => link'[via'[t]] \in {"up", "dead"} /\ via'[t] # None
        BY <1>1, <1>4 DEF CallsApart
    <2>3. \A t \in Tasks : task'[t] = "abandoning" => link'[via'[t]] = "closing" /\ via'[t] # None
        BY <1>1, <1>4 DEF CallsApart
    <2>4. \A t, u \in Tasks : via'[t] # None /\ via'[t] = via'[u] => t = u
        BY <1>3 DEF CallsApart
    <2> QED
        BY <1>1, <2>1, <2>2, <2>3, <2>4 DEF CallsApart
<1>6. PublisherTypeOK'
    BY <1>1, <1>2
<1> QED
    BY <1>1, <1>5, <1>6 DEF ConnectionThere, ConnectedIsTrue

(* A process that ends leaves nothing behind. *)
LEMMA TerminateKeeps ==
    ASSUME ConnInv, Terminate
    PROVE  ConnInv'
<1>1. alive' \in BOOLEAN /\ shuttingDown' \in BOOLEAN
    BY Zenon DEF Terminate, ConnInv, PublisherTypeOK
<1>2. PublisherTypeOK'
    BY <1>1 DEF Terminate, ConnInv, PublisherTypeOK, TaskState, LinkState
<1>3. CallsApart'
    BY DEF Terminate, CallsApart
<1> QED
    BY <1>2, <1>3 DEF Terminate, ConnInv, ConnectionThere, ConnectedIsTrue

(* onModuleDestroy closes the connection it finds. *)
LEMMA DestroyKeeps ==
    ASSUME ConnInv, Destroy
    PROVE  ConnInv'
<1>1. shuttingDown' = TRUE /\ UNCHANGED <<alive, connection, channel, task, via,
                                         attempt, brokerFaults>>
    BY DEF Destroy
<1>2. /\ link' \in [Connections -> LinkState]
      /\ connection # None => link'[connection] = "closing"
      /\ \A c \in Connections : c # connection => link'[c] = link[c]
    BY DEF Destroy, SetLink, ConnInv, PublisherTypeOK, LinkState
<1>3. CallsApart'
    BY <1>1, <1>2 DEF ConnInv, CallsApart, PublisherTypeOK
<1>4. shuttingDown' \in BOOLEAN
    BY <1>1, Zenon
<1>5. PublisherTypeOK'
    BY <1>1, <1>2, <1>4 DEF ConnInv, PublisherTypeOK
<1>6. ConnectionThere' /\ ConnectedIsTrue'
    BY <1>1, <1>2 DEF ConnInv, ConnectionThere, ConnectedIsTrue
<1> QED
    BY <1>3, <1>5, <1>6 DEF ConnInv

(* One case per action. *)
LEMMA ConnStep == ConnInv /\ [Next]_pubVars => ConnInv'
<1> SUFFICES ASSUME ConnInv, [Next]_pubVars PROVE ConnInv'
    OBVIOUS
<1>d. CASE Destroy
    BY <1>d, DestroyKeeps
<1>t. CASE StartupGivesUp \/ Exit
    BY <1>t, TerminateKeeps DEF StartupGivesUp, Exit
<1>s. CASE UNCHANGED pubVars
    <2>1. PublisherTypeOK'
        BY <1>s, Zenon DEF pubVars, ConnInv, PublisherTypeOK
    <2>2. CallsApart' /\ ConnectionThere' /\ ConnectedIsTrue'
        BY <1>s DEF pubVars, ConnInv, CallsApart, ConnectionThere, ConnectedIsTrue
    <2> QED
        BY <2>1, <2>2 DEF ConnInv
<1> USE PublisherAssumption
    DEF ConnInv, PublisherTypeOK, TaskState, LinkState, CallsApart, ConnectionThere,
        ConnectedIsTrue, Enter, SetLink
<1>1. ASSUME NEW t \in Tasks, Dialed(t) PROVE ConnInv'
    BY <1>1 DEF Dialed
<1>2. ASSUME NEW t \in Tasks, Opened(t) PROVE ConnInv'
    BY <1>2 DEF Opened, KeepsTrying
<1>3. ASSUME NEW t \in Tasks, Resume(t) PROVE ConnInv'
    BY <1>3 DEF Resume
<1>4. ASSUME NEW t \in Tasks, DialFails(t) PROVE ConnInv'
    BY <1>4 DEF DialFails, Strike
<1>5. ASSUME NEW t \in Tasks, SetupFails(t) PROVE ConnInv'
    BY <1>5 DEF SetupFails, Strike
<1>6. ASSUME NEW c \in Connections, LoseLink(c) PROVE ConnInv'
    BY <1>6 DEF LoseLink, Strike
<1>7. ASSUME NEW c \in Connections, Ends(c) PROVE ConnInv'
    BY <1>7, CloseKeeps DEF Ends, ConnectionCloses, LossNoticed
<1>8. ASSUME NEW c \in Connections, ChannelDies(c) PROVE ConnInv'
    BY <1>8 DEF ChannelDies, Strike
<1>9. CASE StartupRetries
    BY <1>9 DEF StartupRetries
<1> HIDE DEF ConnInv
<1> QED
    BY <1>1, <1>2, <1>3, <1>4, <1>5, <1>6, <1>7, <1>8, <1>9, <1>d, <1>t, <1>s
    DEF Next, Loop

(* A process left without a channel keeps a loop, or gets one.             *)
LEMMA AbandonedStep == ConnInv /\ NeverAbandoned /\ [Next]_pubVars => NeverAbandoned'
<1> SUFFICES ASSUME ConnInv, NeverAbandoned, [Next]_pubVars PROVE NeverAbandoned'
    OBVIOUS
<1> USE PublisherAssumption
    DEF ConnInv, PublisherTypeOK, TaskState, LinkState, NeverAbandoned, Enter, SetLink
<1>1. ASSUME NEW t \in Tasks, Dialed(t) PROVE NeverAbandoned'
    BY <1>1 DEF Dialed
<1>2. ASSUME NEW t \in Tasks, Opened(t) PROVE NeverAbandoned'
    BY <1>2 DEF Opened, CallsApart
<1>3. ASSUME NEW t \in Tasks, Resume(t) PROVE NeverAbandoned'
    BY <1>3 DEF Resume, KeepsTrying
<1>4. ASSUME NEW t \in Tasks, DialFails(t) \/ SetupFails(t) PROVE NeverAbandoned'
    BY <1>4 DEF DialFails, SetupFails, CallsApart
<1>5. ASSUME NEW c \in Connections, CloseEvent(c) PROVE NeverAbandoned'
    BY <1>5 DEF CloseEvent
<1>6. ASSUME NEW c \in Connections, ChannelDies(c) PROVE NeverAbandoned'
    BY <1>6 DEF ChannelDies
<1>7. CASE StartupRetries \/ StartupGivesUp \/ Exit \/ Destroy
    BY <1>7 DEF StartupRetries, StartupGivesUp, Exit, Terminate, Destroy
<1>8. CASE UNCHANGED pubVars
    BY <1>8 DEF pubVars
<1>9. ASSUME NEW c \in Connections, LoseLink(c) PROVE NeverAbandoned'
    BY <1>9 DEF LoseLink
<1> QED
    BY <1>1, <1>2, <1>3, <1>4, <1>5, <1>6, <1>7, <1>8, <1>9
    DEF Next, Loop, Ends, LossNoticed, ConnectionCloses

-----------------------------------------------------------------------------
(* Reconnecting does not feed itself *)

(* Loops whose connect() call is about to fail: its connection is lost or  *)
(* being closed, and the close event will start another loop.              *)
Doomed == {t \in Tasks : via[t] # None /\ link[via[t]] \in {"dead", "closing"}}

(* What each fault has paid for. *)
Effort == Cardinality(Running) + Cardinality(Loose) + Cardinality(Doomed)

BoundInv == ConnInv /\ Effort <= 1 + brokerFaults

(* A set that gains one element at most, or loses one. *)
LEMMA Gains ==
    ASSUME NEW S, IsFiniteSet(S), NEW x, NEW T, T \subseteq S \cup {x}
    PROVE  Cardinality(T) <= Cardinality(S) + 1
<1>0. Cardinality(S) \in Nat
    BY FS_CardinalityType
<1>a. /\ IsFiniteSet(S \cup {x})
      /\ Cardinality(S \cup {x}) = IF x \in S THEN Cardinality(S) ELSE Cardinality(S) + 1
    BY FS_AddElement, Zenon
<1>1. IsFiniteSet(S \cup {x}) /\ Cardinality(S \cup {x}) <= Cardinality(S) + 1
    BY <1>0, <1>a
<1>2. IsFiniteSet(T) /\ Cardinality(T) <= Cardinality(S \cup {x})
    BY <1>1, FS_Subset
<1> QED
    BY <1>1, <1>2, FS_CardinalityType

LEMMA Loses ==
    ASSUME NEW S, IsFiniteSet(S), NEW x \in S, NEW T, T \subseteq S \ {x}
    PROVE  Cardinality(T) <= Cardinality(S) - 1
<1>1. IsFiniteSet(S \ {x}) /\ Cardinality(S \ {x}) = Cardinality(S) - 1
    BY FS_RemoveElement
<1>2. IsFiniteSet(T) /\ Cardinality(T) <= Cardinality(S \ {x})
    BY <1>1, FS_Subset
<1> QED
    BY <1>1, <1>2, FS_CardinalityType

(* Loops and connections are finite sets of names. *)
LEMMA EffortSets ==
    /\ IsFiniteSet(Running) /\ IsFiniteSet(Loose) /\ IsFiniteSet(Doomed)
    /\ Cardinality(Running) \in Nat /\ Cardinality(Loose) \in Nat
    /\ Cardinality(Doomed) \in Nat
<1>1. Running \subseteq Tasks /\ Loose \subseteq Connections /\ Doomed \subseteq Tasks
    BY DEF Running, Loose, Doomed
<1> QED
    BY <1>1, PublisherAssumption, FS_Subset, FS_CardinalityType

(* The same of the next state. *)
LEMMA EffortSetsNext ==
    /\ IsFiniteSet(Running') /\ IsFiniteSet(Loose') /\ IsFiniteSet(Doomed')
    /\ Cardinality(Running') \in Nat /\ Cardinality(Loose') \in Nat
    /\ Cardinality(Doomed') \in Nat
<1>1. Running' \subseteq Tasks /\ Loose' \subseteq Connections /\ Doomed' \subseteq Tasks
    BY DEF Running, Loose, Doomed
<1> QED
    BY <1>1, PublisherAssumption, FS_Subset, FS_CardinalityType

(* A step that adds nothing to any of the three costs nothing. *)
LEMMA NoEffort ==
    ASSUME Running' \subseteq Running, Loose' \subseteq Loose, Doomed' \subseteq Doomed
    PROVE  Effort' <= Effort
<1>1. /\ Cardinality(Running') <= Cardinality(Running)
      /\ Cardinality(Loose') <= Cardinality(Loose)
      /\ Cardinality(Doomed') <= Cardinality(Doomed)
    BY EffortSets, FS_Subset
<1> QED
    BY <1>1, EffortSets, EffortSetsNext DEF Effort

(* A fault condemns one connect() call at most. *)
LEMMA FaultEffort ==
    ASSUME NEW t, Running' \subseteq Running, Loose' \subseteq Loose,
           Doomed' \subseteq Doomed \cup {t}
    PROVE  Effort' <= Effort + 1
<1>1. /\ Cardinality(Running') <= Cardinality(Running)
      /\ Cardinality(Loose') <= Cardinality(Loose)
      /\ Cardinality(Doomed') <= Cardinality(Doomed) + 1
    BY EffortSets, FS_Subset, Gains
<1> QED
    BY <1>1, EffortSets, EffortSetsNext DEF Effort

(* A close event starts one loop, and ends a connection nobody works on,   *)
(* or a call that was condemned.                                           *)
LEMMA CloseEffort ==
    ASSUME ConnInv, NEW c \in Connections, CloseEvent(c), link[c] \in {"dead", "closing"}
    PROVE  Effort' <= Effort
<1> USE DEF ConnInv, PublisherTypeOK, CallsApart
<1>0. /\ link' = [link EXCEPT ![c] = "none"]
      /\ via' = [t \in Tasks |-> IF via[t] = c THEN None ELSE via[t]]
    BY DEF CloseEvent, SetLink
<1>1. PICK n : Running' \subseteq Running \cup {n}
    <2>1. CASE shuttingDown
        <3>1. task' = [t \in Tasks |-> IF via[t] = c THEN "sleeping" ELSE task[t]]
            BY <2>1 DEF CloseEvent
        <3>2. \A t \in Tasks : task'[t] # "off" => task[t] # "off"
            BY <3>1, PublisherAssumption
        <3>3. Running' \subseteq Running \cup {c}
            BY <3>2 DEF Running
        <3> QED
            BY <3>3
    <2>2. CASE ~shuttingDown
        <3>1. PICK n \in Tasks :
                 task' = [[t \in Tasks |-> IF via[t] = c THEN "sleeping" ELSE task[t]]
                             EXCEPT ![n] = "dialing"]
            BY <2>2 DEF CloseEvent
        <3>2. \A t \in Tasks : t # n /\ task'[t] # "off" => task[t] # "off"
            BY <3>1, PublisherAssumption
        <3> QED
            BY <3>2 DEF Running
    <2> QED
        BY <2>1, <2>2
<1>2. Cardinality(Running') <= Cardinality(Running) + 1
    BY <1>1, EffortSets, Gains
<1>3. CASE \E t \in Tasks : via[t] = c
    <2>1. PICK t \in Tasks : via[t] = c
        BY <1>3
    <2>2. Loose' \subseteq Loose
        BY <1>0 DEF Loose
    <2>3. t \in Doomed /\ Doomed' \subseteq Doomed \ {t}
        BY <1>0, <2>1, PublisherAssumption DEF Doomed
    <2>4. /\ Cardinality(Loose') <= Cardinality(Loose)
          /\ Cardinality(Doomed') <= Cardinality(Doomed) - 1
        BY <2>2, <2>3, EffortSets, FS_Subset, Loses
    <2> QED
        BY <1>2, <2>4, EffortSets, EffortSetsNext DEF Effort
<1>4. CASE \A t \in Tasks : via[t] # c
    <2>1. c \in Loose /\ Loose' \subseteq Loose \ {c}
        BY <1>0, <1>4 DEF Loose
    <2>2. Doomed' \subseteq Doomed
        BY <1>0 DEF Doomed
    <2>3. /\ Cardinality(Loose') <= Cardinality(Loose) - 1
          /\ Cardinality(Doomed') <= Cardinality(Doomed)
        BY <2>1, <2>2, EffortSets, FS_Subset, Loses
    <2> QED
        BY <1>2, <2>3, EffortSets, EffortSetsNext DEF Effort
<1> QED
    BY <1>3, <1>4

(* connect() hands its connection over and its loop ends. *)
LEMMA OpenedEffort ==
    ASSUME ConnInv, NEW t \in Tasks, Opened(t)
    PROVE  Effort' <= Effort
<1> USE DEF ConnInv, PublisherTypeOK, CallsApart
<1>1. /\ via' = [via EXCEPT ![t] = None] /\ UNCHANGED link
      /\ task' = [task EXCEPT ![t] = "off"]
    BY DEF Opened, Enter, KeepsTrying
<1>2. t \in Running /\ Running' \subseteq Running \ {t}
    BY <1>1 DEF Opened, Running
<1>3. Loose' \subseteq Loose \cup {via[t]}
    BY <1>1 DEF Loose
<1>4. Doomed' \subseteq Doomed
    BY <1>1 DEF Doomed
<1>5. /\ Cardinality(Running') <= Cardinality(Running) - 1
      /\ Cardinality(Loose') <= Cardinality(Loose) + 1
      /\ Cardinality(Doomed') <= Cardinality(Doomed)
    BY <1>2, <1>3, <1>4, EffortSets, FS_Subset, Gains, Loses
<1> QED
    BY <1>5, EffortSets, EffortSetsNext DEF Effort

(* A fault pays for one more loop to come. *)
LEMMA StrikeEffort ==
    ASSUME ConnInv,
           \/ \E t \in Tasks : DialFails(t) \/ SetupFails(t)
           \/ \E c \in Connections : LoseLink(c) \/ ChannelDies(c)
    PROVE  Effort' <= Effort + 1 /\ brokerFaults' = brokerFaults + 1
<1> USE DEF ConnInv, PublisherTypeOK, CallsApart, Enter, SetLink
<1>1. brokerFaults' = brokerFaults + 1
    BY DEF DialFails, SetupFails, LoseLink, ChannelDies, Strike
<1>2. ASSUME NEW t \in Tasks, DialFails(t) PROVE Effort' <= Effort + 1
    <2>1. Running' \subseteq Running
        BY <1>2 DEF DialFails, Running
    <2>2. Loose' = Loose /\ Doomed' = Doomed
        BY <1>2 DEF DialFails, Loose, Doomed
    <2> QED
        BY <2>1, <2>2, FaultEffort
<1>3. ASSUME NEW t \in Tasks, SetupFails(t) PROVE Effort' <= Effort + 1
    <2>1. Running' \subseteq Running
        BY <1>3 DEF SetupFails, Running
    <2>2. Loose' \subseteq Loose
        BY <1>3 DEF SetupFails, Loose
    <2>3. Doomed' \subseteq Doomed \cup {t}
        BY <1>3 DEF SetupFails, Doomed
    <2> QED
        BY <2>1, <2>2, <2>3, FaultEffort
<1>4. ASSUME NEW c \in Connections, LoseLink(c) PROVE Effort' <= Effort + 1
    <2>1. Running' = Running
        BY <1>4 DEF LoseLink, Running
    <2>2. Loose' \subseteq Loose
        BY <1>4 DEF LoseLink, Loose
    <2>3. PICK t : Doomed' \subseteq Doomed \cup {t}
        <3>1. CASE \E t \in Tasks : via[t] = c
            BY <1>4, <3>1 DEF LoseLink, Doomed
        <3>2. CASE \A t \in Tasks : via[t] # c
            BY <1>4, <3>2 DEF LoseLink, Doomed
        <3> QED
            BY <3>1, <3>2
    <2> QED
        BY <2>1, <2>2, <2>3, FaultEffort
<1>5. ASSUME NEW c \in Connections, ChannelDies(c) PROVE Effort' <= Effort + 1
    <2>1. Running' = Running
        BY <1>5 DEF ChannelDies, Running
    <2>2. Loose' \subseteq Loose
        BY <1>5 DEF ChannelDies, Loose
    <2>3. Doomed' \subseteq Doomed
        BY <1>5 DEF ChannelDies, Doomed
    <2> QED
        BY <2>1, <2>2, <2>3, FaultEffort
<1> QED
    BY <1>1, <1>2, <1>3, <1>4, <1>5

(* Every other step costs nothing. *)
LEMMA FreeEffort ==
    ASSUME ConnInv,
           \/ \E t \in Tasks : Dialed(t) \/ Resume(t)
           \/ StartupRetries \/ Destroy \/ Terminate \/ UNCHANGED pubVars
    PROVE  Effort' <= Effort
<1> USE PublisherAssumption
    DEF ConnInv, PublisherTypeOK, CallsApart, Enter, SetLink
<1>1. Running' \subseteq Running
    BY DEF Dialed, Resume, StartupRetries, Destroy, Terminate, pubVars, Running
<1>2. Loose' \subseteq Loose
    <2>1. ASSUME NEW t \in Tasks, Dialed(t) PROVE Loose' \subseteq Loose
        BY <2>1 DEF Dialed, Loose
    <2>2. CASE Destroy
        BY <2>2 DEF Destroy, Loose, ConnectionThere
    <2> QED
        BY <2>1, <2>2 DEF Resume, StartupRetries, Terminate, pubVars, Loose
<1>3. Doomed' \subseteq Doomed
    <2>1. ASSUME NEW t \in Tasks, Dialed(t) PROVE Doomed' \subseteq Doomed
        BY <2>1 DEF Dialed, Doomed
    <2>2. CASE Destroy
        BY <2>2 DEF Destroy, Doomed
    <2> QED
        BY <2>1, <2>2 DEF Resume, StartupRetries, Terminate, pubVars, Doomed
<1> QED
    BY <1>1, <1>2, <1>3, NoEffort

(* Hence nothing but a fault adds to the effort, and a fault adds one. *)
LEMMA BoundStep ==
    ASSUME BoundInv, [Next]_pubVars \/ Terminate
    PROVE  BoundInv'
<1>0. ConnInv'
    BY ConnStep, TerminateKeeps DEF BoundInv
<1>1. /\ Effort \in Int /\ Effort' \in Int
      /\ brokerFaults \in Int
    BY EffortSets, EffortSetsNext DEF Effort, BoundInv, ConnInv, PublisherTypeOK
<1>2. CASE \/ \E t \in Tasks : DialFails(t) \/ SetupFails(t)
           \/ \E c \in Connections : LoseLink(c) \/ ChannelDies(c)
    BY <1>0, <1>1, <1>2, StrikeEffort DEF BoundInv
<1>3. CASE \E t \in Tasks : Opened(t)
    <2>1. Effort' <= Effort
        BY <1>3, OpenedEffort DEF BoundInv
    <2> QED
        BY <1>0, <1>1, <1>3, <2>1 DEF BoundInv, Opened
<1>4. CASE \E c \in Connections : Ends(c)
    <2>1. Effort' <= Effort
        BY <1>4, CloseEffort DEF BoundInv, Ends, ConnectionCloses, LossNoticed
    <2> QED
        BY <1>0, <1>1, <1>4, <2>1 DEF BoundInv, Ends, ConnectionCloses, LossNoticed
<1>5. CASE \/ \E t \in Tasks : Dialed(t) \/ Resume(t)
           \/ StartupRetries \/ Destroy \/ Terminate \/ UNCHANGED pubVars
    <2>1. Effort' <= Effort
        BY <1>5, FreeEffort DEF BoundInv
    <2>2. UNCHANGED brokerFaults
        BY <1>5 DEF Dialed, Resume, StartupRetries, Destroy, Terminate, pubVars
    <2> QED
        BY <1>0, <1>1, <2>1, <2>2 DEF BoundInv
<1> QED
    BY <1>2, <1>3, <1>4, <1>5 DEF Next, Loop, StartupGivesUp, Exit

(* One loop at the start. *)
LEMMA BoundInit == Init => BoundInv
<1> SUFFICES ASSUME Init PROVE BoundInv
    OBVIOUS
<1>1. Running = {Startup} /\ Loose = {} /\ Doomed = {}
    BY PublisherAssumption DEF Init, Running, Loose, Doomed
<1>2. Effort = 1
    BY <1>1, FS_EmptySet, FS_Singleton DEF Effort
<1> QED
    BY <1>2, InitConn DEF BoundInv, Init

-----------------------------------------------------------------------------
(***************************************************************************)
(* isConnected is true only of a channel that is there: whichever calls of *)
(* connect() overlap, and whichever close events arrive late.              *)
(***************************************************************************)
THEOREM ConnectedTruly == Spec => []ConnectedIsTrue
<1>1. ConnInv => ConnectedIsTrue
    BY DEF ConnInv
<1> QED
    BY <1>1, InitConn, ConnStep, PTL DEF Spec

(***************************************************************************)
(* A process that lost its channel is never left without a loop to get it  *)
(* back, or a close event that starts one.                                 *)
(***************************************************************************)
THEOREM SomebodyReconnects == Spec => []NeverAbandoned
<1>1. Init => NeverAbandoned
    BY PublisherAssumption DEF Init, NeverAbandoned
<1> QED
    BY <1>1, InitConn, ConnStep, AbandonedStep, PTL DEF Spec

-----------------------------------------------------------------------------
(* The process around the publisher *)

(* It leaves the publisher to itself, or takes it along when it ends.      *)
LEMMA PublisherIn ==
    ASSUME [ApiNext]_apiVars
    PROVE  [Next]_pubVars \/ Terminate
<1>1. CASE ValidateEnv \/ ConnectDatabase
    BY <1>1 DEF ValidateEnv, ConnectDatabase
<1>2. CASE Listen \/ Serve \/ \E route \in Routes, key \in Keys : Send(route, key)
    BY <1>2 DEF Listen, Serve, Check, Confirm, Send
<1>3. CASE PublisherStep
    BY <1>3 DEF PublisherStep
<1>4. CASE UNCHANGED apiVars
    BY <1>4 DEF apiVars
<1> QED
    BY <1>1, <1>2, <1>3, <1>4 DEF ApiNext

(* Bootstrap, guard, probe and requests keep the publisher's invariant,    *)
LEMMA ApiConnStep == ConnInv /\ [ApiNext]_apiVars => ConnInv'
    BY PublisherIn, ConnStep, TerminateKeeps

(* and somebody who reconnects.                                            *)
LEMMA ApiAbandonedStep ==
    ConnInv /\ NeverAbandoned /\ [ApiNext]_apiVars => NeverAbandoned'
<1> SUFFICES ASSUME ConnInv, NeverAbandoned, [ApiNext]_apiVars PROVE NeverAbandoned'
    OBVIOUS
<1>1. CASE Terminate
    BY <1>1 DEF Terminate, NeverAbandoned
<1> QED
    BY <1>1, PublisherIn, AbandonedStep

(* A process that has not begun has no channel to be wrong about.          *)
LEMMA ApiStart == ApiInit => ConnInv /\ NeverAbandoned /\ HttpTypeOK
<1> SUFFICES ASSUME ApiInit PROVE ConnInv /\ NeverAbandoned /\ HttpTypeOK
    OBVIOUS
<1>1. ConnInv
    BY InitConn DEF ApiInit
<1>2. NeverAbandoned
    BY PublisherAssumption DEF ApiInit, Init, NeverAbandoned
<1>3. HttpTypeOK
    BY ApiProcessAssumption DEF ApiInit, HttpTypeOK, Boot, Reply
<1> QED
    BY <1>1, <1>2, <1>3

(* One case per action. *)
LEMMA HttpStep == ConnInv /\ HttpTypeOK /\ [ApiNext]_apiVars => HttpTypeOK'
<1> SUFFICES ASSUME ConnInv, HttpTypeOK, [ApiNext]_apiVars PROVE HttpTypeOK'
    OBVIOUS
<1> USE ApiProcessAssumption DEF HttpTypeOK, Boot, Reply
<1>1. CASE ValidateEnv
    BY <1>1 DEF ValidateEnv
<1>2. CASE ConnectDatabase
    BY <1>2 DEF ConnectDatabase, DbStrike
<1>3. CASE Listen
    BY <1>3 DEF Listen
<1>4. CASE PublisherStep
    <2>1. /\ boot' = IF alive' THEN boot ELSE "ended"
          /\ request' = Rejected
          /\ over' = IF request' = "publishing" THEN over ELSE None
          /\ UNCHANGED <<environment, dbAttempt, dbFaults>>
        BY <1>4 DEF PublisherStep, Meanwhile
    <2>2. request' \in {request, "dropped", "unavailable"}
        BY <2>1 DEF Rejected
    <2> QED
        BY <2>1, <2>2
<1>5. ASSUME NEW route \in Routes, NEW key \in Keys, Send(route, key) PROVE HttpTypeOK'
    BY <1>5 DEF Send, ConnInv, PublisherTypeOK
<1>6. CASE Check
    BY <1>6 DEF Check, DbStrike
<1>7. CASE Confirm
    BY <1>7 DEF Confirm
<1>8. CASE UNCHANGED apiVars
    BY <1>8 DEF apiVars, httpVars
<1> QED
    BY <1>1, <1>2, <1>3, <1>4, <1>5, <1>6, <1>7, <1>8 DEF ApiNext, Serve

(***************************************************************************)
(* Whatever the process is started with and whatever fails, its state is   *)
(* well-formed.                                                            *)
(***************************************************************************)
THEOREM ApiTypeCorrect == ApiSpec => []ApiTypeOK
<1>1. ConnInv /\ HttpTypeOK => ApiTypeOK
    BY DEF ConnInv, ApiTypeOK
<1> QED
    BY <1>1, ApiStart, ApiConnStep, HttpStep, PTL DEF ApiSpec

(***************************************************************************)
(* isConnected stays true of a channel that is there when the process      *)
(* around the publisher starts up, serves requests and ends, and so does   *)
(* the promise that somebody reconnects.                                   *)
(***************************************************************************)
THEOREM ApiConnectedTruly == ApiSpec => [](ConnectedIsTrue /\ NeverAbandoned)
<1>1. ConnInv => ConnectedIsTrue
    BY DEF ConnInv
<1> QED
    BY <1>1, ApiStart, ApiConnStep, ApiAbandonedStep, PTL DEF ApiSpec

(***************************************************************************)
(* Nor does the whole process ever have more loops and connections than    *)
(* its faults account for, however the events of several connections fall  *)
(* together: reconnection does not multiply by itself.                     *)
(***************************************************************************)
THEOREM ReconnectionBounded == ApiSpec => []ReconnectsBounded
<1>1. BoundInv => ReconnectsBounded
    BY EffortSets DEF BoundInv, Effort, ReconnectsBounded, ConnInv, PublisherTypeOK
<1>2. ApiInit => BoundInv
    BY BoundInit DEF ApiInit
<1>3. BoundInv /\ [ApiNext]_apiVars => BoundInv'
    BY PublisherIn, BoundStep
<1> QED
    BY <1>1, <1>2, <1>3, PTL DEF ApiSpec
=============================================================================
