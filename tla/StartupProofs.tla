---------------------------- MODULE StartupProofs ----------------------------
(***************************************************************************)
(* Proofs about the start and the end of a worker process and about the    *)
(* topology, for any number of connection attempts and lost connections.   *)
(***************************************************************************)
EXTENDS Startup, TLAPS

(* What a side declares on a broker that knows nothing else. *)
Topology == {WorkerDeclares[i] : i \in 1..8}

(* The declarations before the n-th have been made. *)
Made(n) == \A i \in 1..8 : i < n => WorkerDeclares[i] \in declared

(* A side at its n-th declaration has made those before it, on a broker    *)
(* that holds nothing but declarations of the two.                         *)
TopologyInv ==
    /\ declared \subseteq Topology
    /\ NothingRefused
    /\ next \in 1..9 /\ Made(next)
    /\ apiNext \in 1..9 /\ Made(apiNext)
    /\ phase \in {"pool", "broker", "declare"} => next < 9
    /\ phase \in {"consume", "serving", "drain"} => next = 9

(* What run() holds at each of its awaits: the pool before the connection. *)
Held ==
    /\ phase = "pool" => pool = "none" /\ link = "none"
    /\ phase = "broker" => pool = "open" /\ link = "none"
    /\ phase \in {"declare", "consume"} => pool = "open" /\ link = "open"
    /\ phase \in {"serving", "drain", "close"} => pool = "open" /\ Connected
    /\ phase = "release" => pool = "open" /\ ~Connected
    /\ phase \in {"joining", "exited"} => pool # "open" /\ ~Connected
    /\ phase = "killed" => pool = "none" /\ link = "none"

StartupInv == StartupTypeOK /\ TopologyInv /\ Held

-----------------------------------------------------------------------------
(* The two topologies *)

(* topology.ts and queue_topology.py say the same, one by one. *)
LEMMA SameTopology == ApiDeclares = WorkerDeclares
    BY DEF ApiDeclares, WorkerDeclares, WorkerJobsQueue, WorkerDeadBinding

(* Each side makes eight declarations.                                     *)
LEMMA EightDeclarations ==
    /\ Len(WorkerDeclares) = 8
    /\ DOMAIN WorkerDeclares = 1..8
    /\ Len(ApiDeclares) = 8
<1>1. Len(WorkerDeclares) = 8 /\ DOMAIN WorkerDeclares = 1..8
    BY DEF WorkerDeclares
<1>2. Len(ApiDeclares) = 8
    BY DEF ApiDeclares
<1> QED
    BY <1>1, <1>2

(* The declarations by kind. *)
LEMMA Declarations ==
    /\ WorkerDeclares[1] = Exchange("scribeflow")
    /\ WorkerDeclares[2] = Exchange("scribeflow.dlx")
    /\ WorkerDeclares[3] = Queue("transcription.jobs", "scribeflow.dlx", "dead")
    /\ WorkerDeclares[4] = Binding("transcription.jobs", "scribeflow", "job")
    /\ WorkerDeclares[5] = Queue("transcription.retry", "scribeflow", "job")
    /\ WorkerDeclares[6] = Binding("transcription.retry", "scribeflow", "retry")
    /\ WorkerDeclares[7] = Queue("transcription.dead", "none", "none")
    /\ WorkerDeclares[8] = Binding("transcription.dead", "scribeflow.dlx", "dead")
    BY DEF WorkerDeclares, WorkerJobsQueue, WorkerDeadBinding, PlainQueue

(* The topology, entry by entry.                                           *)
LEMMA Topologies ==
    Topology = {WorkerDeclares[1], WorkerDeclares[2], WorkerDeclares[3], WorkerDeclares[4],
                WorkerDeclares[5], WorkerDeclares[6], WorkerDeclares[7], WorkerDeclares[8]}
    BY DEF Topology

(* No two of them are queues of one name. *)
LEMMA QueuesDiffer ==
    ASSUME NEW d \in Topology, NEW e \in Topology,
           d.kind = "queue", e.kind = "queue", d.name = e.name
    PROVE  d = e
    BY Topologies, Declarations DEF Exchange, Queue, Binding

(* A binding comes after the exchange and the queue it binds. *)
LEMMA BindingsLast ==
    ASSUME NEW n \in 1..8, WorkerDeclares[n].kind = "binding"
    PROVE  \E i, k \in 1..8 :
              /\ i < n /\ k < n
              /\ WorkerDeclares[i] = Exchange(WorkerDeclares[n].exchange)
              /\ WorkerDeclares[k].kind = "queue"
              /\ WorkerDeclares[k].name = WorkerDeclares[n].queue
<1>1. n \in {4, 6, 8}
    BY Declarations DEF Exchange, Queue
<1>2. CASE n = 4
    <2>1. WorkerDeclares[1] = Exchange(WorkerDeclares[n].exchange)
        BY <1>2, Declarations DEF Binding
    <2>2. WorkerDeclares[3].kind = "queue" /\ WorkerDeclares[3].name = WorkerDeclares[n].queue
        BY <1>2, Declarations DEF Binding, Queue
    <2> QED
        BY <1>2, <2>1, <2>2
<1>3. CASE n = 6
    <2>1. WorkerDeclares[1] = Exchange(WorkerDeclares[n].exchange)
        BY <1>3, Declarations DEF Binding
    <2>2. WorkerDeclares[5].kind = "queue" /\ WorkerDeclares[5].name = WorkerDeclares[n].queue
        BY <1>3, Declarations DEF Binding, Queue
    <2> QED
        BY <1>3, <2>1, <2>2
<1>4. CASE n = 8
    <2>1. WorkerDeclares[2] = Exchange(WorkerDeclares[n].exchange)
        BY <1>4, Declarations DEF Binding
    <2>2. WorkerDeclares[7].kind = "queue" /\ WorkerDeclares[7].name = WorkerDeclares[n].queue
        BY <1>4, Declarations DEF Binding, Queue
    <2> QED
        BY <1>4, <2>1, <2>2
<1> QED
    BY <1>1, <1>2, <1>3, <1>4

(* Whoever declares the n-th after the ones before it is not refused. *)
LEMMA NeverRefused ==
    ASSUME declared \subseteq Topology, NEW n \in 1..8, Made(n)
    PROVE  ~Refuses(WorkerDeclares[n])
<1> DEFINE d == WorkerDeclares[n]
<1>1. d \in Topology
    BY DEF Topology
<1>2. ASSUME d.kind = "queue", NEW e \in declared, e.kind = "queue", e.name = d.name
      PROVE  e = d
    BY <1>1, <1>2, QueuesDiffer
<1>3. ASSUME d.kind = "binding"
      PROVE  /\ Exchange(d.exchange) \in declared
             /\ \E e \in declared : e.kind = "queue" /\ e.name = d.queue
    BY <1>3, BindingsLast DEF Made
<1> QED
    BY <1>2, <1>3 DEF Refuses

(* Where the whole topology routes messages. *)
LEMMA WholeTopologyRoutes ==
    ASSUME declared = Topology
    PROVE  /\ Route("scribeflow", "job") = {"transcription.jobs"}
           /\ Route("scribeflow", "retry") = {"transcription.retry"}
           /\ Route("scribeflow.dlx", "dead") = {"transcription.dead"}
           /\ Route("none", "none") = {}
<1> DEFINE Bound(x, k) == {d \in declared : d.kind = "binding" /\ d.exchange = x /\ d.key = k}
<1>1. Bound("scribeflow", "job") = {WorkerDeclares[4]}
    BY Topologies, Declarations DEF Exchange, Queue, Binding
<1>2. Bound("scribeflow", "retry") = {WorkerDeclares[6]}
    BY Topologies, Declarations DEF Exchange, Queue, Binding
<1>3. Bound("scribeflow.dlx", "dead") = {WorkerDeclares[8]}
    BY Topologies, Declarations DEF Exchange, Queue, Binding
<1>4. Bound("none", "none") = {}
    BY Topologies, Declarations DEF Exchange, Queue, Binding
<1>5. \A x, k : Route(x, k) = {b.queue : b \in Bound(x, k)}
    BY DEF Route
<1> HIDE DEF Bound
<1> QED
    BY <1>1, <1>2, <1>3, <1>4, <1>5, Declarations DEF Binding

(* Where the whole topology sends what is rejected or expires.             *)
LEMMA WholeTopologyDeadLetters ==
    ASSUME declared = Topology
    PROVE  /\ DeadLetters("transcription.retry") = {"transcription.jobs"}
           /\ DeadLetters("transcription.jobs") = {"transcription.dead"}
           /\ DeadLetters("transcription.dead") = {}
<1> DEFINE Named(q) == {d \in declared : d.kind = "queue" /\ d.name = q}
<1>1. Named("transcription.jobs") = {WorkerDeclares[3]}
    BY Topologies, Declarations DEF Exchange, Queue, Binding
<1>2. Named("transcription.retry") = {WorkerDeclares[5]}
    BY Topologies, Declarations DEF Exchange, Queue, Binding
<1>3. Named("transcription.dead") = {WorkerDeclares[7]}
    BY Topologies, Declarations DEF Exchange, Queue, Binding
<1>4. \A q : DeadLetters(q) = UNION {Route(d.dlx, d.key) : d \in Named(q)}
    BY DEF DeadLetters
<1> HIDE DEF Named
<1>5. \A d : UNION {Route(e.dlx, e.key) : e \in {d}} = Route(d.dlx, d.key)
    OBVIOUS
<1>6. /\ WorkerDeclares[3].dlx = "scribeflow.dlx" /\ WorkerDeclares[3].key = "dead"
      /\ WorkerDeclares[5].dlx = "scribeflow" /\ WorkerDeclares[5].key = "job"
      /\ WorkerDeclares[7].dlx = "none" /\ WorkerDeclares[7].key = "none"
    BY Declarations DEF Queue
<1> QED
    BY <1>1, <1>2, <1>3, <1>4, <1>5, <1>6, WholeTopologyRoutes

-----------------------------------------------------------------------------
(* Type, topology, and the order of the release *)

(* Nothing is declared and nothing is held before run().                   *)
LEMMA StartupInit == Init => StartupInv
<1> SUFFICES ASSUME Init PROVE StartupInv
    OBVIOUS
<1>1. StartupTypeOK
    <2>1. 1 \in 1..StartupRetryMax /\ 0 \in 0..MaxLosses
        BY StartupAssumption
    <2>2. 1 \in 1..(Len(WorkerDeclares) + 1) /\ 1 \in 1..(Len(ApiDeclares) + 1)
        BY EightDeclarations, SameTopology
    <2> QED
        BY <2>1, <2>2 DEF Init, StartupTypeOK, Phase, Starting
<1>2. TopologyInv
    BY DEF Init, TopologyInv, NothingRefused, Made
<1>3. Held
    BY DEF Init, Held
<1> QED
    BY <1>1, <1>2, <1>3 DEF StartupInv

(* One more declaration, by either side. *)
LEMMA OneMore ==
    ASSUME TopologyInv, NEW n \in 1..8, Made(n), Declare(WorkerDeclares[n])
    PROVE  /\ declared' \subseteq Topology
           /\ NothingRefused'
           /\ \A k \in 1..9 : Made(k) => Made(k)'
           /\ Made(n + 1)'
<1>1. ~refused /\ ~Refuses(WorkerDeclares[n])
    BY NeverRefused DEF TopologyInv, NothingRefused
<1>2. declared' = declared \cup {WorkerDeclares[n]} /\ ~refused'
    BY <1>1 DEF Declare
<1>3. WorkerDeclares[n] \in Topology
    BY DEF Topology
<1> QED
    BY <1>2, <1>3 DEF TopologyInv, NothingRefused, Made

(* Every other action leaves the topology alone. *)
LEMMA NoDeclaration ==
    ASSUME Next, ~DeclareTopology, ~ApiDeclare
    PROVE  UNCHANGED <<topology, next>>
    BY DEF Next, Run, ConnectPool, ConnectBroker, StartConsumer, CancelConsumer, Drain,
       CloseConnection, ClosePool, LeaveMain, CancelRaises, LoseConnection, RestoreConnection,
       Handler, TakeJob, Execute, EndStatement, EndPipeline, Signal, Interrupt, Kill

(* Every step of either side keeps the topology's invariant.               *)
LEMMA TopologyStep ==
    StartupTypeOK /\ TopologyInv /\ [Next]_startupVars => TopologyInv'
<1> SUFFICES ASSUME StartupTypeOK, TopologyInv, [Next]_startupVars PROVE TopologyInv'
    OBVIOUS
<1>0. TopologyInv /\ StartupTypeOK
    OBVIOUS
<1>1. CASE DeclareTopology
    <2>1. next \in 1..8 /\ Made(next) /\ Declare(WorkerDeclares[next])
        BY <1>0, <1>1 DEF DeclareTopology, TopologyInv
    <2>2. next' = next + 1 /\ phase' = IF next = 8 THEN "consume" ELSE "declare"
        BY <1>0, <1>1, <2>1, NeverRefused, EightDeclarations DEF DeclareTopology, TopologyInv
    <2>3. apiNext' = apiNext
        BY <1>1 DEF DeclareTopology
    <2> QED
        BY <1>0, <2>1, <2>2, <2>3, OneMore DEF TopologyInv
<1>2. CASE ApiDeclare
    <2>1. apiNext \in 1..8 /\ Made(apiNext) /\ UNCHANGED <<next, phase>>
        BY <1>0, <1>2, SameTopology, EightDeclarations DEF ApiDeclare, ApiReady, TopologyInv
    <2>2. CASE Declare(ApiDeclares[apiNext]) /\ apiNext' \in {1, apiNext + 1}
        <3>1. Declare(WorkerDeclares[apiNext])
            BY <2>2, SameTopology
        <3>2. \A k \in 1..9 : k \in {1, apiNext + 1, next} => Made(k)'
            <4>1. Made(1)
                BY DEF Made
            <4> QED
                BY <1>0, <2>1, <3>1, <4>1, OneMore DEF TopologyInv
        <3> QED
            BY <1>0, <2>1, <2>2, <3>1, <3>2, OneMore DEF TopologyInv
    <2>3. CASE apiNext' = 1 /\ UNCHANGED <<declared, refused>>
        BY <1>0, <2>1, <2>3 DEF TopologyInv, NothingRefused, Made
    <2> QED
        BY <1>2, <2>2, <2>3 DEF ApiDeclare
<1>3. CASE /\ UNCHANGED <<topology, next>>
           /\ phase' \in {"pool", "broker", "declare"} => next < 9
           /\ phase' \in {"consume", "serving", "drain"} => next = 9
    BY <1>0, <1>3 DEF TopologyInv, NothingRefused, Made, topology
<1>4. CASE Next /\ ~DeclareTopology /\ ~ApiDeclare
    <2>1. UNCHANGED <<topology, next>>
        BY <1>4, NoDeclaration
    <2>2. /\ phase' \in {"pool", "broker", "declare"} =>
                phase \in {"pool", "broker", "declare"}
          /\ phase' \in {"consume", "serving", "drain"} =>
                phase \in {"consume", "serving", "drain"}
        BY <1>4 DEF Next, Run, ConnectPool, ConnectBroker, StartConsumer, CancelConsumer,
           Drain, CloseConnection, ClosePool, LeaveMain, CancelRaises, LoseConnection,
           RestoreConnection, Handler, TakeJob, Execute, EndStatement, EndPipeline, Signal,
           Interrupt, Kill, Retry, Starting
    <2> QED
        BY <1>0, <1>3, <2>1, <2>2 DEF TopologyInv
<1>5. CASE UNCHANGED startupVars
    BY <1>0, <1>3, <1>5 DEF startupVars, TopologyInv, topology
<1> QED
    BY <1>1, <1>2, <1>4, <1>5

(* Every step takes or releases in order.                                  *)
LEMMA HeldStep ==
    ASSUME StartupTypeOK, Held, [Next]_startupVars
    PROVE  Held'
<1> USE DEF Connected
<1>1. CASE ConnectPool
    BY <1>1 DEF ConnectPool, Retry, Held
<1>2. CASE ConnectBroker
    BY <1>2 DEF ConnectBroker, Retry, Held
<1>3. CASE DeclareTopology
    BY <1>3 DEF DeclareTopology, Held
<1>4. CASE StartConsumer \/ CancelConsumer \/ CancelRaises \/ Drain
    BY <1>4 DEF StartConsumer, CancelConsumer, CancelRaises, Drain, Held
<1>10. CASE LoseConnection \/ RestoreConnection
    BY <1>10 DEF LoseConnection, RestoreConnection, Starting, Held
<1>5. CASE CloseConnection
    BY <1>5 DEF CloseConnection, Held
<1>6. CASE ClosePool \/ LeaveMain
    BY <1>6 DEF ClosePool, LeaveMain, Held
<1>7. CASE Interrupt
    BY <1>7 DEF Interrupt, Starting, Held
<1>8. CASE Kill
    BY <1>8 DEF Kill, Held
<1>9. CASE UNCHANGED <<phase, pool, link>>
    BY <1>9 DEF Held
<1> QED
    BY <1>1, <1>2, <1>3, <1>4, <1>5, <1>6, <1>7, <1>8, <1>9, <1>10
    DEF Next, Run, Handler, TakeJob, Execute, EndStatement, EndPipeline, Signal, ApiDeclare,
        startupVars

(* Holding in order is releasing in order.                                 *)
LEMMA HeldIsOrdered ==
    ASSUME StartupTypeOK, Held
    PROVE  ReleasedInOrder
    BY DEF StartupTypeOK, Phase, Starting, Ended, Held, ReleasedInOrder

(* Every step stays inside the types.                                      *)
LEMMA TypeStep == StartupTypeOK /\ TopologyInv /\ [Next]_startupVars => StartupTypeOK'
<1> SUFFICES ASSUME StartupTypeOK, TopologyInv, [Next]_startupVars PROVE StartupTypeOK'
    OBVIOUS
<1>0. TopologyInv'
    BY TopologyStep
<1>1. refused' \in BOOLEAN
    <2>1. ASSUME NEW d, Declare(d) PROVE refused' \in BOOLEAN
        BY <2>1, Zenon DEF Declare
    <2>2. CASE UNCHANGED refused
        BY <2>2, Zenon DEF StartupTypeOK
    <2>3. CASE DeclareTopology
        BY <2>1, <2>3, Zenon DEF DeclareTopology
    <2>4. CASE ApiDeclare
        BY <2>1, <2>2, <2>4, Zenon DEF ApiDeclare
    <2>5. CASE Next /\ ~DeclareTopology /\ ~ApiDeclare
        BY <2>2, <2>5, NoDeclaration DEF topology
    <2> QED
        BY <2>2, <2>3, <2>4, <2>5 DEF startupVars
<1>2. /\ declared' \subseteq {WorkerDeclares[i] : i \in DOMAIN WorkerDeclares}
                      \cup {ApiDeclares[i] : i \in DOMAIN ApiDeclares}
      /\ next' \in 1..(Len(WorkerDeclares) + 1)
      /\ apiNext' \in 1..(Len(ApiDeclares) + 1)
    <2>1. declared' \subseteq {WorkerDeclares[i] : i \in DOMAIN WorkerDeclares}
        BY <1>0, EightDeclarations DEF TopologyInv, Topology
    <2>2. Len(WorkerDeclares) + 1 = 9 /\ Len(ApiDeclares) + 1 = 9
        BY EightDeclarations
    <2>3. next' \in 1..9 /\ apiNext' \in 1..9
        BY <1>0 DEF TopologyInv
    <2> QED
        BY <2>1, <2>2, <2>3, Zenon
<1>3. tries' \in 1..StartupRetryMax
    <2>1. ASSUME NEW p, Retry(p) PROVE tries' \in 1..StartupRetryMax
        BY <2>1, StartupAssumption DEF StartupTypeOK, Retry
    <2>2. CASE UNCHANGED tries
        BY <2>2 DEF StartupTypeOK
    <2>3. CASE ConnectPool \/ ConnectBroker
        BY <2>1, <2>2, <2>3, StartupAssumption DEF ConnectPool, ConnectBroker
    <2>4. ConnectPool \/ ConnectBroker \/ UNCHANGED tries
        BY DEF Next, Run, DeclareTopology, StartConsumer, CancelConsumer, Drain,
            CloseConnection, ClosePool, LeaveMain, CancelRaises, LoseConnection,
            RestoreConnection, Handler, TakeJob, Execute, EndStatement, EndPipeline, Signal,
            Interrupt, Kill, ApiDeclare, startupVars
    <2> QED
        BY <2>2, <2>3, <2>4
<1>4. losses' \in 0..MaxLosses
    <2>1. CASE losses < MaxLosses /\ losses' = losses + 1
        BY <2>1, StartupAssumption DEF StartupTypeOK
    <2>2. CASE UNCHANGED losses
        BY <2>2 DEF StartupTypeOK
    <2> QED
        BY <2>1, <2>2
        DEF Next, Run, ConnectPool, ConnectBroker, DeclareTopology, StartConsumer,
            CancelConsumer, Drain, CloseConnection, ClosePool, LeaveMain, CancelRaises,
            LoseConnection, RestoreConnection, Handler, TakeJob, Execute, EndStatement,
            EndPipeline, Signal, Interrupt, Kill, ApiDeclare, startupVars
<1>5. phase' \in Phase
    <2>1. ASSUME NEW p \in Phase, Retry(p) PROVE phase' \in Phase
        BY <2>1 DEF StartupTypeOK, Retry
    <2>2. CASE UNCHANGED phase
        BY <2>2 DEF StartupTypeOK
    <2>3. CASE ConnectPool \/ ConnectBroker
        <3>1. {"joining", "release", "broker", "declare"} \subseteq Phase
            BY DEF Phase, Starting, Ended
        <3> QED
            BY <2>1, <2>3, <3>1 DEF ConnectPool, ConnectBroker
    <2>4. CASE DeclareTopology
        BY <2>4 DEF StartupTypeOK, DeclareTopology, Phase, Starting
    <2>5. CASE phase' \in {"serving", "drain", "close", "release", "joining", "exited", "killed"}
        BY <2>5 DEF Phase, Ended
    <2> QED
        BY <2>2, <2>3, <2>4, <2>5
        DEF Next, Run, StartConsumer, CancelConsumer, Drain, CloseConnection, ClosePool,
            LeaveMain, CancelRaises, LoseConnection, RestoreConnection, Handler, TakeJob,
            Execute, EndStatement, EndPipeline, Signal, Interrupt, Kill, ApiDeclare,
            startupVars, Starting
<1>6. /\ pool' \in {"none", "open", "closed"}
      /\ link' \in {"none", "open", "lost", "closed"}
      /\ job' \in {"none", "statement", "pipeline"} /\ stop' \in BOOLEAN
    <2>1. /\ pool' \in {pool, "none", "open", "closed"}
          /\ link' \in {link, "none", "open", "lost", "closed"}
        BY DEF Next, Run, ConnectPool, ConnectBroker, DeclareTopology, StartConsumer,
            CancelConsumer, Drain, CloseConnection, ClosePool, LeaveMain, CancelRaises,
            LoseConnection, RestoreConnection, Handler, TakeJob, Execute, EndStatement,
            EndPipeline, Signal, Interrupt, Kill, ApiDeclare, startupVars
    <2>2. job' \in {job, "none", "statement", "pipeline"} /\ stop' \in {stop, TRUE}
        BY DEF Next, Run, ConnectPool, ConnectBroker, DeclareTopology, StartConsumer,
            CancelConsumer, Drain, CloseConnection, ClosePool, LeaveMain, CancelRaises,
            LoseConnection, RestoreConnection, Handler, TakeJob, Execute, EndStatement,
            EndPipeline, Signal, Interrupt, Kill, ApiDeclare, startupVars
    <2> QED
        BY <2>1, <2>2 DEF StartupTypeOK
<1> QED
    BY <1>1, <1>2, <1>3, <1>4, <1>5, <1>6 DEF StartupTypeOK

-----------------------------------------------------------------------------
(* The theorems *)

(* The topology grows in one order, what run() holds is what its place     *)
(* says, and the variables are typed: every reachable state of start-up.   *)
THEOREM StartupInvariant == Spec => []StartupInv
<1>1. StartupInv /\ [Next]_startupVars => StartupInv'
    BY TopologyStep, HeldStep, TypeStep DEF StartupInv
<1> QED
    BY StartupInit, <1>1, PTL DEF Spec

(* Whatever attempts fail, connections are lost and signals come, the      *)
(* model stays inside its types: run() and main() of worker/main.py.       *)
THEOREM StartupTypeCorrect == Spec => []StartupTypeOK
<1>1. StartupInv => StartupTypeOK
    BY DEF StartupInv
<1> QED
    BY StartupInvariant, <1>1, PTL

(* topology.ts and queue_topology.py never have a declaration refused,     *)
(* however the two sides' declarations interleave and wherever lost        *)
(* connections break them off and begin them again.                        *)
THEOREM NobodyRefused == Spec => []NothingRefused
<1>1. StartupInv => NothingRefused
    BY DEF StartupInv, TopologyInv
<1> QED
    BY StartupInvariant, <1>1, PTL

(* A side that goes to work has the whole topology behind it, and in it    *)
(* every message goes where the job protocol needs it.                     *)
THEOREM RoutedInTime == Spec => []Routed
<1>1. StartupInv => Routed
    <2> SUFFICES ASSUME StartupInv, ApiReady \/ phase \in {"serving", "drain"}
                 PROVE  declared = Topology
        BY WholeTopologyRoutes, WholeTopologyDeadLetters, Zenon DEF Routed
    <2>1. next = 9 \/ apiNext = 9
        BY EightDeclarations DEF StartupInv, TopologyInv, ApiReady
    <2>2. Made(9)
        BY <2>1 DEF StartupInv, TopologyInv
    <2>3. Topology \subseteq declared
        <3>1. \A i \in 1..8 : WorkerDeclares[i] \in declared
            BY <2>2 DEF Made
        <3> QED
            BY <3>1 DEF Topology
    <2>4. declared \subseteq Topology
        BY DEF StartupInv, TopologyInv
    <2> QED
        BY <2>3, <2>4
<1> QED
    BY StartupInvariant, <1>1, PTL

(* However run() ends, by itself, by a signal or by a lost connection, it  *)
(* leaves nothing open, and it never has the broker without the table.     *)
THEOREM OrderlyRelease == Spec => []ReleasedInOrder
<1>1. StartupInv => ReleasedInOrder
    BY HeldIsOrdered DEF StartupInv
<1> QED
    BY StartupInvariant, <1>1, PTL

=============================================================================
