----------------------------- MODULE ApiProcess -----------------------------
(***************************************************************************)
(* One API process from start to end: validateEnv, the retries of the      *)
(* database connection, the publisher's startup (Publisher), listen; then  *)
(* requests, one at a time: the API key guard, GET /health, and the        *)
(* publishJob of an upload, which waits for the broker's confirmation      *)
(* while the publisher loses and replaces its connection.                  *)
(***************************************************************************)
EXTENDS Publisher

CONSTANTS
    Environments,   \* what the process may be started with
    DbRetryMax,     \* retryAttempts: 30 in the code
    MaxDbFaults     \* how often the database does not answer

Settings == {"API_KEY", "PORT", "MAX_UPLOAD_MB", "DATABASE_URL",
             "RABBITMQ_URL", "AUDIO_DIR"}
Integral == {"PORT", "MAX_UPLOAD_MB"}
Defaulted == Integral \cup {"AUDIO_DIR"}

ASSUME ApiProcessAssumption ==
    /\ Environments \subseteq
          [Settings -> {"absent", "empty", "word", "zero", "positive"}]
    /\ DbRetryMax \in Nat \ {0}
    /\ MaxDbFaults \in Nat

VARIABLES
    environment,
    boot,           \* what bootstrap() is at
    dbAttempt,
    dbFaults,
    request,        \* what became of the request: where it waits, or the reply
    over            \* the connection whose channel a publish was written to

httpVars == <<environment, boot, dbAttempt, dbFaults, request, over>>
apiVars == <<pubVars, httpVars>>

Boot == {"validate", "database", "broker", "listening", "ended"}
Reply == {"none", "ok", "accepted", "unavailable", "unauthorized", "dropped"}

HttpTypeOK ==
    /\ environment \in Environments
    /\ boot \in Boot
    /\ dbAttempt \in 1..DbRetryMax
    /\ dbFaults \in 0..MaxDbFaults
    /\ request \in Reply \cup {"pinging", "publishing"}
    /\ over \in Connections \cup {None}

ApiTypeOK == PublisherTypeOK /\ HttpTypeOK

ApiInit ==
    /\ Init
    /\ environment \in Environments
    /\ boot = "validate"
    /\ dbAttempt = 1
    /\ dbFaults = 0
    /\ request = "none"
    /\ over = None

-----------------------------------------------------------------------------
(* bootstrap() *)

(* A text for a number is converted, "" to 0; integers are at least 1. *)
Valid(value, name) ==
    \/ value = "absent" /\ name \in Defaulted
    \/ value \in {"word", "zero", "positive"} /\ name \notin Integral
    \/ value = "positive"

ValidateEnv ==
    /\ boot = "validate"
    /\ IF \A s \in Settings : Valid(environment[s], s)
       THEN boot' = "database" /\ UNCHANGED pubVars
       ELSE boot' = "ended" /\ Terminate
    /\ UNCHANGED <<environment, dbAttempt, dbFaults, request, over>>

DbStrike ==
    /\ dbFaults < MaxDbFaults
    /\ dbFaults' = dbFaults + 1

(* Mutant of ConnectDatabase: one attempt too many. *)
ConnectDatabaseOnceMore ==
    /\ boot = "database"
    /\ \/ /\ boot' = "broker"
          /\ dbAttempt' = 1
          /\ UNCHANGED <<pubVars, dbFaults>>
       \/ /\ DbStrike
          /\ IF dbAttempt <= DbRetryMax
             THEN dbAttempt' = dbAttempt + 1 /\ UNCHANGED <<boot, pubVars>>
             ELSE boot' = "ended" /\ Terminate /\ UNCHANGED dbAttempt
    /\ UNCHANGED <<environment, request, over>>

(* TypeORM's module connects before the application is created. *)
ConnectDatabase ==
    /\ boot = "database"
    /\ \/ /\ boot' = "broker"
          /\ dbAttempt' = 1
          /\ UNCHANGED <<pubVars, dbFaults>>
       \/ /\ DbStrike
          /\ IF dbAttempt < DbRetryMax
             THEN dbAttempt' = dbAttempt + 1 /\ UNCHANGED <<boot, pubVars>>
             ELSE boot' = "ended" /\ Terminate /\ UNCHANGED dbAttempt
    /\ UNCHANGED <<environment, request, over>>

Listen ==
    /\ boot = "broker"
    /\ alive
    /\ task[Startup] = "off"
    /\ boot' = "listening"
    /\ UNCHANGED <<pubVars, environment, dbAttempt, dbFaults, request, over>>

(* Mutant of Rejected: the callback of the publish passes over its error. *)
RejectedNever == request

(* Nothing can be read or written on a channel that is known to be gone;   *)
(* a dead link still takes what is written.                                *)
Usable(state) == state \in {"up", "dead"}

(* The library reports a publish on a channel that is gone, at once; the   *)
(* process takes its requests with it.                                     *)
Rejected ==
    IF ~alive' THEN "dropped"
    ELSE IF request = "publishing" /\ ~Usable(link'[over]) THEN "unavailable"
    ELSE request

Meanwhile ==
    /\ boot \in {"broker", "listening"}
    /\ boot' = IF alive' THEN boot ELSE "ended"
    /\ request' = Rejected
    /\ over' = IF request' = "publishing" THEN over ELSE None
    /\ UNCHANGED <<environment, dbAttempt, dbFaults>>

PublisherStep == Next /\ Meanwhile

-----------------------------------------------------------------------------
(* Requests *)

Keys == {"absent", "empty", "wrong", "configured"}
PublicRoutes == {"health"}
Routes == PublicRoutes \cup {"transcriptions"}

(* The configured key is never empty: validateEnv saw to that. *)
CanActivate(route, key) ==
    \/ route \in PublicRoutes
    \/ key \notin {"absent", "empty"} /\ key = "configured"

IsConnected == channel # None

(* publish() throws on a channel that is being closed. *)
Send(route, key) ==
    /\ boot = "listening"
    /\ request \in Reply
    /\ \/ /\ ~CanActivate(route, key)
          /\ request' = "unauthorized" /\ over' = None
       \/ /\ CanActivate(route, key) /\ route = "health"
          /\ request' = "pinging" /\ over' = None
       \/ /\ CanActivate(route, key) /\ route = "transcriptions"
          /\ IF channel # None /\ Usable(link[channel])
             THEN request' = "publishing" /\ over' = channel
             ELSE request' = "unavailable" /\ over' = None
    /\ UNCHANGED <<pubVars, environment, boot, dbAttempt, dbFaults>>

(* SELECT 1 answered, or failed; the broker is asked after that. *)
Check ==
    /\ request = "pinging"
    /\ \/ /\ request' = IF IsConnected THEN "ok" ELSE "unavailable"
          /\ UNCHANGED dbFaults
       \/ /\ DbStrike
          /\ request' = "unavailable"
    /\ UNCHANGED <<pubVars, environment, boot, dbAttempt, over>>

(* The broker acknowledges the message on the channel it came by. *)
Confirm ==
    /\ request = "publishing"
    /\ link[over] = "up"
    /\ request' = "accepted"
    /\ over' = None
    /\ UNCHANGED <<pubVars, environment, boot, dbAttempt, dbFaults>>

Serve == Check \/ Confirm

ApiNext ==
    \/ ValidateEnv
    \/ ConnectDatabase
    \/ Listen
    \/ PublisherStep
    \/ \E route \in Routes, key \in Keys : Send(route, key)
    \/ Serve

ApiSpec == ApiInit /\ [][ApiNext]_apiVars

(* bootstrap() goes on, the publisher as in Publisher, and the database    *)
(* and the broker answer in the end.                                       *)
ApiFairness ==
    /\ WF_apiVars(ValidateEnv \/ ConnectDatabase \/ Listen)
    /\ WF_apiVars(Serve)
    /\ \A t \in Tasks : WF_apiVars(Loop(t) /\ Meanwhile)
    /\ \A c \in Connections : WF_apiVars(Ends(c) /\ Meanwhile)
    /\ WF_apiVars((StartupRetries \/ StartupGivesUp) /\ Meanwhile)

FairApiSpec == ApiSpec /\ ApiFairness

-----------------------------------------------------------------------------
(* Properties *)

(* No upload waits for ever for a confirmation that cannot come, whatever  *)
(* became of the channel it was published on.                              *)
PublishAnswered == request = "publishing" ~> request # "publishing"
=============================================================================
