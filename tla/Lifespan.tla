------------------------------ MODULE Lifespan ------------------------------
(***************************************************************************)
(* main.py, container.py and observability/: the life of one process, in   *)
(* which one application after another is created, started, serves and is  *)
(* shut down (an in-process restart, or a test suite).                     *)
(*                                                                         *)
(* Two instrumentors are singletons of the process and outlive the         *)
(* application that set them up: the system metrics', which stop()         *)
(* releases, and that of Redis, which nothing does.                        *)
(*                                                                         *)
(* Any call that may raise does; a cancellation delivered at an await is   *)
(* an exception like another.                                              *)
(***************************************************************************)
EXTENDS Naturals

CONSTANT Apps   \* how many applications the process creates, a bound

ASSUME AppsAssumption == Apps \in Nat \ {0}

VARIABLES app,         \* the number of the current application, 0 for none
          phase,       \* where its lifespan is; a resource names its close
          configured,  \* the resources its settings ask for
          telemetry,   \* APP_OTEL__ENABLED
          open,        \* <<application, resource>>: the pools that are open
          unclosed,    \* those whose own close raised
          started,     \* container.started
          handle,      \* runtime_metrics is bound
          probe,       \* applications whose event loop probe is running
          flushed,     \* applications with a provider that is shut down
          system,      \* the application the system metrics belong to, or 0
          redisSpans,  \* the application the Redis spans belong to, or 0
          raised       \* where each application raised

held == <<open, unclosed>>
metrics == <<handle, probe, flushed, system, redisSpans>>
lifespanVars == <<app, phase, configured, telemetry, held, started, metrics, raised>>

Resources == {"engine", "http_client", "redis"}
Closing == Resources
Causes == {"build", "startup", "serving", "close", "stop", "flush"}
Mine == {app} \X configured

LifespanTypeOK ==
    /\ app \in 0..Apps
    /\ phase \in {"off", "created", "built", "serving", "stopping",
                  "flushing", "ended"} \cup Closing
    /\ configured \subseteq Resources
    /\ telemetry \in BOOLEAN
    /\ open \subseteq (1..Apps) \X Resources
    /\ unclosed \subseteq open
    /\ started \in BOOLEAN
    /\ handle \in BOOLEAN
    /\ probe \subseteq 1..Apps
    /\ flushed \subseteq 1..Apps
    /\ system \in 0..Apps
    /\ redisSpans \in 0..Apps
    /\ raised \in [1..Apps -> SUBSET Causes]
    /\ started => phase = "serving"

LifespanInit ==
    /\ app = 0
    /\ phase = "off"
    /\ configured = {}
    /\ telemetry = FALSE
    /\ open = {}
    /\ unclosed = {}
    /\ started = FALSE
    /\ handle = FALSE
    /\ probe = {}
    /\ flushed = {}
    /\ system = 0
    /\ redisSpans = 0
    /\ raised = [a \in 1..Apps |-> {}]

GoTo(next) == phase' = next /\ UNCHANGED <<app, configured, telemetry>>

Raise(cause) == raised' = [raised EXCEPT ![app] = @ \cup {cause}]

-----------------------------------------------------------------------------
\* create_app, with the settings of the moment.
CreateApp == /\ phase \in {"off", "ended"}
             /\ app < Apps
             /\ app' = app + 1
             /\ phase' = "created"
             /\ configured' \in SUBSET Resources
             /\ telemetry' \in BOOLEAN
             /\ handle' = FALSE
             /\ UNCHANGED <<held, started, probe, flushed, system, redisSpans, raised>>

\* build_container: all of it, or, before the try block is entered, none that
\* anyone holds (a client or an engine has no connection before its first use).
Build == /\ phase = "created"
         /\ \/ /\ GoTo("built")
               /\ open' = open \cup Mine
               /\ UNCHANGED raised
            \/ /\ GoTo("ended")
               /\ Raise("build")
               /\ UNCHANGED open
         /\ UNCHANGED <<unclosed, started, metrics>>

\* Each instrumentor of the process is bound by the first application that
\* finds it free.
BindRedis == redisSpans' = IF redisSpans = 0 THEN app ELSE redisSpans
BindSystem == system' = IF system = 0 THEN app ELSE system

\* From the try to the yield there is no await: all of it, or an exception at
\* one of its calls.
StartUp == /\ phase = "built"
           /\ IF telemetry
              THEN /\ BindRedis /\ BindSystem
                   /\ handle' = TRUE
                   /\ probe' = probe \cup {app}
              ELSE UNCHANGED <<redisSpans, system, handle, probe>>
           /\ started' = TRUE
           /\ GoTo("serving")
           /\ UNCHANGED <<held, flushed, raised>>

StartUpFails == /\ phase = "built"
                /\ telemetry
                /\ \/ UNCHANGED <<redisSpans, system>>
                   \/ BindRedis /\ UNCHANGED system
                   \/ BindRedis /\ BindSystem
                /\ Raise("startup")
                /\ GoTo("engine")
                /\ UNCHANGED <<held, started, handle, probe, flushed>>

-----------------------------------------------------------------------------
\* SIGTERM, or an exception thrown into the yield: the finally block.
ShutDown == /\ phase = "serving"
            /\ \/ UNCHANGED raised
               \/ Raise("serving")
            /\ started' = FALSE
            /\ GoTo("engine")
            /\ UNCHANGED <<held, metrics>>

\* A mutant: the providers go before the metrics are stopped.
AfterClosingFlushFirst == IF "close" \in raised'[app] THEN "ended"
                          ELSE IF telemetry THEN "flushing"
                          ELSE "ended"

\* An exception out of close_container skips the rest of the finally block.
AfterClosing == IF "close" \in raised'[app] THEN "ended"
                ELSE IF handle THEN "stopping"
                ELSE IF telemetry THEN "flushing"
                ELSE "ended"

\* A mutant: the closes are a sequence of ifs.
AfterClosingOneInSequence(r) ==
    CASE "close" \in raised'[app] -> "ended"
      [] r = "engine" -> "http_client"
      [] r = "http_client" -> "redis"
      [] OTHER -> AfterClosing

\* close_container: each close in the finally of the one before it.
AfterClosingOne(r) == CASE r = "engine" -> "http_client"
                        [] r = "http_client" -> "redis"
                        [] r = "redis" -> AfterClosing

Close(r) == /\ phase = r
            /\ \/ /\ open' = open \ {<<app, r>>}
                  /\ UNCHANGED <<unclosed, raised>>
               \/ /\ r \in configured
                  /\ unclosed' = unclosed \cup {<<app, r>>}
                  /\ Raise("close")
                  /\ UNCHANGED open
            /\ GoTo(AfterClosingOne(r))
            /\ UNCHANGED <<started, metrics>>

\* A mutant: the probe is stopped and the instrumentor kept.
StopKeepingInstrumentor == /\ phase = "stopping"
                           /\ probe' = probe \ {app}
                           /\ GoTo("flushing")
                           /\ UNCHANGED <<held, started, handle, flushed, system,
                                          redisSpans, raised>>

\* RuntimeMetrics.stop, whose wait for the probe may be cancelled.
Stop == /\ phase = "stopping"
        /\ probe' = probe \ {app}
        /\ \/ /\ system' = 0
              /\ GoTo("flushing")
              /\ UNCHANGED raised
           \/ /\ Raise("stop")
              /\ GoTo("ended")
              /\ UNCHANGED system
        /\ UNCHANGED <<held, started, handle, flushed, redisSpans>>

\* OtelRuntime.shutdown, whose first call to raise keeps the others from being made.
Flush == /\ phase = "flushing"
         /\ \/ flushed' = flushed \cup {app} /\ UNCHANGED raised
            \/ flushed' \in {flushed, flushed \cup {app}} /\ Raise("flush")
         /\ GoTo("ended")
         /\ UNCHANGED <<held, started, handle, probe, system, redisSpans>>

LifespanNext ==
    \/ CreateApp \/ Build \/ StartUp \/ StartUpFails
    \/ ShutDown \/ (\E r \in Closing : Close(r)) \/ Stop \/ Flush

LifespanSpec == LifespanInit /\ [][LifespanNext]_lifespanVars

-----------------------------------------------------------------------------
(***************************************************************************)
(* Correctness.                                                            *)
(***************************************************************************)

\* "Each resource's cleanup is independent of the others' success"
\* (close_container), wherever the start or the shutdown broke off: a pool left
\* open by an application that is over is one whose own close raised.
OnlyFailedClosesLeak ==
    \A a \in 1..Apps, r \in Resources :
        <<a, r>> \in open \ unclosed => a = app /\ phase # "ended"

\* /startupz says so only while every pool the settings ask for is open and
\* telemetry, if enabled, is being produced and can be exported; and, the other
\* way round, the metrics are stopped "before the providers shut down, so the
\* final collection still has instruments to read": no probe runs and no system
\* metrics are taken for providers that are shut down, but the system metrics of
\* an application whose start failed.  Of the spans of Redis RedisSpansExported
\* speaks.
InStepWithTelemetry ==
    /\ started => Mine \subseteq open /\ (telemetry => app \in probe \ flushed)
    /\ probe \cap flushed = {}
    /\ system \in flushed => "startup" \in raised[system]

\* RuntimeMetrics.instrumentor: "the SECOND application built in the same
\* process" still gets its process metrics, provided that the earlier ones
\* neither failed to start nor raised while closing or stopping.
EachAppIsMeasured ==
    phase = "serving" /\ telemetry
    /\ (\A a \in 1..(app - 1) : raised[a] \cap {"startup", "close", "stop"} = {})
        => system = app

\* "Spans for every Redis command" (instrument_redis): those of a serving
\* application with telemetry go to providers that export them.  What nothing
\* releases they keep going to, so that a second application's are lost.
RedisSpansExported ==
    phase = "serving" /\ telemetry /\ "redis" \in configured =>
        redisSpans # 0 /\ redisSpans \notin flushed

\* What lifespan's comment says of the providers' shutdown: it "flushes
\* whatever is still batched, and the lines and spans produced BY closing the
\* database pool are exactly the ones you want when a shutdown goes wrong".
\* The code never comes to it when closing raises.
FlushedWhenCloseRaises ==
    phase = "ended" /\ "close" \in raised[app] /\ telemetry => app \in flushed
=============================================================================
