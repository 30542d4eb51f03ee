--------------------------- MODULE LifespanProofs ---------------------------
(***************************************************************************)
(* Proofs about Lifespan, for any number of applications in one process.   *)
(*                                                                         *)
(* The properties speak of applications that serve or are over.  The       *)
(* invariant says of the current one what each phase still has to clean    *)
(* up: which pools (Pools), and which of the two singletons and providers  *)
(* (Order, Singleton); and of the earlier ones what they left behind.      *)
(***************************************************************************)
EXTENDS Lifespan, TLAPS

\* What close_container has still to close.
Pending == {r \in Resources : \/ phase \in {"built", "serving", "engine"}
                              \/ phase = "http_client" /\ r # "engine"
                              \/ phase = "redis" /\ r = "redis"}

Pools == /\ \A a \in 1..Apps, r \in Resources :
                /\ <<a, r>> \in open => a <= app
                /\ <<a, r>> \in open \ unclosed => a = app /\ r \in Pending
         /\ \A r \in Pending : /\ <<app, r>> \notin unclosed
                               /\ r \in configured => <<app, r>> \in open
         /\ phase = "created" => \A r \in Resources : <<app, r>> \notin open

\* An application that did not end cleanly.
Unclean(a) == "startup" \in raised[a] \/ "close" \in raised[a] \/ "stop" \in raised[a]

\* Which of the steps of the start have been done, and of the end.
Order == /\ phase = "off" <=> app = 0
         /\ probe \subseteq 1..app
         /\ flushed \subseteq 1..app
         /\ app \in flushed => phase = "ended"
         /\ probe \cap flushed = {}
         /\ phase \in {"created", "built"} => app \notin probe /\ ~handle
         /\ phase = "serving" => (handle <=> telemetry) /\ (telemetry => app \in probe)
         /\ phase = "stopping" => handle
         /\ handle => telemetry
         /\ app \in probe => handle
         /\ phase = "flushing" => app \notin probe

\* Who has the instrumentor of the system metrics: the current application from
\* its start to its stop, or one that did not end cleanly.
Singleton ==
    /\ system <= app
    /\ phase \in {"created", "built"} => system # app
    /\ phase = "serving" => IF telemetry THEN system # 0 ELSE system # app
    /\ phase \in Closing /\ ~handle /\ system = app => \/ "startup" \in raised[app]
                                                \/ "close" \in raised[app]
    /\ phase = "flushing" /\ system = app => "startup" \in raised[app]
    /\ phase = "ended" /\ system = app => Unclean(app)
    /\ \A a \in 1..(app - 1) : system = a => Unclean(a)
    /\ \A a \in flushed : system = a => "startup" \in raised[a]

-----------------------------------------------------------------------------
\* LifespanTypeOK in two parts, which the provers take one at a time.
Flags == telemetry \in BOOLEAN /\ started \in BOOLEAN /\ handle \in BOOLEAN

Fields == /\ app \in 0..Apps
          /\ phase \in {"off", "created", "built", "serving", "stopping",
                        "flushing", "ended"} \cup Closing
          /\ configured \subseteq Resources
          /\ open \subseteq (1..Apps) \X Resources
          /\ unclosed \subseteq open
          /\ probe \subseteq 1..Apps
          /\ flushed \subseteq 1..Apps
          /\ system \in 0..Apps
          /\ redisSpans \in 0..Apps
          /\ raised \in [1..Apps -> SUBSET Causes]
          /\ started => phase = "serving"

IInv == Flags /\ Fields /\ Pools /\ Order /\ Singleton

LEMMA InitIInv == LifespanInit => IInv
<1> SUFFICES ASSUME LifespanInit PROVE IInv
  OBVIOUS
<1> USE AppsAssumption DEF LifespanInit, Resources, Closing, Causes
<1>1. Flags
  BY DEF Flags
<1>2. Fields
  BY DEF Fields
<1>3. Pools
  BY DEF Pools, Pending
<1>4. Order
  BY DEF Order
<1>5. Singleton
  BY DEF Singleton
<1> QED
  BY <1>1, <1>2, <1>3, <1>4, <1>5 DEF IInv

LEMMA NextFlags == ASSUME IInv, [LifespanNext]_lifespanVars PROVE Flags'
BY DEF IInv, Flags, LifespanNext, lifespanVars, CreateApp, Build, StartUp, StartUpFails, ShutDown,
       Close, Stop, Flush, GoTo, held, metrics

LEMMA InAnApp == ASSUME Fields, Order, phase # "off" PROVE app \in 1..Apps
BY AppsAssumption DEF Fields, Order

\* The close of a resource: one that is open, or that is not the application's.
LEMMA ClosesPending ==
    ASSUME IInv, NEW r \in Closing, Close(r)
    PROVE  /\ r \in Pending /\ app \in 1..Apps
           /\ <<app, r>> \notin unclosed
           /\ r \in configured => <<app, r>> \in open
           /\ phase' \in {"http_client", "redis", "ended", "stopping", "flushing"}
           /\ Pending' = Pending \ {r}
<1>1. r \in Pending
  BY DEF Close, Pending, Closing, Resources
<1>2. app \in 1..Apps
  BY InAnApp DEF Close, Closing, Resources, IInv
<1>3. CASE r = "engine"
  BY <1>1, <1>2, <1>3
  DEF Close, AfterClosingOne, GoTo, Pending, Pools, IInv, Resources
<1>4. CASE r = "http_client"
  BY <1>1, <1>2, <1>4
  DEF Close, AfterClosingOne, GoTo, Pending, Pools, IInv, Resources
<1>5. CASE r = "redis"
  <2>1. phase' \in {"ended", "stopping", "flushing"}
    BY <1>5 DEF Close, AfterClosingOne, AfterClosing, GoTo
  <2> QED
    BY <1>1, <1>2, <1>5, <2>1 DEF Close, Pending, Pools, IInv, Resources
<1> QED
  BY <1>3, <1>4, <1>5 DEF Closing, Resources

LEMMA NextFields == ASSUME IInv, [LifespanNext]_lifespanVars PROVE Fields'
<1> USE AppsAssumption
    DEF IInv, Fields, Resources, Closing, Causes, Raise, GoTo, Mine, held, metrics
<1>1. CASE CreateApp
  BY <1>1 DEF CreateApp
<1>2. CASE Build
  BY InAnApp, <1>2 DEF Build
<1>3. CASE StartUp
  BY InAnApp, <1>3 DEF StartUp, BindRedis, BindSystem
<1>4. CASE StartUpFails
  <2>1. app \in 1..Apps
    BY InAnApp, <1>4 DEF StartUpFails
  <2>2. raised' \in [1..Apps -> SUBSET Causes]
    BY <1>4, <2>1 DEF StartUpFails
  <2>3. phase' = "engine" /\ ~started' /\ system' \in 0..Apps /\ redisSpans' \in 0..Apps
    BY <1>4, <2>1 DEF StartUpFails, BindRedis, BindSystem
  <2> QED
    BY <1>4, <2>2, <2>3 DEF StartUpFails
<1>5. CASE ShutDown
  BY InAnApp, <1>5 DEF ShutDown
<1>6. ASSUME NEW r \in Closing, Close(r) PROVE Fields'
  <2>1. app \in 1..Apps /\ <<app, r>> \notin unclosed
    BY <1>6, ClosesPending
  <2>2. r \in configured => <<app, r>> \in open
    BY <1>6, ClosesPending
  <2>3. phase' \in {"http_client", "redis", "ended", "stopping", "flushing"} /\ ~started'
    BY <1>6, ClosesPending DEF Close
  <2>4. raised' \in [1..Apps -> SUBSET Causes]
    BY <1>6, <2>1 DEF Close
  <2>5. open' \subseteq (1..Apps) \X Resources /\ unclosed' \subseteq open'
    BY <1>6, <2>1, <2>2 DEF Close
  <2> QED
    BY <1>6, <2>3, <2>4, <2>5 DEF Close
<1>7. CASE Stop
  <2>1. app \in 1..Apps
    BY InAnApp, <1>7 DEF Stop
  <2>2. raised' \in [1..Apps -> SUBSET Causes]
    BY <1>7, <2>1 DEF Stop
  <2>3. phase' \in {"flushing", "ended"} /\ system' \in 0..Apps /\ ~started'
    BY <1>7 DEF Stop
  <2> QED
    BY <1>7, <2>2, <2>3 DEF Stop
<1>8. CASE Flush
  BY InAnApp, <1>8 DEF Flush
<1>9. CASE UNCHANGED lifespanVars
  BY <1>9 DEF lifespanVars
<1> QED
  BY <1>1, <1>2, <1>3, <1>4, <1>5, <1>6, <1>7, <1>8, <1>9 DEF LifespanNext

LEMMA NextPools == ASSUME IInv, [LifespanNext]_lifespanVars PROVE Pools'
<1> USE AppsAssumption
    DEF IInv, Fields, Resources, Raise, GoTo, Mine, held, metrics
<1>1. CASE CreateApp
  BY <1>1 DEF CreateApp, Pools, Pending
<1>2. CASE Build
  <2>1. phase = "created" /\ phase' \in {"built", "ended"}
    BY <1>2 DEF Build
  <2>2. Pending = {}
    BY ONLY <2>1 DEF Pending
  <2>3. app \in 1..Apps
    BY <2>1, InAnApp
  <2>4. \A r \in Resources : <<app, r>> \notin open /\ <<app, r>> \notin unclosed
    BY <2>1, <2>3 DEF Pools
  <2>5. /\ phase' = "built" => Pending' = Resources
        /\ phase' = "ended" => Pending' = {}
    BY ONLY DEF Pending
  <2>6. CASE phase' = "built"
    <3>1. open' = open \cup Mine /\ UNCHANGED <<app, configured, unclosed>>
      BY <1>2, <2>6 DEF Build
    <3>2. \A a \in 1..Apps, r \in Resources :
              <<a, r>> \in Mine <=> a = app /\ r \in configured
      OBVIOUS
    <3>3. \A a \in 1..Apps, r \in Resources :
              /\ <<a, r>> \in open' => a <= app'
              /\ <<a, r>> \in open' \ unclosed' => a = app' /\ r \in Pending'
      <4> TAKE a \in 1..Apps, r \in Resources
      <4>1. <<a, r>> \in open => a <= app /\ <<a, r>> \in unclosed
        BY <2>2 DEF Pools
      <4>2. <<a, r>> \in open' <=> <<a, r>> \in open \/ (a = app /\ r \in configured)
        BY <3>1, <3>2
      <4> QED
        BY ONLY <2>3, <2>5, <2>6, <3>1, <4>1, <4>2
    <3>4. \A r \in Pending' : /\ <<app', r>> \notin unclosed'
                              /\ r \in configured' => <<app', r>> \in open'
      BY <2>3, <2>4, <2>5, <2>6, <3>1, <3>2
    <3> QED
      BY <2>6, <3>3, <3>4 DEF Pools
  <2>7. CASE phase' = "ended"
    BY <1>2, <2>2, <2>5, <2>7 DEF Build, Pools
  <2> QED
    BY <2>1, <2>6, <2>7
<1>3. CASE StartUp \/ StartUpFails \/ ShutDown
  <2>1. phase \in {"built", "serving"} /\ phase' \in {"serving", "engine"}
    BY <1>3 DEF StartUp, StartUpFails, ShutDown
  <2>2. Pending = Resources /\ Pending' = Resources
    BY ONLY <2>1 DEF Pending
  <2> QED
    BY <1>3, <2>1, <2>2 DEF StartUp, StartUpFails, ShutDown, Pools
<1>4. ASSUME NEW r \in Closing, Close(r) PROVE Pools'
  BY <1>4, ClosesPending DEF Close, Pools
<1>5. CASE Stop \/ Flush
  <2>1. Pending' = Pending
    BY <1>5 DEF Stop, Flush, Pending
  <2> QED
    BY <1>5, <2>1 DEF Stop, Flush, Pools
<1>6. CASE UNCHANGED lifespanVars
  BY <1>6 DEF lifespanVars, Pools, Pending
<1> QED
  BY <1>1, <1>2, <1>3, <1>4, <1>5, <1>6 DEF LifespanNext

\* What a close leads to.
LEMMA ClosesInto ==
    ASSUME IInv, NEW r \in Closing, Close(r)
    PROVE  /\ UNCHANGED <<app, telemetry, handle, probe, flushed, system>>
           /\ raised' \in {raised, [raised EXCEPT ![app] = @ \cup {"close"}]}
           /\ phase' = "stopping" => handle
           /\ phase' = "flushing" => ~handle /\ "close" \notin raised'[app]
           /\ phase' = "ended" => "close" \in raised'[app] \/ (~handle /\ ~telemetry)
<1>1. phase' = AfterClosingOne(r)
  BY DEF Close, GoTo
<1>2. \/ phase' \in {"http_client", "redis"}
      \/ phase' = AfterClosing
  BY <1>1 DEF AfterClosingOne, Closing, Resources
<1>3. /\ UNCHANGED <<app, telemetry, handle, probe, flushed, system>>
      /\ raised' \in {raised, [raised EXCEPT ![app] = @ \cup {"close"}]}
  BY DEF Close, GoTo, Raise, metrics
<1>4. phase' = "stopping" => handle
  BY <1>2 DEF AfterClosing
<1>5. phase' = "flushing" => ~handle /\ "close" \notin raised'[app]
  BY <1>2 DEF AfterClosing
<1>6. phase' = "ended" => "close" \in raised'[app] \/ (~handle /\ ~telemetry)
  BY <1>2 DEF AfterClosing
<1> QED
  BY <1>3, <1>4, <1>5, <1>6

LEMMA NextOrder == ASSUME IInv, [LifespanNext]_lifespanVars PROVE Order'
<1> USE AppsAssumption
    DEF IInv, Fields, Order, Resources, Closing, GoTo, held, metrics
<1>1. CASE CreateApp
  BY <1>1 DEF CreateApp
<1>2. CASE Build
  BY <1>2 DEF Build
<1>3. CASE StartUp
  <2>1. app \in 1..Apps
    BY InAnApp, <1>3 DEF StartUp
  <2>2. /\ phase = "built" /\ phase' = "serving"
        /\ UNCHANGED <<app, telemetry, flushed>>
        /\ telemetry => handle' = TRUE /\ probe' = probe \cup {app}
        /\ ~telemetry => UNCHANGED <<handle, probe>>
    BY <1>3 DEF StartUp
  <2> QED
    BY <2>1, <2>2
<1>4. CASE StartUpFails
  BY <1>4 DEF StartUpFails
<1>5. CASE ShutDown
  BY <1>5 DEF ShutDown
<1>6. ASSUME NEW r \in Closing, Close(r) PROVE Order'
  <2>1. phase \in Closing /\ app \in 1..Apps /\ app' = app
    BY <1>6, ClosesInto, ClosesPending DEF Close
  <2>2. UNCHANGED <<telemetry, handle, probe, flushed>>
    BY <1>6, ClosesInto
  <2>3. /\ phase' \in {"http_client", "redis", "ended", "stopping", "flushing"}
        /\ phase' = "stopping" => handle
        /\ phase' = "flushing" => ~handle
    BY <1>6, ClosesInto, ClosesPending
  <2>4. app \notin flushed /\ (app \in probe => handle)
    BY <2>1
  <2>5. phase' = "flushing" => app' \notin probe'
    BY <2>1, <2>2, <2>3, <2>4
  <2>6. app' # 0 /\ phase' # "off" /\ phase # "off" /\ app # 0
    BY <2>1, <2>3
  <2>7. phase' = "stopping" => handle'
    BY <2>2, <2>3
  <2>8. /\ handle' => telemetry'
        /\ app' \in probe' => handle'
    BY <2>1, <2>2, <2>4
  <2>9. phase' \notin {"created", "built", "serving"}
    BY <2>3
  <2> QED
    BY <2>1, <2>2, <2>4, <2>5, <2>6, <2>7, <2>8, <2>9
<1>7. CASE Stop
  BY <1>7 DEF Stop
<1>8. CASE Flush
  <2>1. app \in 1..Apps
    BY InAnApp, <1>8 DEF Flush
  <2>2. /\ phase = "flushing" /\ phase' = "ended"
        /\ flushed' \in {flushed, flushed \cup {app}}
        /\ UNCHANGED <<app, telemetry, handle, probe>>
    BY <1>8 DEF Flush
  <2>3. flushed' \subseteq 1..app'
    BY <2>1, <2>2
  <2>4. probe' \cap flushed' = {}
    BY <2>2
  <2>5. phase' = "off" <=> app' = 0
    BY <2>1, <2>2
  <2>6. probe' \subseteq 1..app' /\ (app' \in probe' => handle')
    BY <2>2
  <2>7. handle' => telemetry'
    BY <2>2
  <2> QED
    BY <2>2, <2>3, <2>4, <2>5, <2>6, <2>7
<1>9. CASE UNCHANGED lifespanVars
  BY <1>9 DEF lifespanVars
<1> QED
  BY <1>1, <1>2, <1>3, <1>4, <1>5, <1>6, <1>7, <1>8, <1>9 DEF LifespanNext

LEMMA NextSingleton == ASSUME IInv, [LifespanNext]_lifespanVars PROVE Singleton'
<1> USE AppsAssumption
    DEF IInv, Fields, Singleton, Resources, Closing, Causes, Unclean, Raise, GoTo,
        held, metrics
<1>0. phase # "off" => app \in 1..Apps
  BY InAnApp
<1>1. CASE CreateApp
  BY <1>1 DEF CreateApp, Order
<1>2. CASE Build
  BY <1>0, <1>2 DEF Build, Order
<1>3. CASE StartUp
  BY <1>0, <1>3 DEF StartUp, BindSystem, Order
<1>4. CASE StartUpFails
  BY <1>0, <1>4 DEF StartUpFails, BindSystem, Order
<1>5. CASE ShutDown
  BY <1>0, <1>5 DEF ShutDown, Order
<1>6. ASSUME NEW r \in Closing, Close(r) PROVE Singleton'
  <2>1. phase \in Closing /\ app \in 1..Apps
    BY <1>6, ClosesPending DEF Close
  <2>2. UNCHANGED <<app, flushed, system>>
    BY <1>6, ClosesInto
  <2>3. raised' \in {raised, [raised EXCEPT ![app] = @ \cup {"close"}]}
    BY <1>6, ClosesInto
  <2>4. /\ phase' \in {"http_client", "redis", "ended", "stopping", "flushing"}
        /\ phase' = "flushing" => ~handle /\ "close" \notin raised'[app]
    BY <1>6, ClosesInto, ClosesPending
  <2>5. phase' = "ended" => "close" \in raised'[app] \/ (~handle /\ ~telemetry)
    BY <1>6, ClosesInto
  <2>6. handle' = handle
    BY <1>6, ClosesInto
  <2>7. \A a \in 1..Apps : a # app => raised'[a] = raised[a]
    BY <2>1, <2>3
  <2>8. /\ raised[app] \subseteq raised'[app]
        /\ raised'[app] \subseteq raised[app] \cup {"close"}
    BY <2>1, <2>3
  <2>9. ~handle /\ system = app => "startup" \in raised'[app] \/ "close" \in raised'[app]
    BY <2>1, <2>8
  <2>10. app \notin flushed
    BY <2>1 DEF Order
  <2>11. /\ \A a \in 1..(app - 1) : system = a => Unclean(a)'
         /\ \A a \in flushed : system = a => "startup" \in raised'[a]
    BY <2>1, <2>7, <2>10
  <2>12. phase' = "flushing" /\ system' = app' => "startup" \in raised'[app]
    BY <2>2, <2>4, <2>9
  <2>13. phase' = "ended" /\ system' = app' => Unclean(app)'
    BY <2>2, <2>5, <2>9
  <2>14. phase' \in Closing /\ ~handle' /\ system' = app'
            => "startup" \in raised'[app] \/ "close" \in raised'[app]
    BY <2>2, <2>6, <2>9
  <2> QED
    BY <2>2, <2>4, <2>11, <2>12, <2>13, <2>14
<1>7. CASE Stop
  <2>1. phase = "stopping" /\ app \in 1..Apps /\ UNCHANGED <<app, flushed>>
    BY <1>0, <1>7 DEF Stop
  <2>2. app \notin flushed /\ 0 \notin flushed
    BY <2>1 DEF Order
  <2>3. CASE system' = 0 /\ phase' = "flushing" /\ UNCHANGED raised
    BY <2>1, <2>2, <2>3
  <2>4. CASE raised' = [raised EXCEPT ![app] = @ \cup {"stop"}] /\ phase' = "ended" /\ UNCHANGED system
    BY <2>1, <2>2, <2>4
  <2> QED
    BY <1>7, <2>3, <2>4 DEF Stop
<1>8. CASE Flush
  BY <1>0, <1>8 DEF Flush, Order
<1>9. CASE UNCHANGED lifespanVars
  BY <1>9 DEF lifespanVars
<1> QED
  BY <1>1, <1>2, <1>3, <1>4, <1>5, <1>6, <1>7, <1>8, <1>9 DEF LifespanNext

LEMMA Inductive == LifespanSpec => []IInv
<1>1. IInv /\ [LifespanNext]_lifespanVars => IInv'
  BY NextFlags, NextFields, NextPools, NextOrder, NextSingleton DEF IInv
<1> QED
  BY <1>1, InitIInv, PTL DEF LifespanSpec

-----------------------------------------------------------------------------
\* Every field stays in its range; a pool whose close raised is an open one, and
\* only an application that serves says it has started.
THEOREM TypeCorrect == LifespanSpec => []LifespanTypeOK
<1>1. IInv => LifespanTypeOK
  BY DEF IInv, Flags, Fields, LifespanTypeOK
<1> QED
  BY <1>1, Inductive, PTL

\* Wherever the start or the end of an application broke off, a pool it leaves
\* open is one whose own close raised.
THEOREM NothingElseLeaks == LifespanSpec => []OnlyFailedClosesLeak
<1>1. IInv => OnlyFailedClosesLeak
  <2> SUFFICES ASSUME IInv, NEW a \in 1..Apps, NEW r \in Resources,
                      <<a, r>> \in open \ unclosed
               PROVE  a = app /\ phase # "ended"
    BY DEF OnlyFailedClosesLeak
  <2>1. a = app /\ r \in Pending
    BY DEF IInv, Pools
  <2> QED
    BY <2>1 DEF Pending
<1> QED
  BY <1>1, Inductive, PTL

\* An application that says it has started has its pools and its telemetry; no
\* probe measures an event loop for providers that are shut down, nor are the
\* system metrics of a process taken for them, unless the application they belong
\* to failed to start.  (The spans of Redis are another matter: that they go to
\* providers that are shut down is what a run of RedisSpansExported shows.)
THEOREM TelemetryInStep == LifespanSpec => []InStepWithTelemetry
<1>1. IInv => InStepWithTelemetry
  <2> SUFFICES ASSUME IInv PROVE InStepWithTelemetry
    OBVIOUS
  <2>1. started => Mine \subseteq open
    <3> SUFFICES ASSUME started PROVE Mine \subseteq open
      OBVIOUS
    <3>1. phase = "serving"
      BY DEF IInv, Fields
    <3>2. Pending = Resources
      BY ONLY <3>1 DEF Pending
    <3> QED
      BY <3>2 DEF IInv, Fields, Pools, Mine
  <2>2. started => (telemetry => app \in probe \ flushed)
    BY DEF IInv, Fields, Order
  <2>3. probe \cap flushed = {}
    BY DEF IInv, Order
  <2>4. system \in flushed => "startup" \in raised[system]
    BY DEF IInv, Singleton
  <2> QED
    BY <2>1, <2>2, <2>3, <2>4 DEF InStepWithTelemetry
<1> QED
  BY <1>1, Inductive, PTL

\* After any number of applications that started and ended cleanly, the next
\* one of the process still gets its process metrics.
THEOREM EveryAppIsMeasured == LifespanSpec => []EachAppIsMeasured
<1>1. IInv => EachAppIsMeasured
  <2> SUFFICES ASSUME IInv, phase = "serving", telemetry,
                      \A a \in 1..(app - 1) : ~Unclean(a)
               PROVE  system = app
    BY DEF EachAppIsMeasured, Unclean
  <2>1. app \in 1..Apps /\ system \in 0..Apps /\ system # 0 /\ system <= app
    BY InAnApp DEF IInv, Fields, Singleton
  <2>2. system \notin 1..(app - 1)
    BY DEF IInv, Singleton
  <2> QED
    BY <2>1, <2>2, AppsAssumption
<1> QED
  BY <1>1, Inductive, PTL
=============================================================================
