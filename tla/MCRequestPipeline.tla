------------------------- MODULE MCRequestPipeline -------------------------
(***************************************************************************)
(* TLC instance of what a process of the service does around its orders:   *)
(* RequestPipeline, with the gating check build_container registers and    *)
(* one of the two informational ones, which are treated alike; Lifespan,   *)
(* its applications one after another; and LogPipeline, the way of the     *)
(* lines logged.  They share no state, so that each runs while the others  *)
(* have nothing to do.                                                     *)
(***************************************************************************)
EXTENDS RequestPipeline, Lifespan, LogPipeline

MCGating == <<"database">>
MCInformational == <<"cache">>

-----------------------------------------------------------------------------
(***************************************************************************)
(* What is logged: a secret under each of two spellings, under other keys, *)
(* and, nested, under a key that is not a string, up to three deep; in the *)
(* call itself, in the bound context and in the locals of a traceback.     *)
(***************************************************************************)
MCServices == <<"first", "second">>

Password(spelling) == [type |-> "str", name |-> "password", spelling |-> spelling]
MCFields == {Password("PASSWORD")}

Sent == {Str("user"), Password("password"), Password("Pass-Word")}
NotAString == [type |-> "int", name |-> "password", spelling |-> "password"]

Around(values) == {Dict([key \in {k} |-> v]) : k \in Sent \cup {NotAString}, v \in values}
                  \cup {List(<<Leaf("x"), v>>) : v \in values}
                  \cup {Tuple(<<v>>) : v \in values}
Flat == {Leaf("x"), Dict(Nothing)}
Nested == Flat \cup Around(Flat)
DeeplyNested == Nested \cup Around(Nested)

MCBound == {Nothing, Item("correlation_id", Leaf("id"))
                     ++ [key \in {Password("password")} |-> Leaf("y")]}
\* The locals of no traceback, and of one with a variable named by a sensitive key
\* and another with such a key in it.
MCLocals == {Nothing, [key \in {Password("password")} |-> Leaf("z")]
                      ++ Item("user", Dict([key \in {Password("password")} |-> Leaf("x")]))}

Calls(origin, logger, levels, values) ==
    {[origin |-> origin, logger |-> logger, level |-> l, fields |-> [key \in {k} |-> v],
      context |-> c, locals |-> locals, span |-> s] :
        l \in levels, k \in Sent, v \in values, c \in MCBound, locals \in MCLocals,
        s \in BOOLEAN}

MCLogCalls == Calls("structlog", "pyfr_m8_verify", {Debug, Info}, DeeplyNested)
              \cup Calls("library", "sqlalchemy.engine", {Debug}, DeeplyNested)
              \cup Calls("library", "uvicorn.error", {Info}, Nested)
              \cup Calls("library", "uvicorn.access", {Info}, Flat)

\* What those calls are made of, tracebacks and our own fields included.
Own == {Leaf(Services[i]) : i \in DOMAIN Services}
       \cup {Leaf(l) : l \in Loggers} \cup {Leaf(LevelName[i]) : i \in DOMAIN LevelName}
       \cup {Leaf(a) : a \in {"what happened", "trace", "span", "id", "x", "y", "z"}}
Texts(locals) == [key \in DOMAIN locals |-> Repr(locals[key])]
Tracebacks == {Texts(locals) : locals \in MCLocals \ {Nothing}}
Frames == {Dict(Item("locals", Dict(texts))) : texts \in Tracebacks}

MCLevels == <<Own \cup Flat \cup UNION {{texts[key] : key \in DOMAIN texts} : texts \in Tracebacks},
              Around(Flat) \cup {Dict(texts) : texts \in Tracebacks},
              Around(Nested) \cup Frames,
              {List(<<frame>>) : frame \in Frames},
              {Dict(Item("frames", List(<<frame>>))) : frame \in Frames},
              {Traceback(locals) : locals \in MCLocals \ {Nothing}}>>

-----------------------------------------------------------------------------
MCInit == Init /\ LifespanInit /\ LogInit

\* The last application is over, and with it the process.
ProcessEnds == /\ phase = "ended" /\ app = Apps
               /\ UNCHANGED <<vars, lifespanVars, logVars>>

MCNext == \/ LifespanInit /\ LogInit /\ Next /\ UNCHANGED <<lifespanVars, logVars>>
          \/ Init /\ LogInit /\ LifespanNext /\ UNCHANGED <<vars, logVars>>
          \/ Init /\ LifespanInit /\ LogNext /\ UNCHANGED <<vars, lifespanVars>>
          \/ ProcessEnds

MCSpec == MCInit /\ [][MCNext]_<<vars, lifespanVars, logVars>> /\ Fairness
=============================================================================
