---------------------------- MODULE LogPipeline ----------------------------
(***************************************************************************)
(* observability/logging.py: configure_logging, which every application of *)
(* a process calls anew, and the way of one log record after another       *)
(* through the loggers and handlers it left behind, to standard output and *)
(* to OTLP.                                                                *)
(*                                                                         *)
(* A record comes from structlog, whose processor chain runs at the call,  *)
(* or from a library's standard logger, for which each handler's formatter *)
(* runs the same chain (foreign_pre_chain).  Rendering, the timestamp and  *)
(* the stack are left out; the standard library, structlog and uvicorn are *)
(* modelled as this code uses them.                                        *)
(***************************************************************************)
EXTENDS Redaction

CONSTANTS Services,  \* the applications' service names, in their order
          Fields,    \* APP_LOG__REDACT_FIELDS
          LogCalls   \* what is logged, by whom and in which context

VARIABLES handlers,   \* of each logger, in the order they were added
          propagate,  \* of each logger
          level,      \* of each logger, or Unset
          chain,      \* the service and names bound into structlog's chain
          otlp,       \* the application exports its log records
          apps,       \* applications that called configure_logging
          governed,   \* nobody changed the loggers since
          call,       \* the call being served, or Idle
          message,    \* of a structlog call, what its chain made of it
          extra,      \* the attributes `extra=` put on the record
          todo,       \* handlers the record is still to be given to
          written     \* what each handler made of it

loggerVars == <<handlers, propagate, level, chain, otlp, apps, governed>>
recordVars == <<call, message, extra, todo, written>>
logVars == <<loggerVars, recordVars>>

Loggers == {"root", "uvicorn", "uvicorn.error", "uvicorn.access",
            "sqlalchemy.engine", "pyfr_m8_verify"}
UvicornLoggers == {"uvicorn", "uvicorn.error", "uvicorn.access"}
Parent(logger) == IF logger = "uvicorn.error" \/ logger = "uvicorn.access"
                  THEN "uvicorn" ELSE "root"

Unset == 0
Debug == 1
Info == 2
Warning == 3
LevelName == <<"debug", "info", "warning">>

Idle == [origin |-> "none"]
Nothing == <<>>

\* A field of ours, and what it holds.
Str(name) == [type |-> "str", name |-> name, spelling |-> "as it is"]
Item(name, value) == [key \in {Str(name)} |-> value]

\* The items of both; where both have one, that of the first.
first ++ second ==
    [key \in DOMAIN first \cup DOMAIN second |->
        IF key \in DOMAIN first THEN first[key] ELSE second[key]]

-----------------------------------------------------------------------------
(***************************************************************************)
(* The processor chain.                                                    *)
(***************************************************************************)
\* dict_tracebacks: one dictionary per exception, with its frames and the
\* repr() of each of their locals.
Traceback(locals) ==
    LET shown == [key \in DOMAIN locals |-> Repr(locals[key])]
    IN  List(<<Dict(Item("frames", List(<<Dict(Item("locals", Dict(shown)))>>)))>>)

\* resource_attributes_processor: what identifies the application.
ResourceAttributes(bound) == Item("service.name", Leaf(bound.service))

\* otel_context: the ids of the active span, within a span only.
OtelContext(c) ==
    IF c.span THEN Item("trace_id", Leaf("trace")) ++ Item("span_id", Leaf("span"))
    ELSE Nothing

\* merge_contextvars leaves alone what the call named itself; the processors
\* after it replace what was there.
Assembled(bound, c) ==
    ResourceAttributes(bound)
    ++ OtelContext(c)
    ++ Item("logger", Leaf(c.logger))
    ++ Item("level", Leaf(LevelName[c.level]))
    ++ (IF c.locals = Nothing THEN Nothing ELSE Item("exception", Traceback(c.locals)))
    ++ Item("event", Leaf("what happened"))
    ++ (IF c.origin = "structlog" THEN c.fields ELSE Nothing)
    ++ c.context

\* Any items may be logged, under keys that are strings and nested as deep as
\* Levels.  Nobody names the ids of a span, nor a correlation id that is not the
\* request's own.
LogCallsAssumption ==
    /\ Services \in Seq(STRING)
    /\ \A c \in LogCalls :
           /\ c.origin \in {"structlog", "library"}
           /\ c.logger \in Loggers /\ c.level \in DOMAIN LevelName /\ c.span \in BOOLEAN
           /\ IsItems(c.fields)
           /\ \A i \in DOMAIN Services : IsItems(Assembled([service |-> Services[i]], c))
           /\ \A items \in {c.fields, c.context} :
                  /\ \A key \in DOMAIN items : key.type = "str"
                  /\ Str("trace_id") \notin DOMAIN items
                  /\ Str("correlation_id") \in DOMAIN items =>
                         items[Str("correlation_id")] = Leaf("id")
ASSUME LogCallsAssumption

\* A mutant: the redactor comes first, before the context is merged.
ChainRedactingFirst(bound, c) ==
    Assembled(bound, [c EXCEPT !.fields = RedactItems(c.fields, bound.names)])

\* _shared_processors, the redactor last.
Chain(bound, c) == RedactItems(Assembled(bound, c), bound.names)

-----------------------------------------------------------------------------
LogInit == /\ handlers = [l \in Loggers |-> <<>>]
           /\ propagate = [l \in Loggers |-> TRUE]
           /\ level = [l \in Loggers |-> IF l = "root" THEN Warning ELSE Unset]
           /\ chain = [service |-> "none", names |-> {}]
           /\ otlp = FALSE
           /\ apps = 0
           /\ governed = FALSE
           /\ call = Idle /\ message = Nothing /\ extra = Nothing
           /\ todo = <<>> /\ written = <<>>

\* uvicorn's dictConfig, before the application factory runs.
InstallUvicorn ==
    /\ apps < Len(Services)
    /\ handlers' = [handlers EXCEPT !["uvicorn"] = <<[leg |-> "uvicorn's own"]>>,
                                    !["uvicorn.access"] = <<[leg |-> "uvicorn's own"]>>]
    /\ propagate' = [propagate EXCEPT !["uvicorn"] = FALSE, !["uvicorn.access"] = FALSE]
    /\ level' = [l \in Loggers |-> IF l \in UvicornLoggers THEN Info ELSE level[l]]
    /\ governed' = FALSE
    /\ UNCHANGED <<chain, otlp, apps, recordVars>>

\* A mutant: only the root logger is cleared.
AdoptRootOnly(root) == /\ handlers' = [handlers EXCEPT !["root"] = root]
                       /\ UNCHANGED propagate

\* Root's handlers are replaced, uvicorn's dropped and their records let through.
Adopt(root) ==
    /\ handlers' = [l \in Loggers |-> CASE l = "root" -> root
                                        [] l \in UvicornLoggers -> <<>>
                                        [] OTHER -> handlers[l]]
    /\ propagate' = [l \in Loggers |-> l \in UvicornLoggers \/ propagate[l]]

\* configure_logging.  A level set for a logger by name stays until it is set
\* again, also when the next application does not name it.
ConfigureLogging(exports, levels) ==
    /\ apps < Len(Services)
    /\ LET bound == [service |-> Services[apps + 1], names |-> Names(Fields)]
           stdout == [leg |-> "stdout", chain |-> bound]
           export == [leg |-> "otlp", chain |-> bound]
       IN  /\ chain' = bound
           /\ Adopt(IF exports THEN <<stdout, export>> ELSE <<stdout>>)
    /\ level' = levels ++ [level EXCEPT !["root"] = Info]
    /\ otlp' = exports
    /\ apps' = apps + 1
    /\ governed' = TRUE
    /\ UNCHANGED recordVars

-----------------------------------------------------------------------------
\* Logger.getEffectiveLevel
EffectiveLevel ==
    LET effective[l \in Loggers] ==
            IF level[l] # Unset THEN level[l] ELSE effective[Parent(l)]
    IN  effective

\* Logger.callHandlers
HandlersFrom ==
    LET from[l \in Loggers] ==
            handlers[l] \o (IF l # "root" /\ propagate[l] THEN from[Parent(l)] ELSE <<>>)
    IN  from

\* A call that its logger's level lets through.
LogCall(c) ==
    /\ apps > 0
    /\ c.level >= EffectiveLevel[c.logger]
    /\ call' = c
    /\ message' = IF c.origin = "structlog" THEN Chain(chain, c) ELSE Nothing
    /\ extra' = IF c.origin = "structlog" THEN Nothing ELSE c.fields
    /\ todo' = HandlersFrom[c.logger]
    /\ written' = <<>>
    /\ UNCHANGED loggerVars

\* A mutant: no filter on the handler.
AttributesUnfiltered(handler) == extra

\* RedactingFilter masks the record's own attributes, and the OTLP handler
\* copies them; the handler of standard output does neither.
Attributes(handler) == RedactItems(extra, handler.chain.names)

\* ProcessorFormatter.format
Body(handler) == IF call.origin = "structlog" THEN message ELSE Chain(handler.chain, call)

Handle ==
    /\ todo # <<>>
    /\ LET handler == Head(todo)
       IN  CASE handler.leg = "stdout" ->
                    /\ written' = Append(written, [leg |-> "stdout", body |-> Body(handler),
                                                   attributes |-> Nothing])
                    /\ UNCHANGED extra
             [] handler.leg = "otlp" ->
                    /\ extra' = Attributes(handler)
                    /\ written' = Append(written, [leg |-> "otlp", body |-> Body(handler),
                                                   attributes |-> extra'])
             [] OTHER ->
                    /\ written' = Append(written, [leg |-> handler.leg])
                    /\ UNCHANGED extra
    /\ todo' = Tail(todo)
    /\ UNCHANGED <<loggerVars, call, message>>

\* The call returns.
Logged == /\ call # Idle
          /\ todo = <<>>
          /\ call' = Idle /\ message' = Nothing /\ extra' = Nothing /\ written' = <<>>
          /\ UNCHANGED <<loggerVars, todo>>

\* Logging is synchronous: a call returns before anything else happens.
LogNext ==
    \/ /\ call = Idle
       /\ \/ InstallUvicorn
          \/ \E exports \in BOOLEAN : \E levels \in {Nothing, [l \in {"sqlalchemy.engine"} |-> Debug]} :
                 ConfigureLogging(exports, levels)
          \/ \E c \in LogCalls : LogCall(c)
    \/ Handle
    \/ Logged

LogSpec == LogInit /\ [][LogNext]_logVars

-----------------------------------------------------------------------------
(***************************************************************************)
(* Correctness.                                                            *)
(***************************************************************************)
Over == call # Idle /\ todo = <<>> /\ governed

\* An operator may configure that even our own fields are masked.
Holds(body, name, value) ==
    /\ Str(name) \in DOMAIN body
    /\ body[Str(name)] = IF Matches(Str(name), Names(Fields)) THEN REDACTED ELSE Leaf(value)

\* "Every log record — ours and every third-party library's — passes through
\* one structlog processor chain": a record of any logger, uvicorn's included,
\* is written once to standard output and once to OTLP where that is exported,
\* and nowhere else, also after an earlier application of the process set up
\* its own; and it carries the current application's name, the request's id,
\* and the ids of its span or none.
EveryRecordOncePerLeg ==
    Over => /\ [i \in DOMAIN written |-> written[i].leg] =
                   IF otlp THEN <<"stdout", "otlp">> ELSE <<"stdout">>
            /\ \A i \in DOMAIN written :
                   LET body == written[i].body
                   IN  /\ Holds(body, "service.name", Services[apps])
                       /\ Str("correlation_id") \in DOMAIN call.context =>
                              Holds(body, "correlation_id", "id")
                       /\ Holds(body, "trace_id", "trace") <=> call.span

\* "Every record however it was produced": whoever logged it, in an argument, in
\* the bound context or in an attribute of the record, at any depth of
\* dictionaries and lists, what is under a sensitive key is masked on both legs,
\* and nothing else is.  The code does less than the "any depth" of its
\* docstrings, and so does this: what is inside a tuple is written as it is, and
\* so is each local variable of a traceback, a text by then (see Traceback), but
\* one whose own name is sensitive.
NoSecretIsWritten ==
    Over => \A i \in DOMAIN written :
                LET w == written[i]
                IN  /\ Ends(Dict(w.body)) =
                           Shown(Dict(Assembled(chain, call)), Names(Fields))
                    /\ w.leg = "otlp" /\ call.origin = "library" =>
                           Ends(Dict(w.attributes)) =
                               Shown(Dict(call.fields), Names(Fields))
=============================================================================
