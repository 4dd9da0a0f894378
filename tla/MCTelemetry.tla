--------------------------- MODULE MCTelemetry --------------------------
(***************************************************************************)
(* Endpoints as operators write them, and starts that fail part of the way.*)
(***************************************************************************)
EXTENDS Telemetry, Inputs

Bases == UNION {[1 .. n -> {"/", "/otlp", Traces, Measurements}] : n \in 0 .. 4}

PickTelemetry ==
  \E base \in Bases, built, enabled \in BOOLEAN, fails \in {"nothing", "traces", "metrics"} :
    input' = [of |-> "telemetry", base |-> base, built |-> built, enabled |-> enabled,
              fails |-> fails]

-----------------------------------------------------------------------------
(***************************************************************************)
(* Properties.                                                             *)
(***************************************************************************)
Ends(provider, path) == provider.to # <<>> /\ Last(provider.to) = path

\* A server that has telemetry sends each signal to its own path, named once
\* however the base was written, through the instruments the program records
\* with and under one name; and when it ends it sends what is left of both,
\* and only once.  One that has none sends nothing (signal_endpoint,
\* build_resource, shutdown_telemetry, main).
TelemetryArrives ==
  Given_("telemetry") =>
    LET config == [otel_enabled |-> input.enabled, otel_endpoint |-> input.base,
                   otel_service_name |-> "captchapi"]
        process == started(input.built, config, input.fails)
        over == shutdown_telemetry(process)
        bare == trim_end_matches(input.base)
        plain == bare = <<>> \/ Last(bare) \notin {Traces, Measurements}
        instruments == {process.spans, process.counters}
    IN  process.up =>
          IF input.built /\ input.enabled
          THEN /\ Ends(process.spans, Traces) /\ Ends(process.counters, Measurements)
               /\ plain => \A p \in instruments : Front(p.to) = bare
               /\ signal_endpoint(process.spans.to, Traces) = process.spans.to
               /\ process.spans.as = process.counters.as
               /\ over.sent = instruments /\ shutdown_telemetry(over.left).sent = {}
          ELSE instruments = {Nowhere} /\ over.sent = {}
=============================================================================
