---------------------------- MODULE Telemetry ---------------------------
(***************************************************************************)
(* Where a server's traces and measurements go (telemetry.rs, metrics.rs,  *)
(* and their order in main.rs).  An endpoint is a host followed by the     *)
(* pieces of its path; "/" is an empty piece, as a trailing slash makes.   *)
(* An instrument stays with the provider that was installed when it was    *)
(* made, and the one that is there from the beginning drops everything.    *)
(***************************************************************************)
EXTENDS Naturals, Sequences, SequencesExt

Traces == "/v1/traces"
Measurements == "/v1/metrics"

trim_end_matches(base) ==
  LET kept == {n \in 0 .. Len(base) : n = 0 \/ base[n] # "/"}
  IN  SubSeq(base, 1, CHOOSE n \in kept : \A m \in kept : m <= n)

\* Mutant: the path is put after whatever the base ends with.
signal_endpoint_Joined(base, path) ==
  IF base # <<>> /\ Last(base) = path THEN base ELSE Append(base, path)

signal_endpoint(base, path) ==
  LET trimmed == trim_end_matches(base)
  IN  IF trimmed # <<>> /\ Last(trimmed) = path THEN trimmed ELSE Append(trimmed, path)

-----------------------------------------------------------------------------
(***************************************************************************)
(* A provider sends to an endpoint in the name of a resource.  A process   *)
(* has a global provider of each signal, what it keeps of the ones it must *)
(* shut down, and the instruments made so far, bound to their provider.    *)
(***************************************************************************)
Provider(endpoint, resource) == [to |-> endpoint, as |-> resource]

Nowhere == Provider(<<>>, <<>>)

Blank == [up |-> TRUE, tracer |-> Nowhere, meter |-> Nowhere, provider_slot |-> {},
          meter_slot |-> {}, spans |-> Nowhere, counters |-> Nowhere]

\* TelemetryConfig::from_config, and the one resource of both signals.
from_config(config) ==
  [otlp_endpoint |-> config.otel_endpoint, service_name |-> config.otel_service_name]

build_resource(config) == <<config.service_name, "CARGO_PKG_VERSION">>

build_tracer_provider(config) ==
  Provider(signal_endpoint(config.otlp_endpoint, Traces), build_resource(config))

build_meter_provider(config) ==
  Provider(signal_endpoint(config.otlp_endpoint, Measurements), build_resource(config))

\* Each exporter is built before its provider is kept and becomes the global one.
init_telemetry(process, config, fails) ==
  LET tracer == build_tracer_provider(from_config(config))
      meter == build_meter_provider(from_config(config))
      traced == [process EXCEPT !.provider_slot = {tracer}, !.tracer = tracer]
      measured == [traced EXCEPT !.meter_slot = {meter}, !.meter = meter]
  IN  CASE fails = "traces" -> [process EXCEPT !.up = FALSE]
        [] fails = "metrics" -> [traced EXCEPT !.up = FALSE]
        [] OTHER -> measured

is_telemetry_enabled(built, config) == built /\ config.otel_enabled

\* The subscriber takes its tracer from the provider of the moment.
init_tracing(process, built, config, fails) ==
  LET ready == IF is_telemetry_enabled(built, config)
               THEN init_telemetry(process, config, fails) ELSE process
  IN  IF ready.up THEN [ready EXCEPT !.spans = ready.tracer] ELSE ready

\* Every instrument of the program, session counters to histograms, is made
\* from the one global meter of the moment, and no other.
Metrics(process) == process.meter

init_metrics(process) ==
  IF process.up THEN [process EXCEPT !.counters = Metrics(process)] ELSE process

\* main: tracing first.
started(built, config, fails) == init_metrics(init_tracing(Blank, built, config, fails))

\* shutdown_telemetry takes what is kept, and shuts it down: what was recorded
\* and not sent yet is sent.  That one fails is noted and does not stop it.
shutdown_telemetry(process) ==
  [sent |-> process.provider_slot \union process.meter_slot,
   left |-> [process EXCEPT !.provider_slot = {}, !.meter_slot = {}]]
=============================================================================
