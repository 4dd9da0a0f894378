--------------------------- MODULE MCRoutes -----------------------------
(***************************************************************************)
(* Every route of both builds, with every kind of credential, id and       *)
(* origin, before a limiter that has nothing left for some.                *)
(***************************************************************************)
EXTENDS Routes, Inputs

Addresses == {"proxy", "a", "b"}

PickRouted ==
  \E admin_ui, reverse_proxy \in BOOLEAN, peer \in {"proxy", "a"}, forwarded \in {"none", "a", "b"},
     id \in {"absent", "opaque", "empty", "own"}, spent \in SUBSET Addresses,
     header \in {"absent", "opaque", "Basic", "master", "active", "inactive", "unknown"} :
    input' = [of |-> "routed", admin_ui |-> admin_ui, reverse_proxy |-> reverse_proxy, spent |-> spent,
              request |-> [peer |-> peer, forwarded |-> forwarded, id |-> id, header |-> header]]

-----------------------------------------------------------------------------
(***************************************************************************)
(* Properties.                                                             *)
(***************************************************************************)
Apps == [admin_ui \in BOOLEAN |-> build_app(admin_ui)]

AppAsked == Apps[input.admin_ui]

AnswerOf(e) == Served(e, input.request, input.reverse_proxy, input.spent)

ForSessions(e) == Head(e.path) = "/api/v1/sessions"

\* Who has no key reaches the health check, a session's details, its picture
\* and the console's page, and nothing that changes anything; only the master
\* reaches keys and configuration (route_layer, MasterKeyMiddleware).
KeysOpenWhatIsTheirs ==
  Given_("routed") =>
    \A e \in AppAsked : AnswerOf(e).handled =>
      \/ input.request.header = "master"
      \/ input.request.header = "active" /\ ForSessions(e)
      \/ /\ e.method = "GET"
         /\ e.handler \in {"health_check", "get_session_details", "get_image_binary", "index", "script"}

\* Rates are for sessions alone, and a client with cells left pays with one
\* however badly it presents itself.  What a request says of its origin counts
\* for nothing until the server is told there is a proxy, and then clients
\* that say it share nothing but the proxy (GovernorLayer, SmartIpKeyExtractor).
SessionsAreLimited ==
  Given_("routed") =>
    \A e \in AppAsked :
      LET answer == AnswerOf(e)
          refused == answer.by = "too_many_requests"
          From(peer, forwarded) ==
            Served(e, [input.request EXCEPT !.peer = peer, !.forwarded = forwarded],
                   input.reverse_proxy, input.spent)
          who == input.request
      IN  /\ IF ForSessions(e) THEN answer.charged <=> ~ refused
             ELSE ~ answer.charged /\ ~ refused
          /\ input.spent = Addresses => (refused <=> ForSessions(e))
          /\ ~ input.reverse_proxy =>
               \A other \in Addresses : From(who.peer, other) = answer
          /\ (input.reverse_proxy /\ who.forwarded # "none") =>
               \A other \in Addresses : From(other, who.forwarded) = answer

\* Every answer is timed once and carries an id, refusals too: the id the
\* request came with whenever it came with one that can be carried
\* (request_id_middleware, track_request_duration).
AnswersAreTraced ==
  Given_("routed") =>
    \A e \in AppAsked :
      LET answer == AnswerOf(e)
      IN  answer.durations = 1 /\ answer.id = IF input.request.id = "own" THEN "own" ELSE "new"

\* One request finds one handler, and everything the configuration can change
\* in a running process is read when it is used: what the router's parts keep
\* for themselves is fixed until a restart (build_app, SessionConfig).
RouterIsSound ==
  Given_("routed") =>
    /\ \A e \in AppAsked : {f \in AppAsked : f.path = e.path /\ f.method = e.method} = {e}
    /\ CapturedAtBuild \subseteq BootFields
    /\ LiveFields = SessionConfig \union {"cleanup_interval_seconds", "log_level"}

\* What a request may do is what its key and its rate allow.
RequestsAreAdmitted ==
  KeysOpenWhatIsTheirs /\ SessionsAreLimited /\ AnswersAreTraced /\ RouterIsSound
=============================================================================
