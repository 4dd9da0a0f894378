--------------------------- MODULE MCRequests ---------------------------
(***************************************************************************)
(* Requests that name up to two parameters, at and beyond their bounds and *)
(* where a cast would bring them back, lifetimes at every limit, and       *)
(* descriptions of API keys up to a character over the limit.              *)
(***************************************************************************)
EXTENDS Requests, Params, Inputs

Candidates ==
  [difficulty |-> {-1, 0, 1, 10, 11, Narrow + 5}, length |-> {-1, 0, 1, 20, 21, 33, Narrow + 6},
   width |-> {-50, 29, 49, 50, 1000, 1001, Narrow + 220},
   height |-> {-1, 19, 29, 30, 500, 501, Narrow + 120}, compression |-> {0, 1, 40, 100, 101, 296}]

Named(f, v, g, w) == [p \in {f, g} |-> IF p = f THEN v ELSE w]

PickRequest ==
  \E f, g \in CreateSessionRequest \ {"expires_in"}, compression \in {0, 1, 40, 75, 100} :
    \E v \in Candidates[f], w \in Candidates[g] :
      input' = [of |-> "request", request |-> Named(f, v, g, w), compression |-> compression]

PickLifetime ==
  \E now \in {0, 1, 100}, max_ttl \in {0, 1, 60, 299, 300, 411, 412, 511, 900, 1023},
     default_ttl \in {0, 1, 60, 900}, expires_in \in {0, 1, 60, 61, 300, 412, 512, 1000, 1023} :
    input' = [of |-> "lifetime", now |-> now, max_ttl |-> max_ttl, default_ttl |-> default_ttl,
              expires_in |-> expires_in]

PickErrors ==
  \E kind \in DOMAIN HttpErrors : input' = [of |-> "error", kind |-> kind]

Descriptions == UNION {[1 .. n -> DOMAIN Characters] : n \in 0 .. 3}

Existing == [ApiKey({<<"letter">>}, 7) EXCEPT !.last_used_at = {9}]

PickKey ==
  \E description \in {{}} \union {{d} : d \in Descriptions}, is_active \in {{}, {TRUE}, {FALSE}},
     row \in {{}, {Existing}} :
    input' = [of |-> "key", description |-> description, is_active |-> is_active, row |-> row]

PickRequests == PickRequest \/ PickLifetime \/ PickErrors \/ PickKey

-----------------------------------------------------------------------------
(***************************************************************************)
(* Properties.                                                             *)
(***************************************************************************)
Settings(compression) ==
  [default_session_ttl_seconds |-> 0, max_session_ttl_seconds |-> 0,
   captcha_compression |-> compression]

\* The picture is the one that was asked for: of an accepted request nothing
\* is cut down or wrapped on the way to the renderer and the encoder, and its
\* answer can be submitted (validate_session_params, generate, render).
PictureIsTheOneAsked ==
  Given_("request") =>
    LET judged == create_session(input.request, Settings(input.compression))
        picture == Picture(judged.params)
    IN  judged.error = "none" =>
          /\ \A p \in {"difficulty", "length", "width", "height"} :
               picture.drawn[p] = judged.params[p]
          /\ picture.quality = judged.params.compression
          /\ picture.quality \in 1 .. 100
          /\ validate_solution(picture.drawn.length)

\* A session is there for the seconds it was granted, to the second, and the
\* answer says when it ends, as long as the configured limit is one the clock
\* can be moved by (Session::new, is_expired, expires_at_datetime).
LifetimeIsGranted ==
  Given_("lifetime") =>
    LET request == [p \in {"expires_in"} |-> input.expires_in]
        judged == validate_session_params(request, input.default_ttl, input.max_ttl)
        ends == Expiry(input.now, judged.expires_in)
    IN  (judged.error = "none" /\ input.now + input.max_ttl <= LastDate) =>
          /\ \A later \in 0 .. Wide \div 2 - 1 - input.now :
               is_expired(input.now + later, ends) <=> later > input.expires_in
          /\ expires_at_datetime(input.now, ends) = input.now + input.expires_in
          /\ SessionResult(input.now, ends).expires_at
               = SessionResult(input.now, ends).created_at + 1000 * input.expires_in

\* A copy of the picture is kept by a cache no longer than the session lasts,
\* however late in its life it was fetched (get_image_binary).
CopiesExpire ==
  Given_("lifetime") =>
    LET ends == Expiry(input.now, input.expires_in)
    IN  (input.expires_in <= input.max_ttl /\ input.now + input.max_ttl <= LastDate) =>
          \A read \in input.now .. ends :
            \A kept \in read .. read + max_age(read, input.now, ends) :
              ~ is_expired(kept, ends)

\* What the texts of the parameter table stand for.
Number(text) ==
  CASE text = "300" -> 300 [] text = "3600" -> 3600 [] text = "3" -> 3 [] text = "40" -> 40

\* The binding judges a request as a server with the same settings does, and
\* falls back to the server's defaults when it is told nothing; what it draws
\* without storing is what it would have stored (CaptchaApi::create, generate).
NodeJudgesLikeServer ==
  Given_("request") =>
    LET config == [f \in {"captcha_compression"} |-> input.compression]
        told == node_create_session(input.request, node_settings(config))
        server == create_session(input.request, Settings(Clamped(input.compression, 1, 100)))
        untold == node_settings([f \in {} |-> 0])
        drawn == node_generate(WithCompression(input.request, 40))
    IN  /\ input.compression \in 1 .. 100 => (told.error = server.error /\ told.params = server.params)
        /\ \A f \in DOMAIN untold : untold[f] = Number(PARAMS[f].default)
        /\ drawn.error = create_session(input.request, untold).error
        /\ drawn.params = create_session(input.request, untold).params

\* Nobody is shown what went wrong inside, over HTTP or from the binding; and
\* an error is the caller's in the binding only if it is over HTTP
\* (into_response, app_error_to_napi).
InternalsStayInside ==
  Given_("error") =>
    LET http == HttpErrors[input.kind]
        node == NodeErrors[input.kind]
    IN  /\ http.status = 500 => ~ http.shown /\ ~ node.shown
        /\ node.shown <=> http.shown
        /\ node.status = "InvalidArg" => http.status \in {400, 409}

\* A description that was accepted is not blank, holds no control character but
\* line breaks, tabs and returns, and is no longer than the limit, in bytes; one
\* without other control characters is refused only for being blank or for its
\* length (validate_api_key_description).  Invisible characters and changes of
\* direction count as any letter does.  An update changes what it names and
\* nothing else, changes nothing when it is not answered as done, and leaves
\* the same key behind from either side, which both show with the same dates
\* (update_api_key in storage.rs, api_keys.rs and the binding; ApiKeyInfo).
KeysAreDescribed ==
  Given_("key") =>
    LET made == http_create_key(input.description, 7)
        http == http_update_key(input.row, input.is_active, input.description)
        node == node_update_key(input.row, input.is_active, input.description)
        blank(d) == {i \in DOMAIN d : d[i] \in {"space", "newline", "tab", "return"}}
        kept(d) == {i \in DOMAIN d : d[i] \in {"letter", "accent", "zero_width", "bidi"}}
        wide(d) == {i \in DOMAIN d : d[i] \in {"zero_width", "bidi"}}
        length(d) == Len(d) + Cardinality({i \in DOMAIN d : d[i] = "accent"})
                            + 2 * Cardinality(wide(d))
    IN  /\ \A d \in input.description :
             made.status = 201 <=>
               /\ kept(d) # {} /\ DOMAIN d = kept(d) \union blank(d)
               /\ length(d) <= MAX_DESCRIPTION_LENGTH
        /\ node_create_key(input.description, 7).row = made.row
        /\ http.status = 200 <=> (node.status = "ok" /\ node.updated)
        /\ http.row = node.row
        /\ http.status # 200 => http.row = input.row
        /\ \A key \in http.row :
             /\ key.is_active \in (IF http.status = 200 /\ input.is_active # {}
                                  THEN input.is_active ELSE {TRUE})
             /\ key.description = IF http.status = 200 /\ input.description # {}
                                  THEN input.description ELSE Existing.description
             /\ node_key_info(key).created_at = 1000 * http_key_info(key, 20).created_at
             /\ node_key_info(key).last_used_at
                  = {1000 * t : t \in http_key_info(key, 20).last_used_at}
        /\ {key.created_at : key \in http.row} = {key.created_at : key \in input.row}

\* Server and bindings grant what is asked for, within the limits in force, and
\* refuse without telling what went on inside.
RequestsAreJudged ==
  /\ PictureIsTheOneAsked /\ LifetimeIsGranted /\ CopiesExpire
  /\ NodeJudgesLikeServer /\ InternalsStayInside /\ KeysAreDescribed
=============================================================================
