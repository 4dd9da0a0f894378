---------------------------- MODULE Requests ----------------------------
(***************************************************************************)
(* What a request for a CAPTCHA is judged by and turned into               *)
(* (validation.rs, routes/sessions.rs, models/session.rs, error.rs, and    *)
(* the same operations of the Node.js binding).                            *)
(*                                                                         *)
(* A request maps the parameters it names to integers.  The 64-bit         *)
(* integers are those of Wide here, and the 32-bit ones those of Narrow.   *)
(* The release build wraps on overflow.                                    *)
(***************************************************************************)
EXTENDS Rendering, Sequences

Wide == 1024         \* bound: how many values a 64-bit integer has
Narrow == 65536      \* bound: how many values a 32-bit integer has
LastDate == 400      \* bound: the last second a date can be made of

AsSigned(n) == ((n + Wide \div 2) % Wide) - Wide \div 2

-----------------------------------------------------------------------------
(***************************************************************************)
(* validate_session_params.                                                *)
(***************************************************************************)
Bounds ==
  [difficulty |-> 1 .. 10, length |-> 1 .. 20, width |-> 50 .. 1000,
   height |-> 30 .. 500, compression |-> 1 .. 100]

Defaults ==
  [difficulty |-> 5, length |-> 6, width |-> 220, height |-> 120, compression |-> 40]

Checked == <<"difficulty", "length", "width", "height", "compression">>

SOLUTION_MAX_LEN == 100

\* The first parameter out of bounds is the error.
Judged(request, expires_in, too_long) ==
  LET value == [p \in DOMAIN Bounds |-> IF p \in DOMAIN request THEN request[p] ELSE Defaults[p]]
      wrong == {i \in DOMAIN Checked : value[Checked[i]] \notin Bounds[Checked[i]]}
  IN  [error |-> IF too_long THEN "expires_in" ELSE IF wrong # {} THEN Checked[Min(wrong)] ELSE "none",
       params |-> value, expires_in |-> expires_in]

validate_session_params(request, default_ttl, max_ttl) ==
  LET expires_in == IF "expires_in" \in DOMAIN request THEN request["expires_in"] ELSE default_ttl
  IN  Judged(request, expires_in, expires_in > max_ttl)

validate_solution(bytes) == bytes <= SOLUTION_MAX_LEN

-----------------------------------------------------------------------------
(***************************************************************************)
(* The three callers.  Settings are the live session settings.             *)
(***************************************************************************)
WithCompression(request, compression) ==
  IF "compression" \in DOMAIN request THEN request
  ELSE [p \in DOMAIN request \union {"compression"} |->
          IF p = "compression" THEN compression ELSE request[p]]

\* POST /api/v1/sessions, and createSession of the binding.
create_session(request, settings) ==
  validate_session_params(WithCompression(request, settings.captcha_compression),
                          settings.default_session_ttl_seconds, settings.max_session_ttl_seconds)

\* What the binding's create falls back to.
NodeFallbacks ==
  [default_session_ttl_seconds |-> 300, max_session_ttl_seconds |-> 3600,
   max_validation_attempts |-> 3, captcha_compression |-> 40]

node_settings(config) ==
  [f \in DOMAIN NodeFallbacks |-> IF f \in DOMAIN config THEN config[f] ELSE NodeFallbacks[f]]

\* What a session can be asked for with, over HTTP and from the binding, whose
\* options are 32-bit and widened; and what a picture can.
CreateSessionRequest == DOMAIN Bounds \union {"expires_in"}
CreateSessionOptions == CreateSessionRequest
GenerateOptions == DOMAIN Bounds

node_create_session(options, settings) ==
  create_session([p \in DOMAIN options \intersect CreateSessionOptions |-> options[p]], settings)

\* generate of the binding: nothing is stored, so nothing is said of a
\* lifetime, and the configured compression is not looked at.
node_generate(request) ==
  validate_session_params([p \in DOMAIN request \intersect GenerateOptions |-> request[p]], 0, Wide - 1)

-----------------------------------------------------------------------------
(***************************************************************************)
(* The session and its picture.                                            *)
(***************************************************************************)
\* CaptchaService::generate casts what it is given before it draws.
Picture(params) ==
  [drawn |-> Rendered(params.length % Narrow, params.difficulty % Narrow,
                      params.width % Narrow, params.height % Narrow),
   quality |-> params.compression % 256]

\* Session::new: the lifetime is cast to a signed integer and added.
Expiry(now, expires_in) == AsSigned(now + AsSigned(expires_in))

is_expired(now, expires_at) == now > expires_at

\* A second no date can be made of is answered as the present one.
expires_at_datetime(now, expires_at) == IF expires_at <= LastDate THEN expires_at ELSE now

\* SessionResult and SessionInfo of the binding, in milliseconds.
SessionResult(created_at, expires_at) ==
  [created_at |-> created_at * 1000, expires_at |-> expires_at * 1000]

\* Cache-Control of the image.
\* Mutant: as long as the session was given.
max_age_Whole(now, created, expires_at) == AtLeast(expires_at - created, 0)

max_age(now, created, expires_at) == AtLeast(expires_at - now, 0)

-----------------------------------------------------------------------------
(***************************************************************************)
(* AppError, as the server and as the binding answer it: a status, and     *)
(* whether what the error carries is shown.                                *)
(***************************************************************************)
Answer(status, shown) == [status |-> status, shown |-> shown]

HttpErrors == [
  Database |-> Answer(500, FALSE), Internal |-> Answer(500, FALSE),
  SessionNotFound |-> Answer(404, FALSE), ApiKeyNotFound |-> Answer(404, FALSE),
  InvalidSessionParams |-> Answer(400, TRUE), InvalidApiKeyParams |-> Answer(400, TRUE),
  Unauthorized |-> Answer(401, TRUE), Forbidden |-> Answer(403, TRUE),
  ConfigNotReloadable |-> Answer(400, TRUE), ConfigNotPersistable |-> Answer(400, TRUE),
  ConfigPinned |-> Answer(409, TRUE), RestartNotEnabled |-> Answer(403, TRUE),
  AddressUnavailable |-> Answer(409, TRUE), InvalidConfig |-> Answer(400, TRUE)]

NodeErrors == [
  Database |-> Answer("GenericFailure", FALSE), Internal |-> Answer("GenericFailure", FALSE),
  SessionNotFound |-> Answer("GenericFailure", FALSE),
  ApiKeyNotFound |-> Answer("GenericFailure", FALSE),
  InvalidSessionParams |-> Answer("InvalidArg", TRUE),
  InvalidApiKeyParams |-> Answer("InvalidArg", TRUE),
  Unauthorized |-> Answer("GenericFailure", TRUE), Forbidden |-> Answer("GenericFailure", TRUE),
  ConfigNotReloadable |-> Answer("InvalidArg", TRUE),
  ConfigNotPersistable |-> Answer("InvalidArg", TRUE), ConfigPinned |-> Answer("InvalidArg", TRUE),
  RestartNotEnabled |-> Answer("GenericFailure", TRUE),
  AddressUnavailable |-> Answer("GenericFailure", TRUE),
  InvalidConfig |-> Answer("InvalidArg", TRUE)]
-----------------------------------------------------------------------------
(***************************************************************************)
(* API keys, as the server and the binding make, change and show them.     *)
(* What may be missing is a set with at most one element.  Of a character  *)
(* of a description its kind is kept: the bytes it takes, whether trim     *)
(* takes it away, and whether it is a control character.                   *)
(***************************************************************************)
MAX_DESCRIPTION_LENGTH == 3     \* bound: 255 in the code

Character(bytes, white, control) == [bytes |-> bytes, white |-> white, control |-> control]

Characters ==
  [letter |-> Character(1, FALSE, FALSE), accent |-> Character(2, FALSE, FALSE),
   zero_width |-> Character(3, FALSE, FALSE), bidi |-> Character(3, FALSE, FALSE),
   space |-> Character(1, TRUE, FALSE), newline |-> Character(1, TRUE, TRUE),
   tab |-> Character(1, TRUE, TRUE), return |-> Character(1, TRUE, TRUE),
   feed |-> Character(1, TRUE, TRUE), bell |-> Character(1, FALSE, TRUE)]

Bytes(d) == MapThenSumSet(LAMBDA i : Characters[d[i]].bytes, DOMAIN d)

validate_api_key_description(description) ==
  \A d \in description :
    /\ \E i \in DOMAIN d : ~ Characters[d[i]].white
    /\ Bytes(d) <= MAX_DESCRIPTION_LENGTH
    /\ \A i \in DOMAIN d : Characters[d[i]].control => d[i] \in {"newline", "tab", "return"}

\* ApiKey::new; its hash is the caller's business.
ApiKey(description, now) ==
  [is_active |-> TRUE, description |-> description, created_at |-> now, last_used_at |-> {}]

\* StorageService::create_api_key inserts all but last_used_at, which the table
\* leaves empty.
stored_api_key(key) == {[key EXCEPT !.last_used_at = {}]}

\* StorageService::update_api_key, on the row of a hash.
UnwrapOr(option, other) == IF option = {} THEN other ELSE CHOOSE x \in option : TRUE

update_api_key(row, is_active, description) ==
  IF is_active = {} /\ description = {} THEN [updated |-> FALSE, row |-> row]
  ELSE [updated |-> row # {},
        row |-> {[key EXCEPT !.is_active = UnwrapOr(is_active, @),
                             !.description = IF description = {} THEN @ ELSE description] : key \in row}]

\* POST and PUT under /api/v1/api-keys: a status, and the row after it.
http_create_key(description, now) ==
  IF validate_api_key_description(description)
  THEN [status |-> 201, row |-> stored_api_key(ApiKey(description, now))]
  ELSE [status |-> HttpErrors["InvalidApiKeyParams"].status, row |-> {}]

http_update_key(row, is_active, description) ==
  LET done == update_api_key(row, is_active, description)
  IN  IF ~ validate_api_key_description(description)
      THEN [status |-> HttpErrors["InvalidApiKeyParams"].status, row |-> row]
      ELSE [status |-> IF done.updated THEN 200 ELSE HttpErrors["ApiKeyNotFound"].status,
            row |-> done.row]

\* The same of the binding.  What createApiKey refuses is an AppError, what
\* updateApiKey refuses is a reason and nothing else.
node_create_key(description, now) ==
  IF validate_api_key_description(description)
  THEN [status |-> "ok", row |-> stored_api_key(ApiKey(description, now))]
  ELSE [status |-> NodeErrors["InvalidApiKeyParams"].status, row |-> {}]

node_update_key(row, is_active, description) ==
  LET done == update_api_key(row, is_active, description)
  IN  IF ~ validate_api_key_description(description)
      THEN [status |-> "GenericFailure", updated |-> FALSE, row |-> row]
      ELSE [status |-> "ok", updated |-> done.updated, row |-> done.row]

\* What is shown of a key: dates over HTTP, milliseconds from the binding.
http_key_info(key, now) ==
  [is_active |-> key.is_active, description |-> key.description,
   created_at |-> expires_at_datetime(now, key.created_at),
   last_used_at |-> {t \in key.last_used_at : t <= LastDate}]

node_key_info(key) ==
  [is_active |-> key.is_active, description |-> key.description,
   created_at |-> key.created_at * 1000, last_used_at |-> {t * 1000 : t \in key.last_used_at}]
=============================================================================
