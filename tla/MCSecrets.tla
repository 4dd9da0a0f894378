---------------------------- MODULE MCSecrets ---------------------------
(***************************************************************************)
(* Short secrets, ids and answers, and what may happen to stored bytes.    *)
(***************************************************************************)
EXTENDS Secrets, Inputs

Strings(chars, n) == UNION {{Text(s) : s \in [1 .. k -> chars]} : k \in 0 .. n}

\* Secrets are the operator's, and API keys are made of letters.
SecretsGiven == {Text(s) : s \in {<<"a", "a">>, <<":", "s">>, <<"c", ":", "k">>, <<"i", "a", "b">>}}
ApiKeys == {Text(s) : s \in [1 .. 4 -> {"a", "c"}]}

\* An answer is whatever is submitted; an id holds no zero byte.
Answers == {<<>>, <<Zero>>, <<Zero, <<"char", "a">>>>} \union Strings({"a", "b"}, 2)

PickAnswers ==
  \E secret, other \in SecretsGiven, id1, id2 \in Strings({"a", "b"}, 2) \ {<<>>} :
    \E answer \in Answers, tried \in Answers :
      input' = [of |-> "answers", secret |-> secret, other |-> other, id1 |-> id1, id2 |-> id2,
                answer |-> answer, tried |-> tried]

PickKeys ==
  \E salt, solution, image \in SecretsGiven, api_key \in ApiKeys, id \in Strings({"a", "c"}, 2) :
    input' = [of |-> "keys", salt |-> salt, solution |-> solution, image |-> image,
              api_key |-> api_key, id |-> id]

Image == Text(<<"x", "y">>)
Nonces == {Text(<<"m", "n">>), Text(<<"m", "m">>)}
Ids2 == {Text(<<"a">>), Text(<<"a", "a">>)}

\* What may be found in a row: the bytes as they were written, the bytes of
\* another row or an older build, and bytes cut off, joined or changed.
Damages == {"none", "cut", "joined", "changed", "swapped", "version"}

Damaged(bytes, other, damage, at) ==
  CASE damage = "none" -> bytes
    [] damage = "cut" -> SubSeq(bytes, 1, at - 1)
    [] damage = "joined" -> SubSeq(bytes, 1, at) \o SubSeq(other, at + 1, Len(other))
    [] damage = "changed" -> [bytes EXCEPT ![at] = Zero]
    [] damage = "swapped" -> SubSeq(bytes, at, Len(bytes)) \o SubSeq(bytes, 1, at - 1)
    [] damage = "version" -> [bytes EXCEPT ![1] = <<"byte", 1>>]

PickImages ==
  \E secret, now \in SecretsGiven, id1, id2 \in Ids2, n1, n2 \in Nonces, damage \in Damages :
    \E at \in 1 .. 1 + NONCE_LEN + Len(Image) + TAG_LEN :
      input' = [of |-> "images", secret |-> secret, now |-> now, id1 |-> id1, id2 |-> id2,
                n1 |-> n1, n2 |-> n2, damage |-> damage, at |-> at]

PickSecrets == PickAnswers \/ PickKeys \/ PickImages

-----------------------------------------------------------------------------
(***************************************************************************)
(* Properties.                                                             *)
(***************************************************************************)
\* A stored hash is matched by the answer it was made of, for the session it
\* was made for and under the secret it was made with, and by nothing else:
\* no id and answer run together to those of another session.
AnswerIsSessions ==
  Given_("answers") =>
    LET stored == solution_hash(input.secret, input.id1, input.answer)
    IN  verify(input.other, input.id2, input.tried, stored) <=>
          /\ input.other = input.secret
          /\ input.id1 = input.id2
          /\ input.tried = input.answer

\* Nothing the database holds, and no key of one service, is a key of another,
\* when one secret serves for all of them as when it does not
\* (KEY_DERIVATION_DOMAIN, and the fallback to the salt).
KeysAreApart ==
  Given_("keys") =>
    LET keys == <<SolutionKey(input.solution), MasterKey(input.image),
                  session_key(input.image, input.id)>>
        stored == {hash_api_key(input.salt, input.api_key),
                   solution_hash(input.solution, input.id, input.api_key)}
    IN  /\ \A i, j \in DOMAIN keys : keys[i] = keys[j] => i = j
        /\ \A i \in DOMAIN keys : keys[i] \notin stored

\* A row's image is served if and only if its bytes are those written for that
\* session under the present secret: cut, joined, changed or moved bytes are
\* an error, never another image and never the end of the process.
ImageIsSessions ==
  Given_("images") =>
    LET written == encrypt(input.secret, input.id1, input.n1, Image)
        other == encrypt(input.secret, input.id2, input.n2, Image)
        found == Damaged(written, other, input.damage, input.at)
        read == decrypt(input.now, input.id2, found)
        own == \E nonce \in Nonces : found = encrypt(input.now, input.id2, nonce, Image)
    IN  /\ read.error = "none" <=> own
        /\ read.error = "none" => read.image = Image
        /\ read.error # "panic"
        /\ input.damage = "version" => read.error = "version"

\* What is derived for one session or purpose serves no other.
SecretsStayApart == AnswerIsSessions /\ KeysAreApart /\ ImageIsSessions
=============================================================================
