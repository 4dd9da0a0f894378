---------------------------- MODULE Secrets -----------------------------
(***************************************************************************)
(* What is derived from the configured secrets, and what the database      *)
(* holds of answers, images and API keys (services/hmac.rs,                *)
(* solution_hash.rs, image_cipher.rs, auth.rs).                            *)
(*                                                                         *)
(* Bytes are a sequence of symbols, each a pair of a kind and a value.     *)
(* SHA-256 and the cipher are perfect: a digest is one symbol, and equal   *)
(* only for equal bytes; a tag fits only what it was made for.             *)
(***************************************************************************)
EXTENDS Integers, Sequences, SequencesExt

Text(chars) == [i \in DOMAIN chars |-> <<"char", chars[i]>>]

Zero == <<"byte", 0>>

Sha256(bytes) == <<"digest", bytes>>

-----------------------------------------------------------------------------
(***************************************************************************)
(* HMAC, with a block of BLOCK_SIZE symbols.                               *)
(***************************************************************************)
BLOCK_SIZE == 3   \* bound: 64 bytes, a digest taking half of them

Padded(pad, key) ==
  LET short == IF Len(key) > BLOCK_SIZE THEN <<Sha256(key)>> ELSE key
  IN  [i \in 1 .. BLOCK_SIZE |-> <<pad, IF i <= Len(short) THEN short[i] ELSE Zero>>]

hmac_sha256(key, parts) ==
  Sha256(Append(Padded("outer", key), Sha256(Padded("inner", key) \o FlattenSeq(parts))))

-----------------------------------------------------------------------------
(***************************************************************************)
(* Answers and API keys.                                                   *)
(***************************************************************************)
\* The two domains differ in their third symbol.
SolutionDomain == Text(<<"c", ":", "s">>)

\* Mutant: copied from the other service.
ImageDomain_Copied == Text(<<"c", ":", "s">>)

ImageDomain == Text(<<"c", ":", "i">>)

SolutionKey(secret) == Sha256(SolutionDomain \o secret)

\* SolutionHasher::hash.
solution_hash(secret, session_id, solution) ==
  hmac_sha256(<<SolutionKey(secret)>>, <<session_id, <<Zero>>, solution>>)

verify(secret, session_id, solution, stored) == solution_hash(secret, session_id, solution) = stored

hash_api_key(salt, api_key) == Sha256(api_key \o salt)

-----------------------------------------------------------------------------
(***************************************************************************)
(* Images.  Stored bytes are the version, the nonce, the ciphertext and    *)
(* the tag.  ChaCha20-Poly1305 takes and gives the same bytes as here.     *)
(***************************************************************************)
NONCE_LEN == 2   \* bound: 12 bytes
TAG_LEN == 2     \* bound: 16 bytes
FORMAT_VERSION == 2

MasterKey(secret) == Sha256(ImageDomain \o secret)

SessionKeyInfo == Text(<<"c", ":", "k">>)

session_key(secret, session_id) ==
  hmac_sha256(<<MasterKey(secret)>>, <<SessionKeyInfo, <<Zero>>, session_id>>)

Aead(key, nonce, aad, message) ==
  [i \in DOMAIN message |-> <<"sealed", <<key, nonce, i, message[i]>>>>]
    \o [i \in 1 .. TAG_LEN |-> <<"tag", <<key, nonce, aad, message, i>>>>]

encrypt(secret, session_id, nonce, image) ==
  <<<<"byte", FORMAT_VERSION>>>> \o nonce
    \o Aead(session_key(secret, session_id), nonce, session_id, image)

Opened(image) == [error |-> "none", image |-> image]
Fails(error) == [error |-> error, image |-> <<>>]

\* The one message whose encryption is the given bytes, or an error.
OpenedWith(key, nonce, aad, bytes) ==
  LET message == [i \in 1 .. Len(bytes) - TAG_LEN |->
                    IF bytes[i][1] = "sealed" THEN bytes[i][2][4] ELSE Zero]
  IN  IF Aead(key, nonce, aad, message) = bytes THEN Opened(message) ELSE Fails("authentication")

\* A slice past the end stops the process.
Unsealed(secret, session_id, stored) ==
  IF Len(stored) < 1 + NONCE_LEN THEN Fails("panic")
  ELSE IF Len(stored) < 1 + NONCE_LEN + TAG_LEN THEN Fails("authentication")
  ELSE OpenedWith(session_key(secret, session_id), SubSeq(stored, 2, 1 + NONCE_LEN), session_id,
                  SubSeq(stored, 2 + NONCE_LEN, Len(stored)))

decrypt(secret, session_id, stored) ==
  IF Len(stored) < 1 + NONCE_LEN + TAG_LEN THEN Fails("short")
  ELSE IF stored[1] # <<"byte", FORMAT_VERSION>> THEN Fails("version")
  ELSE Unsealed(secret, session_id, stored)
=============================================================================
