-------------------------------- MODULE Keys --------------------------------
(***************************************************************************)
(* The key material of the authorization server (internal/mcpauth/keys.go) *)
(* and the JOSE helpers that use it (artifacts.go): everything is derived  *)
(* at start-up from MCP_SIGNING_KEY, MCP_SIGNING_KID and MCP_ENC_KEY, and  *)
(* only the current signing key verifies.                                  *)
(*                                                                         *)
(* Cryptography is taken as perfect: a signature verifies under the key    *)
(* that made it, a message decrypts under the key that encrypted it.       *)
(***************************************************************************)

\* An environment variable that is not set.
Unset == "unset"

\* The name of the signing key: configured, or the thumbprint of the key.
Kid(env) ==
    IF env.kid = Unset THEN [thumbprint |-> env.key] ELSE [given |-> env.kid]

\* deriveEncKey: configured, or derived from the signing key.
DeriveEncKey(env) ==
    IF env.enc = Unset THEN [hkdf |-> env.key] ELSE [given |-> env.enc]

LoadKeys(env) ==
    [kid |-> Kid(env), signer |-> env.key, encKey |-> DeriveEncKey(env),
     verify |-> {[kid |-> Kid(env), key |-> env.key]}]

SignClaims(keys, claims) ==
    [kid |-> keys.kid, signedWith |-> keys.signer, claims |-> claims]

EncryptClaims(keys, claims) ==
    [sealedWith |-> keys.encKey, claims |-> claims]

VerificationKeys(keys, kid) == {jwk \in keys.verify : jwk.kid = kid}

ParseSigned_ByKid(keys, tok) == VerificationKeys(keys, tok.kid) # {}

\* The verification key that the token's header names made the signature.
ParseSigned(keys, tok) ==
    \E jwk \in VerificationKeys(keys, tok.kid) : jwk.key = tok.signedWith

ParseEncrypted(keys, tok) == tok.sealedWith = keys.encKey
=============================================================================
