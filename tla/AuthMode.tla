------------------------------ MODULE AuthMode ------------------------------
(***************************************************************************)
(* How a caller pays and what that permits (headroom-core/auth_mode.rs).   *)
(*                                                                         *)
(* A credential is [key, token]: what is in x-api-key and in authorization *)
(* ("none", an "api" key, an "oauth" token that looks like a key, or       *)
(* something "opaque").                                                    *)
(***************************************************************************)
EXTENDS Naturals

(***************************************************************************)
(* classify_auth_mode: an API key wherever it is sent, then the prefixes   *)
(* of OAuth tokens, and what is not recognised is a subscription.          *)
(***************************************************************************)
ClassifyAuthMode(credential) ==
  CASE credential.key = "api" -> "payg"
    [] credential.key # "api" /\ credential.token = "oauth" -> "oauth"
    [] credential.key # "api" /\ credential.token = "api" -> "payg"
    [] OTHER -> "subscription"

\* CompressionPolicy::for_mode
PolicyFor(mode) ==
  LET keyed == mode = "payg"
      open  == mode \in {"payg", "oauth"}
  IN  [lossy |-> keyed, lossless |-> open, cacheControl |-> keyed, cacheKey |-> keyed,
       forwarded |-> open, stripEncoding |-> open]
=============================================================================
