------------------------------- MODULE Guard -------------------------------
(***************************************************************************)
(* The two guards of the relay (headroom-proxy/guard.rs): an upstream that *)
(* is the proxy itself, and the token bucket in front of the provider.     *)
(*                                                                         *)
(* A url is [scheme, host, port], port 0 when it names none.  A host is    *)
(* "loopback" in any spelling, "any" (0.0.0.0), "lan" (an address of one   *)
(* of this machine's interfaces) or a machine elsewhere.                   *)
(***************************************************************************)
EXTENDS Naturals

CONSTANT Window  \* RATE_WINDOW, in ticks

ASSUME WindowAssumption == Window \in Nat \ {0}

\* split_authority: the port that is meant where none is given.
PortOf(url) ==
  CASE url.port # 0 -> url.port
    [] url.port = 0 /\ url.scheme \in {"https", "wss"} -> 443
    [] OTHER -> 80

\* is_loopback_host
LoopbackHosts == {"loopback", "any"}

(***************************************************************************)
(* is_self_referential: by port, then by the spelling of the host.  Bound  *)
(* to every interface, only the loopback spellings are recognised.         *)
(***************************************************************************)
SelfReferential(url, listen) ==
  /\ url.scheme \in {"http", "https"}
  /\ PortOf(url) = listen.port
  /\ url.host \in IF listen.host \in LoopbackHosts THEN LoopbackHosts ELSE {listen.host}

\* What the network does: the sockets of this machine that a connection to url arrives at.
Reaches(url, listen) ==
  /\ PortOf(url) = listen.port
  /\ CASE listen.host = "any"      -> url.host \in LoopbackHosts \cup {"lan"}
       [] listen.host = "loopback" -> url.host \in LoopbackHosts
       [] OTHER                    -> url.host = listen.host

-----------------------------------------------------------------------------
FullBucket(capacity, now) == [tokens |-> capacity, refilled |-> now]

Windows(bucket, now) == (now - bucket.refilled) \div Window

\* FAULT for Refilled: a window's worth is added for every window that has passed.
RefilledByAdding(bucket, capacity, now) ==
  [tokens |-> bucket.tokens + capacity * Windows(bucket, now),
   refilled |-> bucket.refilled + Window * Windows(bucket, now)]

(***************************************************************************)
(* refill_if_due: whole windows only, and a reset however many have        *)
(* passed.                                                                 *)
(***************************************************************************)
Refilled(bucket, capacity, now) ==
  IF Windows(bucket, now) = 0 THEN bucket
  ELSE [tokens |-> capacity, refilled |-> bucket.refilled + Window * Windows(bucket, now)]

\* RateLimiter::allow
Allows(bucket, capacity, now) == Refilled(bucket, capacity, now).tokens > 0

Taken(bucket, capacity, now) ==
  LET refilled == Refilled(bucket, capacity, now)
  IN  [refilled EXCEPT !.tokens = @ - (IF @ > 0 THEN 1 ELSE 0)]
=============================================================================
