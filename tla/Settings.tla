------------------------------ MODULE Settings ------------------------------
(***************************************************************************)
(* The configuration (headroom-proxy/config.rs): the environment of the    *)
(* process under a map of overrides that the admin endpoint writes.        *)
(*                                                                         *)
(* A setting is the set of its value, empty when it is unset.  In a call   *)
(* of the admin endpoint the empty set is the empty string.                *)
(***************************************************************************)
EXTENDS Guard

CONSTANTS
  DefaultListen,     \* loopback and DEFAULT_PORT
  DefaultUpstream,   \* DEFAULT_UPSTREAM
  DefaultRateLimit,  \* DEFAULT_RATE_LIMIT
  DefaultMemoryLimit,
  DefaultLimits,     \* of pipeline::safety: [bytes, lines]
  Garbled            \* a value that does not parse

(* KNOWN, and of these STARTUP_ONLY, which the admin endpoint names as in  *)
(* need of a restart.                                                      *)
StartupOnly == {"HOST", "PORT", "UPSTREAM", "RECOMMENDATIONS", "MEMORY", "MEMORY_LIMIT", "CCR_DIR",
                "REDIS_URL", "SAVINGS", "RATE_LIMIT", "LINKED_MEMORY_DB", "LINKED_MEMORY_MODEL",
                "LINKED_MEMORY_TOKENIZER"}
Known == {"COMPRESSION", "OUTPUT_SHAPER", "STABILIZE", "MAX_BYTES", "MAX_LINES"} \cup StartupOnly

NoOverrides == [name \in Known |-> {}]

\* setting(): an override shadows the environment.
Setting(env, overrides, name) == IF overrides[name] # {} THEN overrides[name] ELSE env[name]

Parsed(setting, default) ==
  IF setting \subseteq {Garbled} THEN default ELSE CHOOSE value \in setting : TRUE

\* set_overrides: merged; an empty value takes an override back; unknown names are dropped.
Overridden(overrides, values) ==
  [name \in Known |-> IF name \in DOMAIN values THEN values[name] ELSE overrides[name]]

-----------------------------------------------------------------------------
(* Config::from_env, of which preview_overrides computes the same fields   *)
(* from the map as it would be.                                            *)
ListenAddr(env, overrides) ==
  [host |-> Parsed(Setting(env, overrides, "HOST"), DefaultListen.host),
   port |-> Parsed(Setting(env, overrides, "PORT"), DefaultListen.port)]

UpstreamUrl(env, overrides) == Parsed(Setting(env, overrides, "UPSTREAM"), DefaultUpstream)

CompressionEnabled(env, overrides) ==
  Setting(env, overrides, "COMPRESSION") \cap {"0", "false", "off", "no"} = {}

Verbosity(env, overrides) ==
  LET shaper == Setting(env, overrides, "OUTPUT_SHAPER")
  IN  CASE shaper \cap {"terse", "1", "on", "true", "yes"} # {} -> "terse"
        [] shaper \cap {"full", "verbose"} # {} -> "full"
        [] OTHER -> "default"

StabilizationEnabled(env, overrides) ==
  Setting(env, overrides, "STABILIZE") \cap {"1", "true", "on", "yes"} # {}

\* What a request depends on and the operator can change while it is served.
Live(env, overrides) ==
  [compression |-> CompressionEnabled(env, overrides),
   verbosity   |-> Verbosity(env, overrides),
   stabilize   |-> StabilizationEnabled(env, overrides)]

\* rate_limit: zero is not honoured.
RateLimit(env, overrides) ==
  LET limit == Parsed(Setting(env, overrides, "RATE_LIMIT"), DefaultRateLimit)
  IN  IF limit > 0 THEN limit ELSE DefaultRateLimit

MemoryLimit(env, overrides) ==
  LET limit == Parsed(Setting(env, overrides, "MEMORY_LIMIT"), DefaultMemoryLimit)
  IN  IF limit > 0 THEN limit ELSE DefaultMemoryLimit

SafetyLimits(env, overrides) ==
  [bytes |-> Parsed(Setting(env, overrides, "MAX_BYTES"), DefaultLimits.bytes),
   lines |-> Parsed(Setting(env, overrides, "MAX_LINES"), DefaultLimits.lines)]

(* ccr_store_with_kind: what cannot be opened is passed over.              *)
CcrStoreKind(env, overrides, opens) ==
  CASE Setting(env, overrides, "REDIS_URL") # {} /\ "redis" \in opens -> "redis"
    [] /\ Setting(env, overrides, "REDIS_URL") = {} \/ "redis" \notin opens
       /\ Setting(env, overrides, "CCR_DIR") # {} /\ "file" \in opens -> "file"
    [] OTHER -> "memory"

SurvivesRestart(kind) == kind # "memory"

\* accept_if_compatible: the embedder is the one that wrote the vectors of the database.
Compatible(opens) == "same embedder" \in opens

\* resolve_embedder: both files are named, and it loads.
Embedder(env, overrides, opens) ==
  /\ \A name \in {"LINKED_MEMORY_MODEL", "LINKED_MEMORY_TOKENIZER"} :
       Setting(env, overrides, name) # {}
  /\ "embedder" \in opens /\ Compatible(opens)

\* LinkedMemory::resolve: without a database no memories, without an embedder by keyword.
LinkedMemory(env, overrides, opens) ==
  CASE Setting(env, overrides, "LINKED_MEMORY_DB") = {} \/ "database" \notin opens -> "off"
    [] Setting(env, overrides, "LINKED_MEMORY_DB") # {} /\ "database" \in opens ->
         IF Embedder(env, overrides, opens) THEN "semantic" ELSE "keyword"

PersistentStoreRequested(env, overrides) ==
  \E name \in {"REDIS_URL", "CCR_DIR"} : Setting(env, overrides, name) # {}

\* websocket_url
WebsocketUrl(url) ==
  [url EXCEPT !.scheme = CASE @ = "https" -> "wss" [] @ = "http" -> "ws" [] OTHER -> @]
=============================================================================
