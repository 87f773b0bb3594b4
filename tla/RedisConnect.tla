----------------------------- MODULE RedisConnect -----------------------------
(***************************************************************************)
(* From a configuration to a connection: RedisPool::connect and ::new      *)
(* (src/src/pool/lifecycle.rs, pool/connect.rs) and                        *)
(* RedisPubSub::connect_config (src/src/pubsub.rs), with every wait and    *)
(* its timer.  One call, from reading the configuration to the pool or the *)
(* session it returns.                                                     *)
(*                                                                         *)
(* The driver and the server appear as waits that may end well, badly or   *)
(* not at all.  Time advances by Tick, and never past a timer that is due. *)
(***************************************************************************)
EXTENDS RedisConfig

CONSTANTS
  Sources,          \* what the caller starts from, see SourceType
  Channels,         \* number of channels a Pub/Sub session is asked for
  connect_timeout,  \* RedisConfig
  command_timeout,
  DriverWait        \* the longest the driver takes over a command: its
                    \* response_timeout, more if it has to reconnect

(* entry: how the configuration is made; url: REDIS_URL or the URL given;  *)
(* raw: the other settings; use: what is called with the result.           *)
SourceType ==
  [entry : {"build", "url", "env", "toml"}, url : Forms, raw : Configs,
   use : {"pool", "new", "pubsub"}]

ASSUME ConnectAssumption ==
  /\ Sources \subseteq SourceType
  /\ Channels \in Nat
  /\ connect_timeout \in Nat \ {0} /\ command_timeout \in Nat \ {0}
  /\ DriverWait \in Nat \ {0}

VARIABLES
  source,   \* the caller's choice
  cfg,      \* the RedisConfig
  now,      \* time since the call
  pc,       \* where the call is
  due,      \* when the wait it is in ends at the latest
  error,    \* kind of the error returned, or "None"
  dialled,  \* history: addresses the driver was to dial, and how
  open,     \* connections open
  left      \* PINGs or subscriptions still to make

vars == <<source, cfg, now, pc, due, error, dialled, open, left>>

Dialling == {"discover", "dial", "listen"}  \* under connect_timeout
Settling == {"setname", "warmup"}           \* results are ignored
Pcs ==
  {"load", "check", "subscribe", "ok", "err", "panicked"} \cup Dialling \cup Settling

Init ==
  /\ source \in Sources
  /\ cfg = Default
  /\ now = 0 /\ pc = "load" /\ due = 0
  /\ error = "None"
  /\ dialled = {} /\ open = {}
  /\ left = 0

(* Bug: a deadline is counted from the start of the call. *)
WaitIn_FromStart(where, budget) ==
  /\ pc' = where
  /\ due' = budget

WaitIn(where, budget) ==
  /\ pc' = where
  /\ due' = now + budget

(* The call returns an error and drops what it had opened. *)
Fail(e) ==
  /\ error' = e
  /\ open' = {}
  /\ WaitIn("err", 0)

(* Bug: the connection outlives the panic. *)
FromParts_Leaks(backend) ==
  /\ open' = backend
  /\ WaitIn(IF cfg.limits = "huge" THEN "panicked" ELSE "ok", 0)

(* from_parts makes the pool of its backend.  Semaphore::new panics if     *)
(* max_in_flight is more than it can hold, and all there is is dropped.    *)
FromParts(backend) ==
  IF cfg.limits = "huge"
  THEN open' = {} /\ WaitIn("panicked", 0)
  ELSE open' = backend /\ WaitIn("ok", 0)

-----------------------------------------------------------------------------
(* The configuration. *)

FromUrl ==
  \/ source.entry = "url"
  \/ source.entry = "env" /\ source.url # "blank"

Loaded ==
  CASE source.entry = "url"  -> from_url(source.url)
    [] source.entry = "env"  -> from_env(source.url, source.raw)
    [] source.entry = "toml" -> from_toml(source.raw)
    [] OTHER                 -> build(source.raw)

Load ==
  /\ pc = "load"
  /\ \/ /\ Loaded = {}
        /\ Fail(IF FromUrl /\ source.url = "unix" THEN "Unsupported" ELSE "Config")
        /\ UNCHANGED cfg
     \/ /\ cfg' \in Loaded
        /\ WaitIn("check", 0)
        /\ UNCHANGED <<error, open>>
  /\ UNCHANGED <<source, now, dialled, left>>

(* RedisPool::new checks the configuration, which every entry has already  *)
(* done, and connects nothing.                                             *)
New ==
  /\ pc = "check" /\ source.use = "new"
  /\ IF validate(cfg)
     THEN FromParts({}) /\ UNCHANGED error
     ELSE Fail("Config")
  /\ UNCHANGED <<source, cfg, now, dialled, left>>

(* An address and what the driver is given for it. *)
Dialable == [to : Forms \cup {"nowhere", "master"}, info : Infos]

(* The address of a single server. *)
Server == [to |-> HostOf(cfg.addr), info |-> PlainInfo(cfg)]

(* The addresses a pool dials first. *)
FirstInfos ==
  IF cfg.mode = "Standalone" THEN {Server} ELSE seed_connection_infos(cfg)

Usable ==
  /\ validate(cfg)
  /\ cfg.mode = "Standalone" \/ seeds_ok(cfg)
  /\ cfg.mode = "Sentinel" => cfg.sentinel_master # "none"

(* RedisPool::connect up to the first await. *)
Connect ==
  /\ pc = "check" /\ source.use = "pool"
  /\ \/ ~Usable /\ Fail("Config") /\ UNCHANGED dialled
     \/ /\ Usable
        /\ dialled' = FirstInfos
        /\ WaitIn(IF cfg.mode = "Sentinel" THEN "discover" ELSE "dial",
                  connect_timeout)
        /\ UNCHANGED <<error, open>>
  /\ UNCHANGED <<source, cfg, now, left>>

(* Bug: a Cluster's seed is taken for a single server. *)
ConnectPubSub_AnyMode ==
  /\ pc = "check" /\ source.use = "pubsub"
  /\ dialled' = {Server}
  /\ WaitIn("dial", connect_timeout)
  /\ UNCHANGED <<source, cfg, now, error, open, left>>

(* connect_config up to the first await: pubsub_connection_info refuses    *)
(* all topologies but one.                                                 *)
ConnectPubSub ==
  /\ pc = "check" /\ source.use = "pubsub"
  /\ \/ cfg.mode # "Standalone" /\ Fail("Unsupported") /\ UNCHANGED dialled
     \/ /\ cfg.mode = "Standalone"
        /\ dialled' = {Server}
        /\ WaitIn("dial", connect_timeout)
        /\ UNCHANGED <<error, open>>
  /\ UNCHANGED <<source, cfg, now, left>>

-----------------------------------------------------------------------------
(* A pool's connection. *)

(* Bug: the database of the master is left to the driver, which takes 0. *)
Discovered_NoDatabase ==
  /\ pc = "discover"
  /\ dialled' =
       dialled \cup {[to |-> "master", info |-> [PlainInfo(cfg) EXCEPT !.db = 0]]}
  /\ WaitIn("dial", connect_timeout)
  /\ UNCHANGED <<source, cfg, now, error, open, left>>

(* A sentinel named the master, which is dialled with the configuration's  *)
(* TLS, database and credentials, whatever the sentinel was dialled with.  *)
Discovered ==
  /\ pc = "discover"
  /\ dialled' = dialled \cup {[to |-> "master", info |-> PlainInfo(cfg)]}
  /\ WaitIn("dial", connect_timeout)
  /\ UNCHANGED <<source, cfg, now, error, open, left>>

(* n PINGs are still to be sent before the pool is returned. *)
Ping(n) ==
  /\ left' = n
  /\ IF n = 0 THEN FromParts({"command"})
     ELSE open' = {"command"} /\ WaitIn("warmup", DriverWait)

(* CLIENT SETNAME if there is a name, then the PINGs. *)
SetUp ==
  \/ /\ cfg.client_name
     /\ WaitIn("setname", DriverWait)
     /\ open' = {"command"}
     /\ UNCHANGED left
  \/ ~cfg.client_name /\ Ping(cfg.warmup_count)

(* No connection is ever made to a name that nobody has. *)
Opened ==
  /\ pc = "dial" /\ \A d \in dialled : d.to # "nowhere"
  /\ \/ source.use = "pool" /\ SetUp
     \/ /\ source.use = "pubsub" /\ open' = {"publish"}
        /\ WaitIn("listen", connect_timeout)
        /\ UNCHANGED left
  /\ UNCHANGED <<source, cfg, now, error, dialled>>

(* Bug: one PING too many. *)
Settled_OffByOne ==
  /\ pc \in Settling
  /\ \/ pc = "setname" /\ Ping(cfg.warmup_count + 1)
     \/ pc = "warmup" /\ Ping(left - 1)
  /\ UNCHANGED <<source, cfg, now, error, dialled>>

(* SETNAME or a PING is over: answered, failed or given up, all the same.  *)
Settled ==
  /\ pc \in Settling
  /\ \/ pc = "setname" /\ Ping(cfg.warmup_count)
     \/ pc = "warmup" /\ Ping(left - 1)
  /\ UNCHANGED <<source, cfg, now, error, dialled>>

-----------------------------------------------------------------------------
(* A Pub/Sub session's second connection and its subscriptions. *)

Subscribe(n) ==
  /\ left' = n
  /\ IF n = 0 THEN WaitIn("ok", 0) ELSE WaitIn("subscribe", command_timeout)

Listening ==
  /\ pc = "listen"
  /\ open' = open \cup {"subscriber"}
  /\ Subscribe(Channels)
  /\ UNCHANGED <<source, cfg, now, error, dialled>>

(* Bug: the session is returned after the first channel. *)
Subscribed_First ==
  /\ pc = "subscribe"
  /\ left' = left - 1
  /\ WaitIn("ok", 0)
  /\ UNCHANGED <<source, cfg, now, error, dialled, open>>

Subscribed ==
  /\ pc = "subscribe"
  /\ Subscribe(left - 1)
  /\ UNCHANGED <<source, cfg, now, error, dialled, open>>

-----------------------------------------------------------------------------
(* A wait goes wrong. *)

Failed ==
  /\ pc \in Dialling \cup {"subscribe"}
  /\ Fail("Connection")
  /\ UNCHANGED <<source, cfg, now, dialled, left>>

(* Bug: the wait for the sentinels has no timer. *)
TimeOut_NotDiscover ==
  /\ pc \in {"dial", "listen", "subscribe"} /\ now = due
  /\ Fail("Timeout")
  /\ UNCHANGED <<source, cfg, now, dialled, left>>

TimeOut ==
  /\ pc \in Dialling \cup {"subscribe"} /\ now = due
  /\ Fail("Timeout")
  /\ UNCHANGED <<source, cfg, now, dialled, left>>

Tick ==
  /\ now < due
  /\ now' = now + 1
  /\ UNCHANGED <<source, cfg, pc, due, error, dialled, open, left>>

Next ==
  \/ Load \/ New \/ Connect \/ ConnectPubSub
  \/ Discovered \/ Opened \/ Settled
  \/ Listening \/ Subscribed
  \/ Failed \/ TimeOut \/ Tick

Spec == Init /\ [][Next]_vars

(* Time passes, the task is polled when it is ready or its own timer is    *)
(* due, and the driver gives up SETNAME or PING after DriverWait; no       *)
(* server need ever answer.                                                *)
FairSpec ==
  Spec /\ WF_vars(Tick) /\ WF_vars(Load) /\ WF_vars(New) /\ WF_vars(Connect)
       /\ WF_vars(ConnectPubSub) /\ WF_vars(TimeOut)
       /\ WF_vars(now = due /\ Settled)

-----------------------------------------------------------------------------
(* Every variable has its type, and no wait is overdue. *)
TypeOK ==
  /\ source \in SourceType /\ cfg \in Configs
  /\ now \in Nat /\ pc \in Pcs /\ due \in Nat /\ now <= due
  /\ error \in {"None", "Config", "Unsupported", "Connection", "Timeout"}
  /\ dialled \subseteq Dialable
  /\ open \subseteq {"command", "publish", "subscriber"}
  /\ left \in Nat

(* What the caller asked for, by whatever entry the configuration came: a  *)
(* URL is all there is to it, and otherwise it is the settings.            *)
AskedTls == IF FromUrl THEN source.url = "url_tls" ELSE source.raw.tls
AskedDb  ==
  IF FromUrl THEN IF source.url = "url_db" THEN 1 ELSE 0 ELSE source.raw.db

AskedPassword == IF FromUrl THEN "url" ELSE source.raw.password

AskedUsername ==
  CASE FromUrl -> "url"
    [] ~FromUrl /\ source.entry = "env" /\ source.raw.username = "none" -> "default"
    [] ~FromUrl /\ source.entry # "build" /\ source.raw.username = "blank" -> "none"
    [] OTHER -> source.raw.username

(* A seed that is a URL asks for TLS and credentials of its own, which     *)
(* count for that address alone.                                           *)
Asked(to) ==
  LET orOwn(set) == IF set = "none" /\ to \in UrlForms THEN "url" ELSE set
  IN [tls      |-> IF AskedTls \/ to = "url_tls" THEN "on" ELSE "off",
      username |-> orOwn(AskedUsername),
      password |-> orOwn(AskedPassword),
      db       |-> AskedDb]

(* Every address is dialled with the TLS, the user name, the password and  *)
(* the database asked for in the settings, the URL or the seed's own URL,  *)
(* in whatever form the seed was written, and never with a TLS that checks *)
(* no certificates (connection_info_for_seed, validate_seed, from_url).    *)
(* The scheme of a sentinel's URL protects that sentinel only: the master  *)
(* it names has TLS when the settings say so (connect_sentinel).  And a    *)
(* single server's address is no URL: one written there is taken for the   *)
(* name of a host, which does not exist, so the call fails                 *)
(* (parse_host_port).                                                      *)
DialledAsConfigured == \A d \in dialled : d.info = Asked(d.to)

(* What a configuration makes impossible is refused before any address is  *)
(* dialled; in particular a session never falls back to a seed of a        *)
(* cluster or to a sentinel (pubsub_connection_info, connect).             *)
RefusedOffline ==
  /\ error \in {"Config", "Unsupported"} => dialled = {}
  /\ source.use = "pubsub" /\ dialled # {} => cfg.mode = "Standalone"

(* A session that is returned has both connections and all its channels, a *)
(* pool its connection; any call that fails, or panics because it finds at *)
(* its very end that max_in_flight is too much, leaves no connection,      *)
(* whatever it had subscribed (connect_config, from_parts).                *)
AllOrNothing ==
  /\ pc \in {"err", "panicked"} => open = {}
  /\ pc = "ok" /\ source.use = "pool" => open = {"command"}
  /\ pc = "ok" /\ source.use = "pubsub" =>
       open = {"publish", "subscriber"} /\ left = 0

(* However slow everybody is, the call is over after its timers in a row,  *)
(* which is more than one connect_timeout: two with sentinels or Pub/Sub,  *)
(* and the driver's own limit for each command of the set-up.              *)
Longest ==
  CASE source.use = "pubsub" -> 2 * connect_timeout + Channels * command_timeout
    [] OTHER ->
         (IF cfg.mode = "Sentinel" THEN 2 ELSE 1) * connect_timeout
           + (IF cfg.client_name THEN 1 + cfg.warmup_count ELSE cfg.warmup_count)
               * DriverWait

EndsInTime == now <= Longest

(* Every call returns, even if no server ever answers. *)
Returns == <>(pc \in {"ok", "err", "panicked"})
=============================================================================
