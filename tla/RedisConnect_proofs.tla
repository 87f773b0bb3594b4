------------------------- MODULE RedisConnect_proofs -------------------------
(***************************************************************************)
(* Safety of connecting for every set of sources, every number of channels *)
(* and PINGs and all timeouts: what is dialled is dialled as asked for,    *)
(* what cannot work is refused offline, a call leaves all its connections  *)
(* or none, and it ends within the sum of its timers.                      *)
(*                                                                         *)
(* The argument for the deadline is a budget: what the present wait and    *)
(* those still ahead may take together never exceeds Longest.  Each wait   *)
(* begins now and spends its part of what was ahead (Spend).  The argument *)
(* for what is dialled goes from what the caller asked for over the entry  *)
(* (LoadedTypes) and the checks to the parameters (SeedKept).              *)
(***************************************************************************)
EXTENDS RedisConnect, TLAPS

(* A loaded configuration says what was asked for.                         *)
Heeded(c) ==
  /\ c.tls = AskedTls /\ c.db = AskedDb
  /\ c.username = AskedUsername /\ c.password = AskedPassword

(* Nothing is dialled yet.                                                 *)
Loading == {"load", "check"}

(* What is dialled and open at each point of the call.                     *)
Phases ==
  /\ pc \in Loading => dialled = {} /\ open = {} /\ due = 0
  /\ pc \notin {"load", "err"} \/ dialled # {} => Heeded(cfg)
  /\ error # "None" => pc = "err"
  /\ error \in {"Config", "Unsupported"} => dialled = {}
  /\ source.use = "pubsub" /\ dialled # {} => cfg.mode = "Standalone"
  /\ pc = "discover" => source.use = "pool" /\ open = {}
  /\ pc = "dial" => source.use \in {"pool", "pubsub"} /\ open = {}
  /\ pc \in Settling => source.use = "pool" /\ open = {"command"}
  /\ pc = "listen" => source.use = "pubsub" /\ open = {"publish"}
  /\ pc = "subscribe" =>
       source.use = "pubsub" /\ open = {"publish", "subscriber"}

(* The time the waits after the present one may take.                      *)
SetUpTime ==
  (IF cfg.client_name THEN 1 + cfg.warmup_count ELSE cfg.warmup_count)
    * DriverWait

Ahead ==
  CASE pc = "discover"  -> connect_timeout + SetUpTime
    [] pc = "dial"      -> IF source.use = "pool" THEN SetUpTime
                           ELSE connect_timeout + Channels * command_timeout
    [] pc = "setname"   -> cfg.warmup_count * DriverWait
    [] pc = "warmup"    -> (left - 1) * DriverWait
    [] pc = "listen"    -> Channels * command_timeout
    [] pc = "subscribe" -> (left - 1) * command_timeout
    [] OTHER            -> 0

(* The call will be over in time, whatever is still to be waited for.      *)
Punctual ==
  /\ due + Ahead <= Longest
  /\ pc = "setname" => cfg.client_name
  /\ pc \in {"warmup", "subscribe"} => left >= 1

(* The inductive invariant.                                                *)
IInv == TypeOK /\ DialledAsConfigured /\ Phases /\ AllOrNothing /\ Punctual

-----------------------------------------------------------------------------
(* What is known of the constants.                                         *)
LEMMA Bounds ==
  /\ Sources \subseteq SourceType /\ Channels \in Nat
  /\ connect_timeout \in Nat /\ command_timeout \in Nat /\ DriverWait \in Nat
BY ConnectAssumption DEF ConnectAssumption

(* One wait and the rest of its kind.                                      *)
LEMMA Products ==
  ASSUME NEW a \in Nat, NEW b \in Nat
  PROVE  /\ a * b \in Nat /\ (1 + a) * b = b + a * b
         /\ a >= 1 => (a - 1) * b \in Nat /\ (a - 1) * b + b = a * b
OBVIOUS

(* Every entry makes a configuration that says what was asked for.         *)
LEMMA DefaultType == Default \in Configs
BY DEF Default, Configs, Modes, Forms, Passwords, Usernames

LEMMA UrlTypes ==
  ASSUME NEW form \in Forms, NEW c \in from_url(form)
  PROVE  /\ c \in Configs /\ c.tls = (form = "url_tls")
         /\ c.db = IF form = "url_db" THEN 1 ELSE 0
         /\ c.username = "url" /\ c.password = "url"
<1> DEFINE d == [Default EXCEPT !.tls = (form = "url_tls"),
                                !.db = IF form = "url_db" THEN 1 ELSE 0,
                                !.username = "url", !.password = "url"]
<1>1. c = d
  BY DEF from_url, Accepted
<1>2. d \in Configs
  <2>1. /\ "url" \in Passwords /\ "url" \in Usernames
        /\ (form = "url_tls") \in BOOLEAN
        /\ (IF form = "url_db" THEN 1 ELSE 0) \in Int
    BY DEF Passwords, Usernames
  <2>2. QED  BY <2>1, DefaultType DEF Configs
<1>3. /\ d.tls = (form = "url_tls") /\ d.username = "url" /\ d.password = "url"
      /\ d.db = IF form = "url_db" THEN 1 ELSE 0
  BY DEF Default
<1>4. QED  BY <1>1, <1>2, <1>3

LEMMA FilledType ==
  ASSUME NEW raw \in Configs
  PROVE  /\ Filled(raw) \in Configs
         /\ Filled(raw).tls = raw.tls /\ Filled(raw).db = raw.db
         /\ Filled(raw).password = raw.password
         /\ Filled(raw).username =
              IF raw.username = "blank" THEN "none" ELSE raw.username
<1>1. Default.addr \in Forms /\ "none" \in Usernames
  BY DEF Default, Forms, Usernames, Passwords
<1>2. Filled(raw) \in Configs
  BY <1>1 DEF Filled, Configs
<1>3. QED  BY <1>2 DEF Filled, Configs

LEMMA LoadedTypes ==
  ASSUME source \in SourceType, NEW c \in Loaded
  PROVE  c \in Configs /\ Heeded(c)
<1>1. source.entry \in {"build", "url", "env", "toml"} /\ source.url \in Forms
      /\ source.raw \in Configs
  BY DEF SourceType
<1>2. CASE FromUrl
  <2>1. c \in from_url(source.url)
    BY <1>2 DEF FromUrl, Loaded, from_env
  <2>2. QED
    BY <1>1, <1>2, <2>1, UrlTypes
       DEF Heeded, AskedTls, AskedDb, AskedUsername, AskedPassword
<1>3. CASE ~FromUrl
  <2>1. source.entry # "url" /\ (source.entry = "env" => source.url = "blank")
    BY <1>3 DEF FromUrl
  <2>2. /\ AskedTls = source.raw.tls /\ AskedDb = source.raw.db
        /\ AskedPassword = source.raw.password
    BY <1>3 DEF AskedTls, AskedDb, AskedPassword
  <2>3. CASE source.entry = "env"
    <3>1. c = [Filled(source.raw) EXCEPT
                 !.username = IF source.raw.username = "none" THEN "default"
                              ELSE @,
                 !.client_name = FALSE]
      BY <2>1, <2>3 DEF Loaded, from_env, Accepted
    <3>2. "default" \in Usernames
      BY DEF Usernames
    <3>3. /\ c \in Configs
          /\ c.tls = source.raw.tls /\ c.db = source.raw.db
          /\ c.password = source.raw.password
          /\ c.username = IF source.raw.username = "none" THEN "default"
                          ELSE Filled(source.raw).username
      BY <1>1, <3>1, <3>2, FilledType DEF Configs
    <3>4. AskedUsername =
            IF source.raw.username = "none" THEN "default"
            ELSE Filled(source.raw).username
      BY <1>1, <1>3, <2>3, FilledType DEF AskedUsername
    <3>5. QED  BY <2>2, <3>3, <3>4 DEF Heeded
  <2>4. CASE source.entry = "toml"
    <3>1. c = Filled(source.raw)
      BY <2>4 DEF Loaded, from_toml, Accepted
    <3>2. AskedUsername = Filled(source.raw).username
      BY <1>1, <1>3, <2>4, FilledType DEF AskedUsername
    <3>3. QED  BY <1>1, <2>2, <3>1, <3>2, FilledType DEF Heeded
  <2>5. CASE source.entry = "build"
    <3>1. c = source.raw
      BY <2>5 DEF Loaded, build, Accepted
    <3>2. AskedUsername = source.raw.username
      BY <1>3, <2>5 DEF AskedUsername
    <3>3. QED  BY <1>1, <2>2, <3>1, <3>2 DEF Heeded
  <2>6. QED  BY <1>1, <2>1, <2>3, <2>4, <2>5
<1>4. QED  BY <1>2, <1>3

(* What the caller asked for does not change.                              *)
LEMMA SameAsked ==
  ASSUME UNCHANGED source, NEW to
  PROVE  Asked(to)' = Asked(to)
BY DEF Asked, AskedTls, AskedDb, AskedUsername, AskedPassword, FromUrl

LEMMA SameHeeded ==
  ASSUME UNCHANGED <<source, cfg>>
  PROVE  Heeded(cfg)' <=> Heeded(cfg)
BY DEF Heeded, AskedTls, AskedDb, AskedUsername, AskedPassword, FromUrl

LEMMA SameDialled ==
  ASSUME DialledAsConfigured, UNCHANGED <<source, dialled>>
  PROVE  DialledAsConfigured'
<1>1. \A d \in dialled : d.info = Asked(d.to) /\ Asked(d.to)' = Asked(d.to)
  BY SameAsked DEF DialledAsConfigured
<1>2. QED  BY <1>1 DEF DialledAsConfigured

(* An address is dialled as asked for.                                     *)
Kept(d) == d \in Dialable /\ d.info = Asked(d.to)

(* The configuration's own parameters suit every address that is no URL.   *)
LEMMA PlainKept ==
  ASSUME cfg \in Configs, Heeded(cfg),
         NEW to \in Forms \cup {"nowhere", "master"}, to \notin UrlForms
  PROVE  Kept([to |-> to, info |-> PlainInfo(cfg)])
<1>1. PlainInfo(cfg) \in Infos
  BY DEF PlainInfo, Configs, Infos
<1>2. PlainInfo(cfg) = Asked(to)
  <2>1. to # "url_tls"
    BY DEF UrlForms
  <2>2. QED  BY <2>1 DEF Heeded, PlainInfo, Asked
<1>3. QED  BY <1>1, <1>2 DEF Kept, Dialable

(* A single server's address is a host, or the name of none.               *)
LEMMA ServerKept ==
  ASSUME cfg \in Configs, Heeded(cfg)
  PROVE  Kept(Server)
<1>1. /\ HostOf(cfg.addr) \in Forms \cup {"nowhere", "master"}
      /\ HostOf(cfg.addr) \notin UrlForms
  BY DEF HostOf, Configs, UrlForms
<1>2. QED  BY <1>1, PlainKept DEF Server

(* A seed keeps no scheme and no credentials against the configuration and *)
(* loses none that the configuration is silent about, and validate lets no *)
(* URL pass that checks no certificates.                                   *)
LEMMA SeedKept ==
  ASSUME cfg \in Configs, Heeded(cfg), validate(cfg), cfg.mode # "Standalone",
         NEW n \in seed_nodes(cfg), NEW i \in connection_info_for_seed(cfg, n)
  PROVE  Kept([to |-> n, info |-> i])
<1>1. n # "url_insecure"
  <2>1. n \in cfg.nodes => validate_seed(n)
    BY DEF validate
  <2>2. n \notin cfg.nodes => n = cfg.addr /\ n # "blank"
    BY DEF seed_nodes
  <2>3. cfg.addr # "blank" => parse_host_port(cfg.addr)
    BY DEF validate
  <2>4. validate_seed(n) => n # "url_insecure"
    BY DEF validate_seed, UrlForms
  <2>5. parse_host_port(n) => n # "url_insecure"
    BY DEF parse_host_port
  <2>6. QED  BY <2>1, <2>2, <2>3, <2>4, <2>5
<1>2. n \in Forms
  BY DEF seed_nodes, Configs
<1>3. CASE n \in UrlForms
  <2>1. i = [tls |-> IF cfg.tls /\ TlsOf(n) = "off" THEN "on" ELSE TlsOf(n),
             username |-> OrOfUrl(cfg.username),
             password |-> OrOfUrl(cfg.password), db |-> cfg.db]
    BY <1>3 DEF connection_info_for_seed
  <2>2. TlsOf(n) = IF n = "url_tls" THEN "on" ELSE "off"
    BY <1>1 DEF TlsOf
  <2>3. /\ cfg.tls \in BOOLEAN /\ cfg.db \in Int
        /\ cfg.password \in Passwords /\ "url" \in Passwords
        /\ cfg.username \in Usernames /\ "url" \in Usernames
    BY DEF Configs, Passwords, Usernames
  <2>4. i \in Infos
    BY <2>1, <2>2, <2>3 DEF OrOfUrl, Infos
  <2>5. i.tls = IF cfg.tls \/ n = "url_tls" THEN "on" ELSE "off"
    BY <2>1, <2>2, <2>3
  <2>6. i = Asked(n)
    BY <1>3, <2>1, <2>5 DEF Heeded, Asked, OrOfUrl
  <2>7. QED  BY <1>2, <2>4, <2>6 DEF Kept, Dialable
<1>4. CASE n \notin UrlForms
  BY <1>2, <1>4, PlainKept DEF connection_info_for_seed
<1>5. QED  BY <1>3, <1>4

LEMMA FirstKept ==
  ASSUME cfg \in Configs, Heeded(cfg), Usable, NEW d \in FirstInfos
  PROVE  Kept(d)
<1>1. CASE cfg.mode = "Standalone"
  BY <1>1, ServerKept DEF FirstInfos
<1>2. CASE cfg.mode # "Standalone"
  <2>1. PICK n \in seed_nodes(cfg) :
          d \in {[to |-> n, info |-> i] : i \in connection_info_for_seed(cfg, n)}
    BY <1>2 DEF FirstInfos, seed_connection_infos
  <2>2. PICK i \in connection_info_for_seed(cfg, n) : d = [to |-> n, info |-> i]
    BY <2>1
  <2>3. QED  BY <1>2, <2>1, <2>2, SeedKept DEF Usable
<1>3. QED  BY <1>1, <1>2

(* What is dialled as asked for keeps the invariant.                       *)
LEMMA Dial ==
  ASSUME TypeOK, DialledAsConfigured, NEW new, \A d \in new : Kept(d),
         dialled' \in {new, dialled \cup new}, UNCHANGED source
  PROVE  DialledAsConfigured' /\ dialled' \subseteq Dialable
<1>1. \A d \in dialled' : d \in Dialable /\ d.info = Asked(d.to)
  BY DEF TypeOK, DialledAsConfigured, Kept
<1>2. \A d \in dialled' : Asked(d.to)' = Asked(d.to)
  BY SameAsked
<1>3. QED  BY <1>1, <1>2 DEF DialledAsConfigured

-----------------------------------------------------------------------------
(* The types of what the times are made of, and Longest as a sum.          *)
LEMMA Types ==
  ASSUME TypeOK
  PROVE  /\ source.use \in {"pool", "new", "pubsub"}
              /\ source.entry \in {"build", "url", "env", "toml"}
         /\ cfg.warmup_count \in Nat /\ cfg.client_name \in BOOLEAN
         /\ now \in Nat /\ due \in Nat /\ now <= due /\ left \in Nat
         /\ cfg.warmup_count * DriverWait \in Nat
         /\ Channels * command_timeout \in Nat
         /\ SetUpTime = (IF cfg.client_name THEN DriverWait ELSE 0)
                          + cfg.warmup_count * DriverWait
         /\ SetUpTime \in Nat
         /\ Longest \in Nat
         /\ Longest = IF source.use = "pubsub"
                        THEN connect_timeout + (connect_timeout + Channels * command_timeout)
                        ELSE (IF cfg.mode = "Sentinel" THEN connect_timeout ELSE 0)
                               + connect_timeout + SetUpTime
<1>1. source.use \in {"pool", "new", "pubsub"}
        /\ source.entry \in {"build", "url", "env", "toml"}
  BY DEF TypeOK, SourceType
<1>2. cfg.warmup_count \in Nat /\ cfg.client_name \in BOOLEAN
  BY DEF TypeOK, Configs
<1>3. cfg.warmup_count * DriverWait \in Nat
        /\ Channels * command_timeout \in Nat
  BY <1>2, Bounds, Products
<1>4. /\ SetUpTime = (IF cfg.client_name THEN DriverWait ELSE 0)
                       + cfg.warmup_count * DriverWait
      /\ SetUpTime \in Nat
  BY <1>2, <1>3, Bounds, Products DEF SetUpTime
<1>5. 2 * connect_timeout = connect_timeout + connect_timeout
      /\ 1 * connect_timeout = connect_timeout
  BY Bounds
<1>6. ASSUME source.use = "pubsub"
      PROVE  Longest = connect_timeout + (connect_timeout + Channels * command_timeout)
  <2>1. Longest = 2 * connect_timeout + Channels * command_timeout
    BY <1>6 DEF Longest
  <2>2. QED  BY <1>3, <1>5, <2>1, Bounds
<1>7. ASSUME source.use # "pubsub"
      PROVE  Longest = (IF cfg.mode = "Sentinel" THEN connect_timeout ELSE 0)
                         + connect_timeout + SetUpTime
  <2>1. Longest = (IF cfg.mode = "Sentinel" THEN 2 ELSE 1) * connect_timeout + SetUpTime
    BY <1>7 DEF Longest, SetUpTime
  <2>2. (IF cfg.mode = "Sentinel" THEN 2 ELSE 1) * connect_timeout
          = (IF cfg.mode = "Sentinel" THEN connect_timeout ELSE 0) + connect_timeout
    BY <1>5, Bounds
  <2>3. QED  BY <2>1, <2>2
<1>8. Longest \in Nat
  BY <1>3, <1>4, <1>6, <1>7, Bounds
<1>9. QED  BY <1>1, <1>2, <1>3, <1>4, <1>6, <1>7, <1>8 DEF TypeOK

LEMMA TypesNext ==
  ASSUME TypeOK'
  PROVE  Longest' \in Nat
<1>1. cfg'.warmup_count \in Nat
  BY DEF TypeOK, Configs
<1>2. CASE source'.use = "pubsub"
  <2>1. Longest' = 2 * connect_timeout + Channels * command_timeout
    BY <1>2 DEF Longest
  <2>2. 2 * connect_timeout \in Nat /\ Channels * command_timeout \in Nat
    BY Bounds, Products
  <2>3. QED  BY <2>1, <2>2
<1>3. CASE source'.use # "pubsub"
  <2>1. PICK k \in {1, 2}, n \in {1 + cfg'.warmup_count, cfg'.warmup_count} :
          Longest' = k * connect_timeout + n * DriverWait
    BY <1>3 DEF Longest
  <2>2. k \in Nat /\ n \in Nat
    BY <1>1
  <2>3. k * connect_timeout \in Nat /\ n * DriverWait \in Nat
    BY <2>2, Bounds, Products
  <2>4. QED  BY <2>1, <2>3
<1>4. QED  BY <1>2, <1>3
(* There is time for what lies ahead.                                      *)
LEMMA TimeLeft ==
  ASSUME IInv
  PROVE  Ahead \in Nat /\ now + Ahead <= Longest
<1>1. TypeOK /\ due + Ahead <= Longest
  BY DEF IInv, Punctual
<1>2. pc \in {"warmup", "subscribe"} =>
        (left - 1) * DriverWait \in Nat /\ (left - 1) * command_timeout \in Nat
  BY <1>1, Types, Bounds, Products DEF IInv, Punctual
<1>3. Ahead \in Nat
  <2>1. CASE pc \in {"warmup", "subscribe"}
    BY <1>2, <2>1 DEF Ahead
  <2>2. CASE pc \notin {"warmup", "subscribe"}
    <3>1. /\ SetUpTime \in Nat /\ Channels * command_timeout \in Nat
          /\ cfg.warmup_count * DriverWait \in Nat
          /\ connect_timeout + SetUpTime \in Nat
          /\ connect_timeout + Channels * command_timeout \in Nat
      BY <1>1, Types, Bounds
    <3>2. QED  BY <2>2, <3>1 DEF Ahead
  <2>3. QED  BY <2>1, <2>2
<1>4. QED  BY <1>1, <1>3, Types

(* What a wait costs is taken from what lay ahead.                         *)
LEMMA Spend ==
  ASSUME IInv, NEW where, NEW b \in Nat, NEW n \in Nat, WaitIn(where, b),
         Longest' = Longest, Ahead' = n, NEW a \in Nat, Ahead = a, b + n <= a
  PROVE  due' + Ahead' <= Longest' /\ due' \in Nat /\ now <= due'
           /\ pc' = where
<1>1. due' = now + b /\ pc' = where
  BY DEF WaitIn
<1>2. now \in Nat /\ Longest \in Nat
  BY Types DEF IInv
<1>3. now + a <= Longest
  BY TimeLeft
<1>4. due' \in Nat /\ now <= due'
  BY <1>1, <1>2
<1>5. due' + n <= Longest
  BY <1>1, <1>2, <1>3
<1>6. QED  BY <1>1, <1>4, <1>5

(* The call is over.                                                       *)
LEMMA Over ==
  ASSUME IInv, NEW where \in {"ok", "err", "panicked"}, WaitIn(where, 0),
         UNCHANGED <<source, cfg>>
  PROVE  Punctual' /\ due' \in Nat /\ now <= due' /\ pc' = where
<1>1. Ahead' = 0 /\ Longest' = Longest /\ pc' = where
  BY DEF WaitIn, Ahead, Longest
<1>2. due' + Ahead' <= Longest' /\ due' \in Nat /\ now <= due'
  <2>1. PICK a \in Nat : Ahead = a
    BY TimeLeft
  <2>2. 0 \in Nat /\ 0 + 0 <= a
    BY <2>1
  <2>3. QED  BY <1>1, <2>1, <2>2, Spend
<1>3. QED  BY <1>1, <1>2 DEF Punctual

(* An error: what was opened is closed.                                    *)
LEMMA Fails ==
  ASSUME IInv,
         NEW e \in {"Config", "Unsupported", "Connection", "Timeout"}, Fail(e),
         e \in {"Config", "Unsupported"} => dialled = {},
         UNCHANGED <<source, cfg, now, dialled, left>>
  PROVE  IInv'
<1>1. /\ Punctual' /\ due' \in Nat /\ now <= due' /\ pc' = "err"
      /\ error' = e /\ open' = {}
  BY Over DEF Fail
<1>2. TypeOK'
  BY <1>1 DEF IInv, TypeOK, Pcs
<1>3. DialledAsConfigured'
  BY SameDialled DEF IInv
<1>4. Phases'
  BY <1>1, SameHeeded DEF IInv, Phases, Loading, Settling
<1>5. AllOrNothing'
  BY <1>1 DEF AllOrNothing
<1>6. QED  BY <1>1, <1>2, <1>3, <1>4, <1>5 DEF IInv

(* from_parts keeps its backend or drops it.                               *)
LEMMA Built ==
  ASSUME IInv, NEW backend \in SUBSET {"command"}, FromParts(backend),
         \/ source.use = "pool" /\ backend = {"command"}
         \/ source.use = "new",
         left' \in Nat, UNCHANGED <<source, cfg, now, error, dialled>>,
         error = "None", pc \notin {"load", "err"}
  PROVE  IInv'
<1>1. PICK where \in {"ok", "panicked"} :
        /\ WaitIn(where, 0)
        /\ open' = IF where = "panicked" THEN {} ELSE backend
  BY DEF FromParts
<1>2. Punctual' /\ due' \in Nat /\ now <= due' /\ pc' = where
  BY <1>1, Over
<1>3. TypeOK'
  BY <1>1, <1>2 DEF IInv, TypeOK, Pcs
<1>4. DialledAsConfigured'
  BY SameDialled DEF IInv
<1>5. Phases'
  BY <1>2, SameHeeded DEF IInv, Phases, Loading, Settling
<1>6. AllOrNothing'
  BY <1>1, <1>2 DEF AllOrNothing
<1>7. QED  BY <1>2, <1>3, <1>4, <1>5, <1>6 DEF IInv

-----------------------------------------------------------------------------
(* The configuration.                                                      *)

LEMMA LoadHolds ==
  ASSUME IInv, Load
  PROVE  IInv'
<1>1. CASE Loaded = {}
  <2>1. /\ Fail(IF FromUrl /\ source.url = "unix" THEN "Unsupported" ELSE "Config")
        /\ dialled = {} /\ UNCHANGED <<source, cfg, now, dialled, left>>
    BY <1>1 DEF Load, IInv, Phases, Loading
  <2>2. QED  BY <2>1, Fails
<1>2. CASE Loaded # {}
  <2>1. /\ pc = "load" /\ cfg' \in Loaded /\ WaitIn("check", 0)
        /\ UNCHANGED <<source, now, error, open, dialled, left>>
    BY <1>2 DEF Load
  <2>2. dialled = {} /\ open = {} /\ due = 0 /\ now = 0 /\ error = "None"
    BY <2>1, Types DEF IInv, Phases, Loading
  <2>3. pc' = "check" /\ due' = 0
    BY <2>1, <2>2 DEF WaitIn
  <2>4. cfg' \in Configs /\ Heeded(cfg')
    BY <2>1, LoadedTypes DEF IInv, TypeOK
  <2>5. Heeded(cfg)'
    BY <2>1, <2>4
       DEF Heeded, AskedTls, AskedDb, AskedUsername, AskedPassword, FromUrl
  <2>6. TypeOK'
    BY <2>1, <2>2, <2>3, <2>4 DEF IInv, TypeOK, Pcs
  <2>7. Longest' \in Nat
    BY <2>6, TypesNext
  <2>8. Punctual'
    BY <2>3, <2>7 DEF Punctual, Ahead
  <2>9. DialledAsConfigured'
    BY <2>1, <2>2 DEF DialledAsConfigured
  <2>10. Phases'
    BY <2>1, <2>2, <2>3, <2>5 DEF Phases, Loading, Settling
  <2>11. AllOrNothing'
    BY <2>3 DEF AllOrNothing
  <2>12. QED  BY <2>6, <2>8, <2>9, <2>10, <2>11 DEF IInv
<1>3. QED  BY <1>1, <1>2

LEMMA NewHolds ==
  ASSUME IInv, New
  PROVE  IInv'
<1>1. /\ source.use = "new" /\ pc = "check" /\ dialled = {} /\ error = "None"
      /\ left \in Nat /\ UNCHANGED <<source, cfg, now, dialled, left>>
  BY DEF New, IInv, Phases, Loading, TypeOK
<1>2. CASE validate(cfg)
  BY <1>1, <1>2, Built DEF New
<1>3. CASE ~validate(cfg)
  BY <1>1, <1>3, Fails DEF New
<1>4. QED  BY <1>2, <1>3

(* A call that may dial starts with all its time before it.                *)
LEMMA Dials ==
  ASSUME IInv, pc = "check", NEW new, \A d \in new : Kept(d), dialled' = new,
         NEW where \in {"discover", "dial"}, WaitIn(where, connect_timeout),
         source.use \in {"pool", "pubsub"},
         source.use = "pubsub" => cfg.mode = "Standalone" /\ where = "dial",
         where = "discover" => cfg.mode = "Sentinel",
         UNCHANGED <<source, cfg, now, error, open, left>>
  PROVE  IInv'
<1>1. TypeOK
  BY DEF IInv
<1>2. open = {} /\ due = 0 /\ now = 0 /\ error = "None" /\ Heeded(cfg)
  BY Types DEF IInv, Phases, Loading
<1>3. DialledAsConfigured' /\ dialled' \subseteq Dialable
  BY <1>2, Dial DEF IInv
<1>4. pc' = where /\ due' = connect_timeout
  BY <1>2, Bounds DEF WaitIn
<1>5. TypeOK'
  BY <1>1, <1>2, <1>3, <1>4, Bounds DEF TypeOK, Pcs, Dialling
<1>6. Longest' = Longest /\ SetUpTime' = SetUpTime
  BY DEF Longest, SetUpTime
<1>7. due' + Ahead' <= Longest
  <2>1. CASE where = "discover"
    <3>1. Ahead' = connect_timeout + SetUpTime
      BY <1>4, <1>6, <2>1 DEF Ahead
    <3>2. Longest = connect_timeout + connect_timeout + SetUpTime
      BY <1>1, <2>1, Types
    <3>3. QED  BY <1>1, <1>4, <3>1, <3>2, Types, Bounds
  <2>2. CASE where = "dial" /\ source.use = "pool"
    <3>1. Ahead' = SetUpTime
      BY <1>4, <1>6, <2>2 DEF Ahead
    <3>2. Longest >= connect_timeout + SetUpTime
      BY <1>1, <2>2, Types, Bounds
    <3>3. QED  BY <1>1, <1>4, <3>1, <3>2, Types, Bounds
  <2>3. CASE where = "dial" /\ source.use = "pubsub"
    <3>1. Ahead' = connect_timeout + Channels * command_timeout
      BY <1>4, <2>3 DEF Ahead
    <3>2. Longest = connect_timeout + (connect_timeout + Channels * command_timeout)
      BY <1>1, <2>3, Types
    <3>3. QED  BY <1>1, <1>4, <3>1, <3>2, Types, Bounds
  <2>4. QED  BY <2>1, <2>2, <2>3
<1>8. Punctual'
  BY <1>4, <1>6, <1>7 DEF Punctual
<1>9. Phases'
  BY <1>2, <1>4, SameHeeded DEF Phases, Loading, Settling
<1>10. AllOrNothing'
  BY <1>4 DEF AllOrNothing
<1>11. QED  BY <1>3, <1>5, <1>8, <1>9, <1>10 DEF IInv

LEMMA ConnectHolds ==
  ASSUME IInv, Connect
  PROVE  IInv'
<1>1. /\ pc = "check" /\ source.use = "pool" /\ dialled = {} /\ cfg \in Configs
      /\ Heeded(cfg)
  BY DEF Connect, IInv, Phases, Loading, TypeOK
<1>2. CASE ~Usable
  <2>1. Fail("Config") /\ UNCHANGED <<source, cfg, now, dialled, left>>
    BY <1>2 DEF Connect
  <2>2. QED  BY <1>1, <2>1, Fails
<1>3. CASE Usable
  <2>1. /\ dialled' = FirstInfos
        /\ WaitIn(IF cfg.mode = "Sentinel" THEN "discover" ELSE "dial",
             connect_timeout)
        /\ UNCHANGED <<source, cfg, now, error, open, left>>
    BY <1>3 DEF Connect
  <2>2. \A d \in FirstInfos : Kept(d)
    BY <1>1, <1>3, FirstKept
  <2>3. QED  BY <1>1, <2>1, <2>2, Dials
<1>4. QED  BY <1>2, <1>3

LEMMA ConnectPubSubHolds ==
  ASSUME IInv, ConnectPubSub
  PROVE  IInv'
<1>1. /\ pc = "check" /\ source.use = "pubsub" /\ dialled = {}
      /\ cfg \in Configs /\ Heeded(cfg)
  BY DEF ConnectPubSub, IInv, Phases, Loading, TypeOK
<1>2. CASE cfg.mode # "Standalone"
  <2>1. Fail("Unsupported") /\ UNCHANGED <<source, cfg, now, dialled, left>>
    BY <1>2 DEF ConnectPubSub
  <2>2. QED  BY <1>1, <2>1, Fails
<1>3. CASE cfg.mode = "Standalone"
  <2>1. /\ dialled' = {Server} /\ WaitIn("dial", connect_timeout)
        /\ UNCHANGED <<source, cfg, now, error, open, left>>
    BY <1>3 DEF ConnectPubSub
  <2>2. \A d \in {Server} : Kept(d)
    BY <1>1, ServerKept
  <2>3. QED  BY <1>1, <1>3, <2>1, <2>2, Dials
<1>4. QED  BY <1>2, <1>3
-----------------------------------------------------------------------------
(* The waits.                                                              *)

(* A wait after the first keeps the invariant if its part of the budget is *)
(* there and the connections are those of its phase.                       *)
LEMMA Waits ==
  ASSUME IInv, error = "None",
         NEW where \in {"dial", "setname", "warmup", "listen", "subscribe"},
         NEW b \in Nat, WaitIn(where, b), NEW a \in Nat, Ahead = a,
         NEW n \in Nat, Ahead' = n, b + n <= a,
         UNCHANGED <<source, cfg, now, error>>, left' \in Nat,
         dialled' \subseteq Dialable, DialledAsConfigured',
         Heeded(cfg),
         source.use = "pubsub" /\ dialled' # {} => cfg.mode = "Standalone",
         where = "dial" => source.use = "pool" /\ open' = {},
         where \in Settling => source.use = "pool" /\ open' = {"command"},
         where = "setname" => cfg.client_name,
         where = "listen" => source.use = "pubsub" /\ open' = {"publish"},
         where = "subscribe" =>
           source.use = "pubsub" /\ open' = {"publish", "subscriber"},
         where \in {"warmup", "subscribe"} => left' >= 1
  PROVE  IInv'
<1>1. Longest' = Longest
  BY DEF Longest
<1>2. due' + Ahead' <= Longest' /\ due' \in Nat /\ now <= due' /\ pc' = where
  BY <1>1, Spend
<1>3. open' \subseteq {"command", "publish", "subscriber"}
  BY DEF Settling
<1>4. TypeOK'
  BY <1>2, <1>3 DEF IInv, TypeOK, Pcs, Dialling, Settling
<1>5. Punctual'
  BY <1>2 DEF Punctual
<1>6. Phases'
  BY <1>2, SameHeeded DEF Phases, Loading, Settling
<1>7. AllOrNothing'
  BY <1>2 DEF AllOrNothing
<1>8. QED  BY <1>4, <1>5, <1>6, <1>7 DEF IInv

(* What a wait that keeps the addresses may take from the invariant.       *)
LEMMA Dialled ==
  ASSUME IInv, pc \in Dialling \cup Settling \cup {"subscribe"},
         UNCHANGED <<source, cfg, dialled>>
  PROVE  /\ error = "None" /\ dialled' \subseteq Dialable /\ DialledAsConfigured'
         /\ Heeded(cfg)
         /\ source.use = "pubsub" /\ dialled' # {} => cfg.mode = "Standalone"
<1>1. error = "None" /\ dialled' \subseteq Dialable
  BY DEF IInv, TypeOK, Phases, Dialling, Settling
<1>2. DialledAsConfigured'
  BY SameDialled DEF IInv
<1>3. QED  BY <1>1, <1>2 DEF IInv, Phases, Dialling, Settling

LEMMA DiscoveredHolds ==
  ASSUME IInv, Discovered
  PROVE  IInv'
<1> DEFINE master == [to |-> "master", info |-> PlainInfo(cfg)]
<1>1. /\ pc = "discover" /\ dialled' = dialled \cup {master}
      /\ WaitIn("dial", connect_timeout)
      /\ UNCHANGED <<source, cfg, now, error, open, left>>
  BY DEF Discovered
<1>2. TypeOK /\ cfg \in Configs
  BY DEF IInv, TypeOK
<1>3. source.use = "pool" /\ open = {} /\ error = "None"
  BY <1>1 DEF IInv, Phases
<1>4. Heeded(cfg)
  BY <1>1 DEF IInv, Phases
<1>5. DialledAsConfigured' /\ dialled' \subseteq Dialable
  <2>1. "master" \notin UrlForms
    BY DEF UrlForms
  <2>2. \A d \in {master} : Kept(d)
    BY <1>2, <1>4, <2>1, PlainKept
  <2>3. dialled' \in {{master}, dialled \cup {master}}
    BY <1>1
  <2> HIDE DEF master
  <2>4. QED  BY <1>1, <1>2, <2>2, <2>3, Dial DEF IInv
<1>6. SetUpTime \in Nat /\ SetUpTime' = SetUpTime
  BY <1>1, <1>2, Types DEF SetUpTime
<1>7. Ahead = connect_timeout + SetUpTime
        /\ connect_timeout + SetUpTime \in Nat
  BY <1>1, <1>6, Bounds DEF Ahead
<1>8. Ahead' = SetUpTime
  BY <1>1, <1>3, <1>6 DEF Ahead, WaitIn
<1>9. connect_timeout + SetUpTime <= connect_timeout + SetUpTime
  BY <1>6, Bounds
<1>10. left' \in Nat /\ open' = {}
  BY <1>1, <1>2, <1>3 DEF TypeOK
<1>11. QED
  BY <1>1, <1>3, <1>4, <1>5, <1>6, <1>7, <1>8, <1>9, <1>10, Bounds, Waits
     DEF Settling

(* n PINGs cost n times what the driver takes.                             *)
LEMMA Pings ==
  ASSUME IInv, NEW n \in Nat, Ping(n), source.use = "pool",
         pc \in Dialling \cup Settling, NEW a \in Nat, Ahead = a,
           n * DriverWait <= a,
         UNCHANGED <<source, cfg, now, error, dialled>>
  PROVE  IInv'
<1>1. left' = n
  BY DEF Ping
<1>2. CASE n = 0
  <2>1. FromParts({"command"}) /\ error = "None"
    BY <1>2, Dialled DEF Ping
  <2>2. QED  BY <1>1, <2>1, Built DEF Dialling, Settling
<1>3. CASE n # 0
  <2>1. open' = {"command"} /\ WaitIn("warmup", DriverWait) /\ n >= 1
    BY <1>3 DEF Ping
  <2>2. Ahead' = (n - 1) * DriverWait
    BY <1>1, <2>1 DEF Ahead, WaitIn
  <2>3. (n - 1) * DriverWait \in Nat
          /\ (n - 1) * DriverWait + DriverWait = n * DriverWait
    BY <2>1, Bounds, Products
  <2>4. DriverWait + (n - 1) * DriverWait <= a
    BY <2>3, Bounds
  <2>5. QED
    BY <1>1, <2>1, <2>2, <2>3, <2>4, Bounds, Dialled, Waits DEF Settling
<1>4. QED  BY <1>2, <1>3

LEMMA OpenedHolds ==
  ASSUME IInv, Opened
  PROVE  IInv'
<1>1. pc = "dial" /\ UNCHANGED <<source, cfg, now, error, dialled>>
  BY DEF Opened
<1>2. TypeOK
  BY DEF IInv
<1>3. pc \in Dialling
  BY <1>1 DEF Dialling
<1>4. CASE source.use = "pool"
  <2>1. Ahead = SetUpTime /\ SetUpTime \in Nat
    BY <1>1, <1>2, <1>4, Types DEF Ahead
  <2>2. cfg.warmup_count \in Nat /\ cfg.warmup_count * DriverWait \in Nat
    BY <1>2, Types
  <2>3. CASE cfg.client_name
    <3>1. WaitIn("setname", DriverWait) /\ open' = {"command"} /\ left' = left
      BY <1>4, <2>3 DEF Opened, SetUp
    <3>2. Ahead' = cfg.warmup_count * DriverWait
      BY <1>1, <3>1 DEF Ahead, WaitIn
    <3>3. DriverWait + cfg.warmup_count * DriverWait <= SetUpTime
      BY <1>2, <2>2, <2>3, Types, Bounds
    <3>4. left' \in Nat
      BY <1>2, <3>1, Types
    <3>5. QED
      BY <1>1, <1>3, <1>4, <2>1, <2>2, <2>3, <3>1, <3>2, <3>3, <3>4, Bounds,
         Dialled, Waits DEF Settling
  <2>4. CASE ~cfg.client_name
    <3>1. Ping(cfg.warmup_count)
      BY <1>4, <2>4 DEF Opened, SetUp
    <3>2. cfg.warmup_count * DriverWait <= SetUpTime
      BY <1>2, <2>2, <2>4, Types
    <3>3. QED  BY <1>1, <1>3, <1>4, <2>1, <2>2, <3>1, <3>2, Pings
  <2>5. QED  BY <2>3, <2>4
<1>5. CASE source.use # "pool"
  <2>1. /\ source.use = "pubsub" /\ open' = {"publish"} /\ left' = left
        /\ WaitIn("listen", connect_timeout)
    BY <1>5 DEF Opened
  <2>2. left' \in Nat /\ Channels * command_timeout \in Nat
    BY <1>2, <2>1, Types
  <2>3. /\ Ahead = connect_timeout + Channels * command_timeout
        /\ connect_timeout + Channels * command_timeout \in Nat
        /\ connect_timeout + Channels * command_timeout
             <= connect_timeout + Channels * command_timeout
    BY <1>1, <2>1, <2>2, Bounds DEF Ahead
  <2>4. Ahead' = Channels * command_timeout
    BY <2>1 DEF Ahead, WaitIn
  <2>5. QED
    BY <1>1, <1>3, <2>1, <2>2, <2>3, <2>4, Bounds, Dialled, Waits DEF Settling
<1>6. QED  BY <1>4, <1>5

LEMMA SettledHolds ==
  ASSUME IInv, Settled
  PROVE  IInv'
<1>1. /\ pc \in Settling /\ source.use = "pool"
      /\ UNCHANGED <<source, cfg, now, error, dialled>>
  BY DEF Settled, IInv, Phases
<1>2. TypeOK
  BY DEF IInv
<1>3. CASE pc = "setname"
  <2>1. Ping(cfg.warmup_count)
    BY <1>3 DEF Settled
  <2>2. cfg.warmup_count \in Nat /\ cfg.warmup_count * DriverWait \in Nat
    BY <1>2, Types
  <2>3. /\ Ahead = cfg.warmup_count * DriverWait
        /\ cfg.warmup_count * DriverWait <= cfg.warmup_count * DriverWait
    BY <1>3, <2>2 DEF Ahead
  <2>4. QED  BY <1>1, <2>1, <2>2, <2>3, Pings
<1>4. CASE pc = "warmup"
  <2>1. Ping(left - 1)
    BY <1>4 DEF Settled
  <2>2. left - 1 \in Nat
    BY <1>2, <1>4, Types DEF IInv, Punctual
  <2>3. (left - 1) * DriverWait \in Nat
    BY <2>2, Bounds, Products
  <2>4. /\ Ahead = (left - 1) * DriverWait
        /\ (left - 1) * DriverWait <= (left - 1) * DriverWait
    BY <1>4, <2>3 DEF Ahead
  <2>5. QED  BY <1>1, <2>1, <2>2, <2>3, <2>4, Pings
<1>5. QED  BY <1>1, <1>3, <1>4 DEF Settling

(* n channels cost n times the timeout of a command.                       *)
LEMMA Subscribes ==
  ASSUME IInv, NEW n \in Nat, Subscribe(n), source.use = "pubsub",
         pc \in {"listen", "subscribe"}, open' = {"publish", "subscriber"},
         NEW a \in Nat, Ahead = a, n * command_timeout <= a,
         UNCHANGED <<source, cfg, now, error, dialled>>
  PROVE  IInv'
<1>1. left' = n /\ pc \in Dialling \cup {"subscribe"}
  BY DEF Subscribe, Dialling
<1>2. CASE n = 0
  <2>1. WaitIn("ok", 0)
    BY <1>2 DEF Subscribe
  <2>2. Punctual' /\ due' \in Nat /\ now <= due' /\ pc' = "ok"
    BY <2>1, Over
  <2>3. /\ error = "None" /\ dialled' \subseteq Dialable /\ DialledAsConfigured'
        /\ Heeded(cfg)
        /\ source.use = "pubsub" /\ dialled' # {} => cfg.mode = "Standalone"
    BY <1>1, Dialled
  <2>4. TypeOK'
    BY <1>1, <2>2 DEF IInv, TypeOK, Pcs
  <2>5. Phases'
    BY <2>2, <2>3, SameHeeded DEF Phases, Loading, Settling
  <2>6. AllOrNothing'
    BY <1>1, <1>2, <2>2 DEF AllOrNothing
  <2>7. QED  BY <2>2, <2>3, <2>4, <2>5, <2>6 DEF IInv
<1>3. CASE n # 0
  <2>1. WaitIn("subscribe", command_timeout) /\ n >= 1
    BY <1>3 DEF Subscribe
  <2>2. Ahead' = (n - 1) * command_timeout
    BY <1>1, <2>1 DEF Ahead, WaitIn
  <2>3. /\ (n - 1) * command_timeout \in Nat
        /\ (n - 1) * command_timeout + command_timeout = n * command_timeout
    BY <2>1, Bounds, Products
  <2>4. command_timeout + (n - 1) * command_timeout <= a
    BY <2>3, Bounds
  <2>5. QED
    BY <1>1, <2>1, <2>2, <2>3, <2>4, Bounds, Dialled, Waits DEF Settling
<1>4. QED  BY <1>2, <1>3

LEMMA ListeningHolds ==
  ASSUME IInv, Listening \/ Subscribed
  PROVE  IInv'
<1>1. TypeOK
  BY DEF IInv
<1>2. CASE Listening
  <2>1. /\ pc = "listen" /\ open' = open \cup {"subscriber"}
             /\ Subscribe(Channels)
        /\ UNCHANGED <<source, cfg, now, error, dialled>>
    BY <1>2 DEF Listening
  <2>2. source.use = "pubsub" /\ open' = {"publish", "subscriber"}
    BY <2>1 DEF IInv, Phases
  <2>3. Channels * command_timeout \in Nat
    BY <1>1, Types
  <2>4. /\ Ahead = Channels * command_timeout
        /\ Channels * command_timeout <= Channels * command_timeout
    BY <2>1, <2>3 DEF Ahead
  <2>5. QED  BY <2>1, <2>2, <2>3, <2>4, Bounds, Subscribes
<1>3. CASE Subscribed
  <2>1. /\ pc = "subscribe" /\ Subscribe(left - 1)
        /\ UNCHANGED <<source, cfg, now, error, dialled, open>>
    BY <1>3 DEF Subscribed
  <2>2. source.use = "pubsub" /\ open' = {"publish", "subscriber"}
    BY <2>1 DEF IInv, Phases
  <2>3. left - 1 \in Nat
    BY <1>1, <2>1, Types DEF IInv, Punctual
  <2>4. (left - 1) * command_timeout \in Nat
    BY <2>3, Bounds, Products
  <2>5. /\ Ahead = (left - 1) * command_timeout
        /\ (left - 1) * command_timeout <= (left - 1) * command_timeout
    BY <2>1, <2>4 DEF Ahead
  <2>6. QED  BY <2>1, <2>2, <2>3, <2>4, <2>5, Subscribes
<1>4. QED  BY <1>2, <1>3

LEMMA FailedHolds ==
  ASSUME IInv, Failed \/ TimeOut
  PROVE  IInv'
<1>1. PICK e \in {"Connection", "Timeout"} :
        Fail(e) /\ UNCHANGED <<source, cfg, now, dialled, left>>
  BY DEF Failed, TimeOut
<1>2. QED  BY <1>1, Fails

LEMMA TickHolds ==
  ASSUME IInv, Tick
  PROVE  IInv'
<1>1. /\ now < due /\ now' = now + 1
      /\ UNCHANGED <<source, cfg, pc, due, error, dialled, open, left>>
  BY DEF Tick
<1>2. TypeOK'
  BY <1>1 DEF IInv, TypeOK
<1>3. DialledAsConfigured' /\ Phases' /\ AllOrNothing'
  BY <1>1, SameDialled, SameHeeded DEF IInv, Phases, AllOrNothing
<1>4. Punctual'
  <2>1. Ahead' = Ahead /\ Longest' = Longest
    BY <1>1 DEF Ahead, Longest, SetUpTime
  <2>2. QED  BY <1>1, <2>1 DEF IInv, Punctual
<1>5. QED  BY <1>2, <1>3, <1>4 DEF IInv

-----------------------------------------------------------------------------
(* The invariant is inductive.                                             *)
LEMMA InitHolds ==
  ASSUME Init
  PROVE  IInv
<1> USE DEF Init
<1>1. TypeOK
  BY Bounds, DefaultType DEF TypeOK, Pcs
<1>2. Punctual
  <2>1. Ahead = 0 /\ due = 0
    BY DEF Ahead
  <2>2. QED  BY <1>1, <2>1, Types DEF Punctual
<1>3. DialledAsConfigured /\ AllOrNothing
  BY DEF DialledAsConfigured, AllOrNothing
<1>4. Phases
  BY DEF Phases, Loading, Settling
<1>5. QED  BY <1>1, <1>2, <1>3, <1>4 DEF IInv

THEOREM Invariance == Spec => []IInv
<1>1. Init => IInv
  BY InitHolds
<1>2. IInv /\ [Next]_vars => IInv'
  <2> SUFFICES ASSUME IInv, [Next]_vars
               PROVE  IInv'
    OBVIOUS
  <2>1. CASE Next
    BY <2>1, LoadHolds, NewHolds, ConnectHolds, ConnectPubSubHolds,
       DiscoveredHolds,
       OpenedHolds, SettledHolds, ListeningHolds, FailedHolds,
         TickHolds DEF Next
  <2>2. CASE UNCHANGED vars
    <3>1. UNCHANGED <<source, cfg, now, pc, due, error, dialled, open, left>>
      BY <2>2 DEF vars
    <3>2. TypeOK'
      BY <3>1 DEF IInv, TypeOK
    <3>3. DialledAsConfigured' /\ Phases' /\ AllOrNothing'
      BY <3>1, SameDialled, SameHeeded DEF IInv, Phases, AllOrNothing
    <3>4. Punctual'
      <4>1. Ahead' = Ahead /\ Longest' = Longest
        BY <3>1 DEF Ahead, Longest, SetUpTime
      <4>2. QED  BY <3>1, <4>1 DEF IInv, Punctual
    <3>5. QED  BY <3>2, <3>3, <3>4 DEF IInv
  <2>3. QED  BY <2>1, <2>2
<1>3. QED  BY <1>1, <1>2, PTL DEF Spec

(* Every variable has its type, and no wait is overdue.                    *)
THEOREM ConnectTypes == Spec => []TypeOK
<1>1. IInv => TypeOK
  BY DEF IInv
<1>2. QED  BY <1>1, Invariance, PTL

(* Every address is dialled with the TLS, the user name, the password and  *)
(* the database asked for in the settings, the URL or the seed's own URL   *)
(* (connection_info_for_seed, validate_seed, from_url).                    *)
THEOREM ConnectAsConfigured == Spec => []DialledAsConfigured
<1>1. IInv => DialledAsConfigured
  BY DEF IInv
<1>2. QED  BY <1>1, Invariance, PTL

(* What a configuration makes impossible is refused before any address is  *)
(* dialled (pubsub_connection_info, connect).                              *)
THEOREM ConnectOffline == Spec => []RefusedOffline
<1>1. IInv => RefusedOffline
  BY DEF IInv, Phases, RefusedOffline
<1>2. QED  BY <1>1, Invariance, PTL

(* A call returns with all its connections or leaves none (connect_config, *)
(* from_parts).                                                            *)
THEOREM ConnectAllOrNothing == Spec => []AllOrNothing
<1>1. IInv => AllOrNothing
  BY DEF IInv
<1>2. QED  BY <1>1, Invariance, PTL

(* However slow everybody is, the call is over after its timers in a row.  *)
THEOREM ConnectInTime == Spec => []EndsInTime
<1>1. IInv => EndsInTime
  <2>1. ASSUME IInv
        PROVE  now <= Longest
    <3>1. now + Ahead <= Longest /\ Ahead \in Nat
      BY <2>1, TimeLeft
    <3>2. now \in Nat /\ Longest \in Nat
      BY <2>1, Types DEF IInv
    <3>3. QED  BY <3>1, <3>2
  <2>2. QED  BY <2>1 DEF EndsInTime
<1>2. QED  BY <1>1, Invariance, PTL
=============================================================================
