----------------------------- MODULE RedisConfig ------------------------------
(***************************************************************************)
(* Configurations of redisx (src/src/config.rs and config/): where they    *)
(* come from, what validate accepts, and the connection parameters made of *)
(* them for the driver.  No state: RedisConnect uses these operators.      *)
(*                                                                         *)
(* An address is one of a few forms, as far as the code tells them apart.  *)
(* limits stands for the numbers validate wants to be positive: huge is a  *)
(* max_in_flight of more than tokio::sync::Semaphore::MAX_PERMITS, which   *)
(* validate lets pass, and garbled a number, a flag or a mode in a text    *)
(* that cannot be read.                                                    *)
(***************************************************************************)
EXTENDS Integers

UrlForms ==
  { "url",            \* redis://host:port
    "url_tls",        \* rediss://host:port
    "url_db",         \* redis://host:port/1
    "url_insecure",   \* rediss://host:port/#insecure
    "url_nohost" }    \* redis://:port

Forms ==
  { "blank", "host",  \* host or host:port
    "garbled",        \* host:port with something else for the port
    "unix" }          \* unix:///path
  \cup UrlForms

Modes     == {"Standalone", "Cluster", "Sentinel"}
Passwords == {"none", "own", "url"}  \* not set, set on its own, of a URL
Usernames == Passwords \cup {"blank", "default"}  \* set to nothing; `default`

Configs ==
  [mode : Modes, addr : Forms, nodes : SUBSET Forms,
   sentinel_master : {"none", "blank", "named"}, username : Usernames,
   password : Passwords, tls : BOOLEAN, db : Int, limits : {"zero", "sound", "huge", "garbled"},
   client_name : BOOLEAN, warmup_count : Nat]

Default ==
  [mode |-> "Standalone", addr |-> "host", nodes |-> {},
   sentinel_master |-> "none", username |-> "none", password |-> "none",
   tls |-> FALSE, db |-> 0, limits |-> "sound", client_name |-> FALSE,
   warmup_count |-> 0]

-----------------------------------------------------------------------------
(* Parsing.  An operator whose name has an underscore and a capital is a   *)
(* plausible bug in the operator it is named after.                        *)

(* parse_host_port succeeds: what follows the last colon is a port number, *)
(* or there is no colon to speak of.  It knows no URLs: the forms that end *)
(* in a port pass.                                                         *)
parse_host_port(form) ==
  form \in {"blank", "host", "url", "url_tls", "url_nohost"}

(* Bug: the scheme of a URL is cut off, and its host is dialled. *)
HostOf_SchemeCut(form) == form

(* The host it makes of an address: of a URL, a name that nobody has.      *)
HostOf(form) == IF form \in UrlForms THEN "nowhere" ELSE form

(* redis::IntoConnectionInfo accepts the URL.                              *)
into_connection_info(form) ==
  form \in {"url", "url_tls", "url_db", "url_insecure", "unix"}

validate_seed(form) ==
  \/ form \in UrlForms /\ into_connection_info(form) /\ form # "url_insecure"
  \/ form \notin UrlForms /\ form # "blank" /\ parse_host_port(form)

(* RedisConfig::validate *)
validate(c) ==
  /\ IF c.mode = "Standalone"
     THEN c.addr # "blank" /\ parse_host_port(c.addr)
     ELSE /\ c.addr # "blank" \/ c.nodes # {}
          /\ c.addr # "blank" => parse_host_port(c.addr)
          /\ \A n \in c.nodes : validate_seed(n)
  /\ c.mode = "Cluster" => c.db = 0
  /\ c.mode = "Sentinel" => c.sentinel_master = "named"
  /\ c.db >= 0
  /\ c.limits # "zero"

-----------------------------------------------------------------------------
(* Where configurations come from.  An input is what a builder was told,   *)
(* what a TOML text says (raw), or a URL; each operator returns the set of *)
(* at most one configuration it accepts.                                   *)

Accepted(c) == {d \in {c} : validate(d)}

(* The URL is taken apart into host:port, database, TLS and credentials.   *)
from_url(form) ==
  IF ~into_connection_info(form) \/ form \in {"url_insecure", "unix"} THEN {}
  ELSE Accepted([Default EXCEPT !.tls = (form = "url_tls"),
                                !.db = IF form = "url_db" THEN 1 ELSE 0,
                                !.username = "url", !.password = "url"])

(* What TOML and environment have in common: a missing address is the      *)
(* default one, nodes are split and trimmed, a blank master or user name   *)
(* is none.                                                                *)
Filled(raw) ==
  [raw EXCEPT !.addr = IF @ = "blank" THEN Default.addr ELSE @,
              !.nodes = @ \ {"blank"},
              !.sentinel_master = IF @ = "blank" THEN "none" ELSE @,
              !.username = IF @ = "blank" THEN "none" ELSE @]

(* Bug: a user name set to nothing is the default one too. *)
from_env_AlwaysNamed(url, raw) ==
  IF url # "blank" THEN from_url(url)
  ELSE IF raw.limits = "garbled" THEN {}
  ELSE Accepted([Filled(raw) EXCEPT
                   !.username = IF @ = "none" THEN "default" ELSE @,
                   !.client_name = FALSE])

(* REDIS_URL, when set, is all that counts.  A user name that is not set,  *)
(* as opposed to one set to nothing, is `default`.  There is no variable   *)
(* for the client name.                                                    *)
from_env(url, raw) ==
  IF url # "blank" THEN from_url(url)
  ELSE IF raw.limits = "garbled" THEN {}
  ELSE Accepted([Filled(raw) EXCEPT
                   !.username = IF raw.username = "none" THEN "default" ELSE @,
                   !.client_name = FALSE])

(* apply_wire over the default; a password in the text is refused.         *)
from_toml(raw) ==
  IF raw.password # "none" \/ raw.limits = "garbled" THEN {}
  ELSE Accepted(Filled(raw))

build(raw) == Accepted(raw)

-----------------------------------------------------------------------------
(* Connection parameters for the driver. *)

Infos ==
  [tls : {"off", "on", "insecure"}, username : Usernames, password : Passwords,
   db : Int]

TlsOf(form) ==
  CASE form = "url_tls" -> "on"
    [] form = "url_insecure" -> "insecure"
    [] OTHER -> "off"

(* to_connection_info, and connection_info_for_seed for a host:port        *)
PlainInfo(c) ==
  [tls |-> IF c.tls THEN "on" ELSE "off", username |-> c.username,
   password |-> c.password, db |-> c.db]

(* A URL's user name or password counts only where none is configured.     *)
OrOfUrl(set) == IF set = "none" THEN "url" ELSE set

(* Bug: a URL keeps its own scheme although TLS is configured. *)
connection_info_for_seed_KeepsScheme(c, form) ==
  IF form \in UrlForms
  THEN {i \in {[tls |-> TlsOf(form), username |-> OrOfUrl(c.username),
                password |-> OrOfUrl(c.password), db |-> c.db]} :
          into_connection_info(form)}
  ELSE {i \in {PlainInfo(c)} : parse_host_port(form)}

(* Bug: a URL's scheme is not looked at. *)
connection_info_for_seed_DropsScheme(c, form) ==
  IF form \in UrlForms
  THEN {i \in {[PlainInfo(c) EXCEPT !.username = OrOfUrl(@),
                                    !.password = OrOfUrl(@)]} :
          into_connection_info(form)}
  ELSE {i \in {PlainInfo(c)} : parse_host_port(form)}

(* Bug: a URL's credentials are overwritten although none are configured. *)
connection_info_for_seed_DropsCredentials(c, form) ==
  IF form \in UrlForms
  THEN {i \in {[PlainInfo(c) EXCEPT !.tls = IF c.tls THEN "on" ELSE TlsOf(form)]} :
          into_connection_info(form)}
  ELSE {i \in {PlainInfo(c)} : parse_host_port(form)}

(* The configuration's credentials and database override those of a URL,   *)
(* each on its own, and tls turns a redis:// seed into a TLS one; at most  *)
(* one result.                                                             *)
connection_info_for_seed(c, form) ==
  IF form \in UrlForms
  THEN {i \in {[tls |-> IF c.tls /\ TlsOf(form) = "off" THEN "on" ELSE TlsOf(form),
                username |-> OrOfUrl(c.username),
                password |-> OrOfUrl(c.password), db |-> c.db]} :
          into_connection_info(form) /\ ~(c.tls /\ i.tls = "insecure")}
  ELSE {i \in {PlainInfo(c)} : parse_host_port(form)}

(* Nodes, when there are any, replace the address. *)
seed_nodes(c) ==
  IF c.nodes # {} THEN c.nodes ELSE {c.addr} \ {"blank"}

(* seed_connection_infos: all of them or an error *)
seeds_ok(c) ==
  /\ seed_nodes(c) # {}
  /\ \A n \in seed_nodes(c) : connection_info_for_seed(c, n) # {}

seed_connection_infos(c) ==
  UNION {{[to |-> n, info |-> i] : i \in connection_info_for_seed(c, n)} :
           n \in seed_nodes(c)}
=============================================================================
