---------------------------- MODULE MCRedisConnect ----------------------------
(* Model checking of RedisConnect: the settings callers start from.        *)
EXTENDS RedisConnect

(* A user name and a password, set or not. *)
Credentials ==
  {<<"none", "none">>, <<"own", "none">>, <<"none", "own">>, <<"blank", "own">>}

(* Every topology with every way to write its addresses. *)
Addresses ==
  {[Default EXCEPT !.mode = m, !.addr = a, !.nodes = n, !.tls = t,
                   !.username = p[1], !.password = p[2],
                   !.sentinel_master = "named"] :
     m \in Modes, a \in Forms, n \in SUBSET {"blank", "host", "url_tls"}
                                      \cup {{f} : f \in Forms}
                                      \cup {{"url", "url_insecure"}},
     t \in BOOLEAN, p \in Credentials}

(* Every topology with a working address and every other setting. *)
Settings ==
  {[Default EXCEPT !.mode = m, !.sentinel_master = s, !.db = d, !.limits = l,
                   !.client_name = c, !.warmup_count = w] :
     m \in Modes, s \in {"none", "blank", "named"}, d \in {-1, 0, 1},
     l \in {"zero", "sound", "huge"}, c \in BOOLEAN, w \in {0, 2}}

MCSources ==
  [entry : {"build", "toml"}, url : {"blank"}, raw : Addresses \cup Settings,
   use : {"pool", "new", "pubsub"}]
  \cup
  [entry : {"env", "toml"}, url : {"blank"},
   raw : {[Default EXCEPT !.limits = "garbled"]}, use : {"pool", "pubsub"}]
  \cup
  [entry : {"env"}, url : {"blank", "url_tls", "unix"}, raw : Addresses \cup Settings,
   use : {"pool", "pubsub"}]
  \cup
  [entry : {"url"}, url : Forms, raw : {Default}, use : {"pool", "new", "pubsub"}]
=============================================================================
