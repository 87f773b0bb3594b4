----------------------------- MODULE RedisErrors ------------------------------
(***************************************************************************)
(* The classes of RedisError (src/src/error.rs) and the mapping of what    *)
(* the driver reports onto them (src/src/error_map.rs).  A driver error is *)
(* its ErrorKind and those of the Words that are anywhere in its text.     *)
(***************************************************************************)

Errors == {"Config", "Connection", "Backend", "Serialization", "Io", "Timeout",
           "Unsupported", "Transient", "Conflict", "Missing", "Internal"}

(* Bug: a refused password is tried again. *)
is_retryable_Backend(e) ==
  e \in {"Connection", "Transient", "Timeout", "Io", "Backend"}

is_retryable(e) == e \in {"Connection", "Transient", "Timeout", "Io"}

(* What map_textual looks for in a text. *)
Words == {"LOADING", "TRYAGAIN", "NOAUTH", "WRONGPASS", "READONLY"}

Has(words, any) == words \cap any # {}

(* Bug: a refused password in a text that speaks of READONLY is missed. *)
map_textual_ReadOnlyFirst(words) ==
  IF Has(words, {"LOADING", "TRYAGAIN"}) THEN "Transient"
  ELSE IF "READONLY" \in words THEN "Connection"
  ELSE IF Has(words, {"NOAUTH", "WRONGPASS"}) THEN "Backend"
  ELSE "Internal"

(* Bug: a text that says TRYAGAIN is not looked for. *)
map_textual_LoadingOnly(words) ==
  IF "LOADING" \in words THEN "Transient"
  ELSE IF Has(words, {"NOAUTH", "WRONGPASS"}) THEN "Backend"
  ELSE IF "READONLY" \in words THEN "Connection"
  ELSE "Internal"

map_textual(words) ==
  IF Has(words, {"LOADING", "TRYAGAIN"}) THEN "Transient"
  ELSE IF Has(words, {"NOAUTH", "WRONGPASS"}) THEN "Backend"
  ELSE IF "READONLY" \in words THEN "Connection"
  ELSE "Internal"

Unusable == {"InvalidClientConfig", "ClientError"}
Busy     == {"BusyLoadingError", "TryAgain"}
Redirect == {"Moved", "Ask", "CrossSlot"}
Away     == {"IoError", "ClusterDown", "MasterDown", "ReadOnly",
             "ClusterConnectionNotFound", "EmptySentinelList",
             "MasterNameNotFoundBySentinel", "NoValidReplicasFoundBySentinel"}
Textual  == {"ResponseError", "ExtensionError", "NotBusy"}

(* Bug: a redirection is not known as one. *)
map_redis_error_Redirect(kind, words) ==
  CASE kind \in Unusable -> "Config"
    [] kind = "AuthenticationFailed" -> "Backend"
    [] kind \in Busy -> "Transient"
    [] kind \in Away -> "Connection"
    [] kind = "ExecAbortError" -> "Conflict"
    [] kind = "NoScriptError" -> "Missing"
    [] kind \in Textual -> map_textual(words)
    [] OTHER -> "Internal"

map_redis_error(kind, words) ==
  CASE kind \in Unusable -> "Config"
    [] kind = "AuthenticationFailed" -> "Backend"
    [] kind \in Busy \cup Redirect -> "Transient"
    [] kind \in Away -> "Connection"
    [] kind = "ExecAbortError" -> "Conflict"
    [] kind = "NoScriptError" -> "Missing"
    [] kind \in Textual -> map_textual(words)
    [] OTHER -> "Internal"    \* TypeError and all others
=============================================================================
