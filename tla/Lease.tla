-------------------------------- MODULE Lease ---------------------------------
(***************************************************************************)
(* What callers of redisx's lock may count on, with no key, token, expiry  *)
(* or message in sight: a lease of bounded life that is granted only while *)
(* nobody has it, that its holder may prolong, shorten or give back, and   *)
(* that time takes from him.  That a write made under it is accepted by a  *)
(* resource, or the order of fences, is NOT promised here:                 *)
(* RedisLock!FenceFollowsLock says what the documentation asks there.      *)
(***************************************************************************)
EXTENDS Naturals

CONSTANTS Clients,  \* tasks that use the lock
          MaxTtl    \* the longest lease they ask for

VARIABLE remaining  \* of each client: ticks it can still count on the lease

Free == \A c \in Clients : remaining[c] = 0

Init == remaining = [c \in Clients |-> 0]

(* The SET of lock_acquire is acknowledged, or lock_extend finds the key   *)
(* still the caller's after it stopped counting on it.                     *)
Grant(c, d) ==
  /\ Free
  /\ remaining' = [remaining EXCEPT ![c] = d]

(* The holder prolongs or shortens its lease. *)
Renew(c, d) ==
  /\ remaining[c] > 0
  /\ remaining' = [remaining EXCEPT ![c] = d]

(* The holder no longer counts on it. *)
LetGo(c) == remaining' = [remaining EXCEPT ![c] = 0]

Elapse ==
  remaining' = [c \in Clients |->
                  IF remaining[c] > 0 THEN remaining[c] - 1 ELSE 0]

Next ==
  \/ Elapse
  \/ \E c \in Clients : LetGo(c)
  \/ \E c \in Clients, d \in 1..MaxTtl : Grant(c, d) \/ Renew(c, d)

Spec == Init /\ [][Next]_remaining
=============================================================================
