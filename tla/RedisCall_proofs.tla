--------------------------- MODULE RedisCall_proofs ---------------------------
(***************************************************************************)
(* Safety of one call for every choice of its constants: a write is handed *)
(* over at most once, an attempt keeps to the call_deadline, a retried     *)
(* call gives up early only for an error that no other attempt can cure,   *)
(* and at once for such an error unless it looks like a passing one, and   *)
(* the call is over within its attempts, its pauses and its deadline.      *)
(*                                                                         *)
(* The argument has four parts.  An attempt other than the first is made   *)
(* only by routed calls and only after should_continue (Counted), which    *)
(* bounds what is handed over.  Every action that ends an attempt in an    *)
(* error ends it in a retryable one exactly when another attempt could do  *)
(* better or the error looks as if it could (Classified), which rests on   *)
(* the table of map_redis_error, for every text (PassingClassified,        *)
(* LastingClassified).  A pause is cut to what is left of the retry       *)
(* deadline (PauseClipped), so an attempt begins within it, and its timers *)
(* fit its own budget (WholeAttempt); together these are OnTime.  Lengthy  *)
(* adds up the attempts and pauses so far (Rounds); it needs that no pause *)
(* exceeds max_backoff (BackoffBounded), and hence that the recursion of   *)
(* backoff_for has a solution (BackoffDefined), which is proved by way of  *)
(* its solutions up to n and the least counterexample.                     *)
(***************************************************************************)
EXTENDS RedisCall, FiniteSetTheorems, TLAPS

(* Another attempt is for routed calls, none begins beyond the last, and   *)
(* the one waiting for a lane has handed nothing over.                     *)
Counted ==
  /\ attempt <= Attempts
  /\ pc \in {"queued", "running", "failed"} => attempt >= 1
  /\ pc = "queued" => attempt \notin pending \cup done
  /\ pc = "start" => (attempt = 0 \/ (Routed /\ attempt < max_attempts))
  /\ pc \in {"pausing", "asleep"} => (Routed /\ attempt < max_attempts)

(* The class of an error says whether another attempt may cure it, save    *)
(* for errors that look like passing ones.                                 *)
Classified ==
  /\ verdict = "final" => pc \in {"failed", "err"}
  /\ pc = "failed" => (verdict = "final" <=> ~is_retryable(error))
  /\ (pc = "err" /\ Routed /\ verdict # "final") =>
       attempt = max_attempts \/ \E d \in call.deadline : now >= d

(* The program points of an attempt, its failure included.                 *)
InAttempt == {"queued", "running", "failed"}

(* Where the timers stand.  An attempt begins within the retry deadline,   *)
(* and ends within its own budget.                                         *)
OnTime ==
  /\ pc = "queued" => due <= began + AcquireBudget
  /\ pc \in InAttempt => due <= began + AttemptBudget
  /\ Routed => \A d \in call.deadline :
       /\ pc \in {"start", "asleep"} => due <= d
       /\ pc \in InAttempt => began <= d
       /\ pc = "pausing" => due <= d + Gap
       /\ pc \in {"ok", "err"} => due <= d + More(AttemptBudget, Gap)

(* The inductive invariant.                                                *)
IInv == TypeOK /\ Counted /\ Classified /\ AttemptWithinTotal /\ OnTime

(* n attempts that took their whole budget, and the pauses after them.     *)
Rounds(n) == n * (AttemptBudget + max_backoff + Gap)

(* When the present wait is over the call has lasted no longer than its    *)
(* attempts and pauses so far.                                             *)
Lengthy ==
  /\ pc \in {"pausing", "asleep"} => attempt >= 1
  /\ pc \in {"start", "asleep"} => due <= Rounds(attempt)
  /\ pc \in InAttempt => began <= Rounds(attempt - 1)
  /\ pc = "pausing" => due <= Rounds(attempt - 1) + AttemptBudget + Gap
  /\ pc \in {"ok", "err"} => due <= Rounds(Attempts - 1) + AttemptBudget

-----------------------------------------------------------------------------
(* The table of errors, and the budgets.                                   *)

(* Errors of broken connections and silent servers may be cured by another *)
(* attempt; a reply that makes no sense may not.                           *)
LEMMA DriverErrors ==
  /\ map_redis_error("IoError", {}) = "Connection"
  /\ map_redis_error("TypeError", {}) = "Internal"
BY DEF map_redis_error, Unusable, Busy, Redirect, Away, Textual

(* A refusal that may pass is retryable, be it told by its kind or by its  *)
(* text.                                                                   *)
LEMMA PassingClassified ==
  ASSUME NEW a \in Passing
  PROVE  /\ map_redis_error(a[1], a[2]) \in Errors
         /\ is_retryable(map_redis_error(a[1], a[2]))
BY DEF Passing, Kinds, Coded, map_redis_error, map_textual, Has, is_retryable,
   Unusable, Busy, Redirect, Away, Textual, Errors

(* A text is taken for a passing one by the words that LooksPassing looks  *)
(* for, whatever else it says.                                             *)
LEMMA TextClassified ==
  ASSUME NEW kind \in {"ResponseError", "ExtensionError"}, NEW words
  PROVE  /\ map_redis_error(kind, words) \in Errors
         /\ is_retryable(map_redis_error(kind, words))
              <=> LooksPassing(kind, words)
<1>1. map_redis_error(kind, words) = map_textual(words)
  BY DEF map_redis_error, Unusable, Busy, Redirect, Away, Textual
<1>2. CASE Has(words, {"LOADING", "TRYAGAIN"})
  BY <1>1, <1>2 DEF map_textual, LooksPassing, is_retryable, Errors
<1>3. CASE /\ ~Has(words, {"LOADING", "TRYAGAIN"})
           /\ Has(words, {"NOAUTH", "WRONGPASS"})
  BY <1>1, <1>3 DEF map_textual, LooksPassing, is_retryable, Errors
<1>4. CASE /\ ~Has(words, {"LOADING", "TRYAGAIN"})
           /\ ~Has(words, {"NOAUTH", "WRONGPASS"})
  BY <1>1, <1>4 DEF map_textual, LooksPassing, is_retryable, Errors
<1>5. QED  BY <1>2, <1>3, <1>4

(* A refusal that does not pass is retryable exactly when it looks as if   *)
(* it did.                                                                 *)
LEMMA LastingClassified ==
  ASSUME NEW a \in Lasting
  PROVE  /\ map_redis_error(a[1], a[2]) \in Errors
         /\ is_retryable(map_redis_error(a[1], a[2]))
              <=> LooksPassing(a[1], a[2])
<1>1. CASE a \in Coded(SUBSET Words)
  BY <1>1, TextClassified DEF Coded
<1>2. CASE a \notin Coded(SUBSET Words)
  <2>1. /\ a[1] \in {"AuthenticationFailed", "CrossSlot", "ExecAbortError",
                     "NoScriptError"}
        /\ a[2] = {}
    BY <1>2 DEF Lasting, Kinds
  <2>2. QED
    BY <2>1 DEF map_redis_error, LooksPassing, Has, is_retryable, Unusable,
       Busy, Redirect, Away, Textual, Errors
<1>3. QED  BY <1>1, <1>2

(* The configured durations and the number of attempts.                    *)
LEMMA Durations ==
  /\ max_attempts \in Nat /\ 1 <= max_attempts
  /\ acquire_timeout \in Nat /\ command_timeout \in Nat
  /\ Second \in Nat /\ Gap \in Nat
BY CallAssumption DEF CallAssumption, IsOption

(* What a call's arguments and configuration are.                          *)
LEMMA CallFields ==
  ASSUME call \in Calls
  PROVE  /\ call.op \in AllOperations
         /\ call.block \in Nat
         /\ IsOption(call.deadline) /\ IsOption(call.total)
<1>1. /\ call.op \in Operations /\ call.block \in Blocks \cup {0}
      /\ call.deadline \in Deadlines /\ call.total \in Totals
  BY DEF Calls
<1>2. IsOption(call.deadline) /\ IsOption(call.total)
  BY <1>1, CallAssumption DEF CallAssumption, IsOption
<1>3. Operations \subseteq AllOperations /\ \A b \in Blocks \cup {0} : b \in Nat
  BY CallAssumption DEF CallAssumption, IsOption
<1>4. QED  BY <1>1, <1>2, <1>3, Zenon

(* The call_deadline is absent or one duration.                            *)
LEMMA TotalValue ==
  ASSUME call \in Calls
  PROVE  /\ IsOption(Total)
         /\ Total # {} => Value(Total) \in Nat /\ Total = {Value(Total)}
<1>1. IsOption(Total)
  BY CallFields DEF Total, IsOption
<1>2. Total # {} => Value(Total) \in Total
  BY DEF Value
<1>3. Total # {} => Total = {Value(Total)}
  <2> DEFINE v == Value(Total)
  <2>1. \A w \in Total : v \in Total => w = v
    BY <1>1 DEF IsOption
  <2>2. QED  BY <1>2, <2>1
<1>4. QED  BY <1>1, <1>2, <1>3 DEF IsOption

(* Every budget is a duration, and with a call_deadline neither the wait   *)
(* for a lane nor, for what the wait left of it, the command exceeds it.   *)
LEMMA Budgets ==
  ASSUME call \in Calls
  PROVE  /\ AcquireBudget \in Nat
         /\ \A t \in Total : t \in Nat /\ AcquireBudget <= t
         /\ \A s \in Nat :
              /\ CommandBudget(s) \in Nat
              /\ \A t \in Total :
                   CommandBudget(s) > 0 => s + CommandBudget(s) <= t
<1>1. OwnBudget \in Nat
  BY CallFields, Durations DEF OwnBudget, BlockingBudget, More
<1>2. CASE Total = {}
  BY <1>1, <1>2, Durations DEF AcquireBudget, CommandBudget
<1>3. CASE Total # {}
  BY <1>1, <1>3, TotalValue, Durations
     DEF AcquireBudget, CommandBudget, Less, Minus
<1>4. \A t \in Total : t \in Nat
  BY TotalValue DEF IsOption
<1>5. QED  BY <1>2, <1>3, <1>4

(* A pause is a duration.                                                  *)
LEMMA PauseDuration ==
  ASSUME NEW n, NEW e, NEW b \in Pauses(n, e)
  PROVE  b \in Nat
BY DEF Pauses

(* The deadline of a retried call is a duration.                           *)
LEMMA DeadlineValue ==
  ASSUME call \in Calls, NEW d \in call.deadline
  PROVE  d \in Nat
BY CallFields DEF IsOption

(* Only reads are routed to the retry loop: MSET, SET and their like are   *)
(* AmbiguousWrite or NeverAutomatic.                                       *)
LEMMA RoutedReads ==
  ASSUME Routed
  PROVE  call.op \in Reads
BY DEF Routed, retry_safety, Reads

(* The number of attempts is bounded by a positive number.                 *)
LEMMA AttemptsPositive == Attempts \in Nat /\ 1 <= Attempts
BY Durations DEF Attempts

(* An attempt's own budget covers the wait for a lane, and the command     *)
(* after it.                                                               *)
LEMMA WholeAttempt ==
  ASSUME call \in Calls
  PROVE  /\ AttemptBudget \in Nat /\ AcquireBudget <= AttemptBudget
         /\ \A s \in Nat : s <= AcquireBudget /\ CommandBudget(s) > 0
                             => s + CommandBudget(s) <= AttemptBudget
<1>1. OwnBudget \in Nat
  BY CallFields, Durations DEF OwnBudget, BlockingBudget, More
<1>2. CASE Total = {}
  BY <1>1, <1>2, Durations DEF AttemptBudget, AcquireBudget, CommandBudget
<1>3. CASE Total # {}
  <2>1. Value(Total) \in Total /\ AttemptBudget = Value(Total)
    BY <1>3, TotalValue DEF AttemptBudget
  <2>2. QED  BY <2>1, Budgets
<1>4. QED  BY <1>2, <1>3

(* A pause is cut down to what is left of the deadline.                    *)
LEMMA PauseClipped ==
  ASSUME call \in Calls, NEW n, NEW e \in Nat, NEW b \in Pauses(n, e),
         NEW d \in call.deadline
  PROVE  b <= Minus(d, e)
<1>1. d \in Nat /\ \A c \in call.deadline : c = d
  BY CallFields DEF IsOption
<1>2. PICK j \in jittered(backoff_for[n]) : b = Less(j, Minus(d, e))
  BY <1>1 DEF Pauses
<1>3. b \in Nat
  BY PauseDuration
<1>4. QED  BY <1>1, <1>2, <1>3 DEF Less, Minus

-----------------------------------------------------------------------------
(* The backoff.                                                            *)

(* One step of the recursion of backoff_for, g being what came before.     *)
Backoff(g, n) ==
  IF n = 0 THEN 0
  ELSE IF n = 1 THEN Less(initial_backoff, max_backoff)
  ELSE Less(g[n - 1] * multiplier, max_backoff)

(* Its solutions up to n.                                                  *)
Solutions(n) == {g \in [0..n -> Nat] : \A i \in 0..n : g[i] = Backoff(g, i)}

(* Every set of natural numbers has a least element.                       *)
LEMMA SmallestNat ==
  ASSUME NEW T, T \subseteq Nat, T # {}
  PROVE  \E x \in T : \A y \in T : ~ (y < x)
<1>1. PICK x \in T : \A y \in T : <<y, x>> \notin OpToRel(<, Nat)
  BY WFMin, NatLessThanWellFounded, Zenon
<1>2. QED  BY <1>1, Zenon DEF OpToRel

(* One step makes a duration of at most max_backoff.                       *)
LEMMA BackoffType ==
  ASSUME NEW n \in Nat, NEW g, n > 1 => g[n - 1] \in Nat
  PROVE  Backoff(g, n) \in Nat /\ Backoff(g, n) <= max_backoff
<1>1. initial_backoff \in Nat /\ max_backoff \in Nat /\ multiplier \in Nat
  BY CallAssumption DEF CallAssumption
<1>2. CASE n > 1
  <2>1. g[n - 1] * multiplier \in Nat
    BY <1>1, <1>2
  <2>2. QED  BY <1>1, <1>2, <2>1 DEF Backoff, Less
<1>3. CASE n <= 1
  BY <1>1, <1>3 DEF Backoff, Less
<1>4. QED  BY <1>2, <1>3

(* A solution up to n is one up to any smaller number.                     *)
LEMMA SolutionPart ==
  ASSUME NEW n \in Nat, NEW m \in 0..n, NEW g \in Solutions(n)
  PROVE  [i \in 0..m |-> g[i]] \in Solutions(m)
<1> DEFINE h == [i \in 0..m |-> g[i]]
<1>1. h \in [0..m -> Nat]
  BY DEF Solutions
<1>2. ASSUME NEW i \in 0..m PROVE h[i] = Backoff(h, i)
  <2>1. h[i] = g[i] /\ g[i] = Backoff(g, i)
    BY DEF Solutions
  <2>2. i > 1 => h[i - 1] = g[i - 1]
    OBVIOUS
  <2>3. QED  BY <2>1, <2>2 DEF Backoff
<1>3. QED  BY <1>1, <1>2 DEF Solutions

(* There is one solution at most, for two of them differ nowhere first.    *)
LEMMA SolutionsAgree ==
  ASSUME NEW n \in Nat, NEW g \in Solutions(n), NEW h \in Solutions(n)
  PROVE  \A i \in 0..n : g[i] = h[i]
<1> DEFINE T == {i \in 0..n : g[i] # h[i]}
<1>1. SUFFICES ASSUME T # {} PROVE FALSE
  OBVIOUS
<1>2. PICK i \in T : \A j \in T : ~ (j < i)
  <2>1. T \subseteq Nat
    OBVIOUS
  <2> HIDE DEF T
  <2>2. QED  BY <1>1, <2>1, SmallestNat
<1>3. i > 1 => g[i - 1] = h[i - 1]
  BY <1>2
<1>4. g[i] = Backoff(g, i) /\ h[i] = Backoff(h, i)
  BY <1>2 DEF Solutions
<1>5. Backoff(g, i) = Backoff(h, i)
  BY <1>2, <1>3 DEF Backoff
<1>6. QED  BY <1>2, <1>4, <1>5

(* There is a solution, for the first that is missing extends the one before. *)
LEMMA SolutionExists ==
  ASSUME NEW n \in Nat
  PROVE  Solutions(n) # {}
<1> DEFINE T == {i \in Nat : Solutions(i) = {}}
<1>1. SUFFICES ASSUME T # {} PROVE FALSE
  OBVIOUS
<1>2. PICK i \in T : \A j \in T : ~ (j < i)
  BY <1>1, SmallestNat
<1>3. CASE i = 0
  <2>1. [j \in 0..0 |-> 0] \in Solutions(0)
    BY DEF Solutions, Backoff
  <2>2. QED  BY <1>2, <1>3, <2>1
<1>4. CASE i > 0
  <2>1. i \in Nat /\ i - 1 \in Nat /\ i - 1 \notin T
    BY <1>2, <1>4
  <2>2. PICK g \in Solutions(i - 1) : TRUE
    BY <2>1
  <2> DEFINE h == [j \in 0..i |-> IF j = i THEN Backoff(g, i) ELSE g[j]]
  <2>3. g \in [0..(i - 1) -> Nat] /\ \A j \in 0..(i - 1) : g[j] = Backoff(g, j)
    BY <2>2 DEF Solutions
  <2>4. Backoff(g, i) \in Nat
    <3>1. i > 1 => g[i - 1] \in Nat
      BY <2>1, <2>3
    <3>2. QED  BY <2>1, <3>1, BackoffType
  <2>5. h \in [0..i -> Nat]
    BY <2>1, <2>3, <2>4
  <2>6. ASSUME NEW j \in 0..i PROVE h[j] = Backoff(h, j)
    <3>1. h[j] = Backoff(g, j)
      BY <2>1, <2>3
    <3>2. j > 1 => h[j - 1] = g[j - 1]
      BY <2>1
    <3>3. QED  BY <3>1, <3>2 DEF Backoff
  <2>7. h \in Solutions(i)
    BY <2>5, <2>6 DEF Solutions
  <2>8. QED  BY <1>2, <2>7
<1>5. QED  BY <1>2, <1>3, <1>4

(* backoff_for solves its own recursion for every number of attempts.      *)
LEMMA BackoffDefined == backoff_for = [n \in Nat |-> Backoff(backoff_for, n)]
<1> DEFINE s(n) == CHOOSE g \in Solutions(n) : TRUE
           f == [n \in Nat |-> s(n)[n]]
<1>1. ASSUME NEW n \in Nat
      PROVE  s(n) \in Solutions(n)
  BY SolutionExists
<1>2. ASSUME NEW n \in Nat
      PROVE  f[n] = Backoff(f, n)
  <2>1. n \in 0..n /\ s(n)[n] = Backoff(s(n), n)
    <3>1. \A i \in 0..n : s(n)[i] = Backoff(s(n), i)
      BY <1>1 DEF Solutions
    <3>2. QED  BY <3>1
  <2>2. ASSUME n > 1 PROVE f[n - 1] = s(n)[n - 1]
    <3>1. n - 1 \in Nat /\ n - 1 \in 0..n /\ n - 1 \in 0..(n - 1)
      BY <2>2
    <3>2. [i \in 0..(n - 1) |-> s(n)[i]] \in Solutions(n - 1)
      BY <1>1, <3>1, SolutionPart
    <3>3. s(n - 1)[n - 1] = s(n)[n - 1]
      BY <1>1, <3>1, <3>2, SolutionsAgree
    <3>4. QED  BY <3>1, <3>3
  <2>3. Backoff(f, n) = Backoff(s(n), n)
    BY <2>2 DEF Backoff
  <2>4. QED  BY <2>1, <2>3
<1>3. f = [n \in Nat |-> Backoff(f, n)]
  BY <1>2
<1> HIDE DEF f
<1>4. \E g : g = [n \in Nat |-> Backoff(g, n)]
  BY <1>3
<1>5. backoff_for = CHOOSE g : g = [n \in Nat |-> Backoff(g, n)]
  BY DEF backoff_for, Backoff
<1>6. QED  BY <1>4, <1>5

(* The backoff is never longer than max_backoff.                           *)
LEMMA BackoffBounded ==
  ASSUME NEW n \in Nat
  PROVE  backoff_for[n] \in Nat /\ backoff_for[n] <= max_backoff
<1> DEFINE T == {i \in Nat : backoff_for[i] \notin Nat}
<1>1. \A i \in Nat : backoff_for[i] = Backoff(backoff_for, i)
  BY BackoffDefined
<1>2. ASSUME T # {} PROVE FALSE
  <2>1. PICK i \in T : \A j \in T : ~ (j < i)
    <3>1. T \subseteq Nat
      OBVIOUS
    <3> HIDE DEF T
    <3>2. QED  BY <1>2, <3>1, SmallestNat
  <2>2. i \in Nat /\ (i > 1 => backoff_for[i - 1] \in Nat)
    BY <2>1
  <2>3. QED  BY <1>1, <2>1, <2>2, BackoffType
<1>3. \A i \in Nat : backoff_for[i] \in Nat
  BY <1>2
<1>4. n > 1 => backoff_for[n - 1] \in Nat
  BY <1>3
<1>5. QED  BY <1>1, <1>4, BackoffType

(* No pause exceeds max_backoff.                                           *)
LEMMA PauseBounded ==
  ASSUME NEW n \in Nat, NEW e, NEW b \in Pauses(n, e)
  PROVE  b \in Nat /\ b <= max_backoff
<1>1. b \in 0..backoff_for[n] /\ max_backoff \in Nat
  BY CallAssumption DEF Pauses, CallAssumption
<1>2. QED  BY <1>1, BackoffBounded

-----------------------------------------------------------------------------
(* The invariant is inductive: it holds at first, and each action keeps    *)
(* it.  Only GetLane hands a command over, only BeginAttempt counts, and   *)
(* only Pause chooses how long to wait; theirs are the longer proofs.      *)

(* What depends on the call alone does not change.                         *)
LEMMA SameCall ==
  ASSUME call' = call
  PROVE  Total' = Total /\ Routed' = Routed /\ Attempts' = Attempts
BY DEF Total, Routed, Attempts

LEMMA SameBudgets ==
  ASSUME call' = call
  PROVE  AcquireBudget' = AcquireBudget /\ AttemptBudget' = AttemptBudget
BY DEF AcquireBudget, AttemptBudget, OwnBudget, BlockingBudget, Total

LEMMA Initially == Init => IInv
<1> SUFFICES ASSUME Init PROVE IInv
  OBVIOUS
<1>1. TypeOK
  <2>1. call \in Calls /\ closed \in BOOLEAN /\ pc \in Pcs
    BY DEF Init, Pcs
  <2>2. now \in Nat /\ due \in Nat /\ now <= due
    BY DEF Init
  <2>3. attempt \in Nat /\ began \in 0..now /\ sent \in 0..now
    BY DEF Init
  <2>4. error \in Errors \cup {"None"} /\ verdict \in Verdicts
    BY DEF Init, Verdicts
  <2>5. /\ pending \subseteq 1..attempt /\ done \subseteq 1..attempt
        /\ pending \cap done = {}
    BY DEF Init
  <2>6. QED  BY <2>1, <2>2, <2>3, <2>4, <2>5 DEF TypeOK
<1>2. Counted /\ Classified /\ AttemptWithinTotal
  BY AttemptsPositive DEF Init, Counted, Classified, AttemptWithinTotal
<1>3. OnTime
  BY DeadlineValue DEF Init, OnTime, InAttempt
<1>4. QED  BY <1>1, <1>2, <1>3 DEF IInv

LEMMA ReturnEarlyKeeps == IInv /\ ReturnEarly => IInv'
<1> SUFFICES ASSUME IInv, ReturnEarly PROVE IInv'
  OBVIOUS
<1>1. TypeOK'
  <2>1. call' \in Calls /\ closed' \in BOOLEAN /\ pc' \in Pcs
    BY DEF IInv, TypeOK, Pcs, ReturnEarly, WaitIn
  <2>2. now' \in Nat /\ due' \in Nat /\ now' <= due'
    BY DEF IInv, TypeOK, ReturnEarly, WaitIn
  <2>3. attempt' \in Nat /\ began' \in 0..now' /\ sent' \in 0..now'
    BY DEF IInv, TypeOK, ReturnEarly
  <2>4. error' \in Errors \cup {"None"} /\ verdict' \in Verdicts
    BY DEF IInv, TypeOK, outcome, Errors, Verdicts, ReturnEarly
  <2>5. /\ pending' \subseteq 1..attempt' /\ done' \subseteq 1..attempt'
        /\ pending' \cap done' = {}
    BY DEF IInv, TypeOK, wire, ReturnEarly
  <2>6. QED  BY <2>1, <2>2, <2>3, <2>4, <2>5 DEF TypeOK
<1>2. Counted'
  BY SameCall DEF IInv, Counted, ReturnEarly, WaitIn
<1>3. Classified'
  BY DEF IInv, outcome, Classified, ReturnEarly, WaitIn
<1>4. AttemptWithinTotal'
  BY DEF AttemptWithinTotal, ReturnEarly, WaitIn
<1>5. OnTime'
  BY SameCall, SameBudgets, WholeAttempt, DeadlineValue, Durations
     DEF IInv, TypeOK, OnTime, InAttempt, More, ReturnEarly, WaitIn
<1>6. QED  BY <1>1, <1>2, <1>3, <1>4, <1>5 DEF IInv

LEMMA BeginAttemptKeeps == IInv /\ BeginAttempt => IInv'
<1> SUFFICES ASSUME IInv, BeginAttempt PROVE IInv'
  OBVIOUS
<1>1. TypeOK'
  <2>1. call' \in Calls /\ closed' \in BOOLEAN /\ pc' \in Pcs
    BY DEF IInv, TypeOK, Pcs, BeginAttempt, WaitIn, Errs, Fails
  <2>2. now' \in Nat /\ due' \in Nat /\ now' <= due'
    BY Budgets DEF IInv, TypeOK, BeginAttempt, WaitIn, Errs, Fails
  <2>3. attempt' \in Nat /\ began' \in 0..now' /\ sent' \in 0..now'
    BY DEF IInv, TypeOK, BeginAttempt
  <2>4. error' \in Errors \cup {"None"} /\ verdict' \in Verdicts
    BY DEF IInv, TypeOK, outcome, Errors, Verdicts, BeginAttempt, Errs, Fails
  <2>5. /\ pending' \subseteq 1..attempt' /\ done' \subseteq 1..attempt'
        /\ pending' \cap done' = {}
    BY DEF IInv, TypeOK, wire, BeginAttempt
  <2>6. QED  BY <2>1, <2>2, <2>3, <2>4, <2>5 DEF TypeOK
<1>2. Counted'
  BY SameCall, Durations
     DEF IInv, TypeOK, wire, Counted, Attempts, BeginAttempt, WaitIn, Errs,
         Fails
<1>3. Classified'
  BY DEF IInv, outcome, Classified, is_retryable, BeginAttempt, WaitIn, Errs,
         Fails
<1>4. AttemptWithinTotal'
  BY SameCall, Budgets
     DEF IInv, TypeOK, AttemptWithinTotal, BeginAttempt, WaitIn, Errs, Fails
<1>5. OnTime'
  BY SameCall, SameBudgets, WholeAttempt, DeadlineValue, Budgets
     DEF IInv, TypeOK, OnTime, BeginAttempt, WaitIn, Errs, Fails
<1>6. QED  BY <1>1, <1>2, <1>3, <1>4, <1>5 DEF IInv

LEMMA GetLaneKeeps == IInv /\ GetLane => IInv'
<1> SUFFICES ASSUME IInv, GetLane PROVE IInv'
  OBVIOUS
<1>1. TypeOK'
  <2>1. call' \in Calls /\ closed' \in BOOLEAN /\ pc' \in Pcs
    BY DEF IInv, TypeOK, Pcs, GetLane, WaitIn, Errs, Fails, HandOver
  <2>2. now' \in Nat /\ due' \in Nat /\ now' <= due'
    <3> DEFINE b == CommandBudget(now - began)
    <3>1. b \in Nat /\ Less(b, response_timeout) \in Nat
      BY Budgets, Durations DEF IInv, TypeOK, Less, response_timeout
    <3>2. now' = now /\ (due' = now \/ due' = now + Less(b, response_timeout))
      BY DEF IInv, TypeOK, GetLane, WaitIn, Errs, Fails, HandOver
    <3>3. QED  BY <3>1, <3>2 DEF IInv, TypeOK
  <2>3. attempt' \in Nat /\ began' \in 0..now' /\ sent' \in 0..now'
    BY DEF IInv, TypeOK, GetLane, Fails, HandOver
  <2>4. error' \in Errors \cup {"None"} /\ verdict' \in Verdicts
    BY DEF IInv, TypeOK, outcome, Errors, Verdicts, GetLane, Errs, Fails,
           HandOver
  <2>5. /\ pending' \subseteq 1..attempt' /\ done' \subseteq 1..attempt'
        /\ pending' \cap done' = {}
    <3>1. /\ pending' = pending \/ pending' = pending \cup {attempt}
          /\ done' = done /\ attempt' = attempt
      BY DEF GetLane, HandOver
    <3>2. attempt \in 1..attempt /\ attempt \notin done
      BY DEF IInv, TypeOK, Counted, GetLane
    <3>3. QED  BY <3>1, <3>2 DEF IInv, TypeOK
  <2>6. QED  BY <2>1, <2>2, <2>3, <2>4, <2>5 DEF TypeOK
<1>2. Counted'
  BY SameCall DEF IInv, Counted, GetLane, WaitIn, Errs, Fails, HandOver
<1>3. Classified'
  BY DEF IInv, outcome, Classified, is_retryable, GetLane, WaitIn, Errs, Fails,
         HandOver
<1>4. AttemptWithinTotal'
  <2> DEFINE b == CommandBudget(now - began)
  <2> SUFFICES ASSUME NEW t \in Total, pc' = "running"
               PROVE  due' <= began' + t
    BY SameCall DEF AttemptWithinTotal, GetLane, WaitIn, Errs, Fails, HandOver
  <2>1. b \in Nat /\ t \in Nat /\ (b > 0 => (now - began) + b <= t)
    BY Budgets DEF IInv, TypeOK
  <2>2. b > 0 /\ due' = now + Less(b, response_timeout) /\ began' = began
    BY DEF GetLane, WaitIn, Errs, Fails, HandOver
  <2>3. QED  BY <2>1, <2>2, Durations DEF IInv, TypeOK, Less, response_timeout
<1>5. OnTime'
  <2> DEFINE b == CommandBudget(now - began)
  <2>0. UNCHANGED <<call, now, began>>
    BY DEF GetLane
  <2>1. /\ now \in Nat /\ began \in Nat /\ due \in Nat /\ began <= now
        /\ now <= began + AcquireBudget
    BY Budgets DEF IInv, TypeOK, OnTime, GetLane
  <2>2. b \in Nat /\ (b > 0 => (now - began) + b <= AttemptBudget)
    BY <2>1, Budgets, WholeAttempt DEF IInv, TypeOK
  <2>3. /\ pc' \in {"running", "failed"}
        /\ due' = now \/ (b > 0 /\ due' = now + Less(b, response_timeout))
    BY <2>1 DEF GetLane, WaitIn, Errs, Fails, HandOver
  <2>4. due' <= began + AttemptBudget
    BY <2>1, <2>2, <2>3, Budgets, WholeAttempt, Durations
       DEF IInv, TypeOK, Less, response_timeout
  <2>5. QED
    BY <2>3, <2>4, SameCall, SameBudgets DEF IInv, OnTime, InAttempt, GetLane
<1>6. QED  BY <1>1, <1>2, <1>3, <1>4, <1>5 DEF IInv

LEMMA TimeOutKeeps == IInv /\ TimeOut => IInv'
<1> SUFFICES ASSUME IInv, TimeOut PROVE IInv'
  OBVIOUS
<1>1. TypeOK'
  <2>1. call' \in Calls /\ closed' \in BOOLEAN /\ pc' \in Pcs
    BY DEF IInv, TypeOK, Pcs, TimeOut, WaitIn, Errs, Fails
  <2>2. now' \in Nat /\ due' \in Nat /\ now' <= due'
    BY DEF IInv, TypeOK, TimeOut, WaitIn, Errs, Fails
  <2>3. attempt' \in Nat /\ began' \in 0..now' /\ sent' \in 0..now'
    BY DEF IInv, TypeOK, TimeOut
  <2>4. error' \in Errors \cup {"None"} /\ verdict' \in Verdicts
    BY DriverErrors DEF Errors, Verdicts, TimeOut, Errs, Fails, GivenUp
  <2>5. /\ pending' \subseteq 1..attempt' /\ done' \subseteq 1..attempt'
        /\ pending' \cap done' = {}
    BY DEF IInv, TypeOK, wire, TimeOut
  <2>6. QED  BY <2>1, <2>2, <2>3, <2>4, <2>5 DEF TypeOK
<1>2. Counted'
  BY SameCall DEF IInv, Counted, TimeOut, WaitIn, Errs, Fails
<1>3. Classified'
  BY DriverErrors
     DEF Classified, is_retryable, TimeOut, WaitIn, Errs, Fails, GivenUp
<1>4. AttemptWithinTotal'
  BY DEF AttemptWithinTotal, TimeOut, WaitIn, Errs, Fails
<1>5. OnTime'
  BY SameCall, SameBudgets
     DEF IInv, TypeOK, OnTime, InAttempt, TimeOut, WaitIn, Errs, Fails
<1>6. QED  BY <1>1, <1>2, <1>3, <1>4, <1>5 DEF IInv

LEMMA NothingCameKeeps == IInv /\ NothingCame => IInv'
<1> SUFFICES ASSUME IInv, NothingCame PROVE IInv'
  OBVIOUS
<1>1. TypeOK'
  BY Durations DEF IInv, TypeOK, outcome, Pcs, NothingCame, WaitIn
<1>2. Counted'
  BY SameCall DEF IInv, Counted, NothingCame, WaitIn
<1>3. Classified'
  BY DEF IInv, outcome, Classified, NothingCame, WaitIn
<1>4. AttemptWithinTotal'
  BY DEF AttemptWithinTotal, NothingCame, WaitIn
<1>5. OnTime'
  BY SameCall, SameBudgets, WholeAttempt, DeadlineValue, Durations
     DEF IInv, TypeOK, OnTime, InAttempt, More, NothingCame, WaitIn
<1>6. QED  BY <1>1, <1>2, <1>3, <1>4, <1>5 DEF IInv

LEMMA ReplyKeeps == IInv /\ Reply => IInv'
<1> SUFFICES ASSUME IInv, Reply PROVE IInv'
  OBVIOUS
<1>1. TypeOK'
  BY DEF IInv, TypeOK, outcome, wire, Pcs, Reply, WaitIn
<1>2. Counted'
  BY SameCall DEF IInv, Counted, Reply, WaitIn
<1>3. Classified'
  BY DEF IInv, outcome, Classified, Reply, WaitIn
<1>4. AttemptWithinTotal'
  BY DEF AttemptWithinTotal, Reply, WaitIn
<1>5. OnTime'
  BY SameCall, SameBudgets, WholeAttempt, DeadlineValue, Durations
     DEF IInv, TypeOK, OnTime, InAttempt, More, Reply, WaitIn
<1>6. QED  BY <1>1, <1>2, <1>3, <1>4, <1>5 DEF IInv

LEMMA RefusedKeeps == IInv /\ Refused => IInv'
<1> SUFFICES ASSUME IInv, Refused PROVE IInv'
  OBVIOUS
<1>0. /\ error' \in Errors /\ verdict' \in Verdicts
      /\ verdict' = "final" <=> ~is_retryable(error')
      /\ WaitIn("failed", 0)
  <2>1. CASE \E a \in Passing : Errs(map_redis_error(a[1], a[2]))
    BY <2>1, PassingClassified DEF Errs, Fails, Verdicts
  <2>2. CASE \E a \in Lasting :
               Fails(map_redis_error(a[1], a[2]),
                     IF LooksPassing(a[1], a[2]) THEN "disguised" ELSE "final")
    BY <2>2, LastingClassified DEF Fails, Verdicts
  <2>3. QED  BY <2>1, <2>2 DEF Refused
<1>1. TypeOK'
  BY <1>0 DEF IInv, TypeOK, Pcs, Refused, WaitIn
<1>2. Counted'
  BY <1>0, SameCall DEF IInv, Counted, Refused, WaitIn
<1>3. Classified'
  BY <1>0 DEF Classified, WaitIn
<1>4. AttemptWithinTotal'
  BY <1>0 DEF AttemptWithinTotal, WaitIn
<1>5. OnTime'
  BY <1>0, SameCall, SameBudgets, WholeAttempt
     DEF IInv, TypeOK, OnTime, InAttempt, Refused, WaitIn
<1>6. QED  BY <1>1, <1>2, <1>3, <1>4, <1>5 DEF IInv

LEMMA BadReplyKeeps == IInv /\ BadReply => IInv'
<1> SUFFICES ASSUME IInv, BadReply PROVE IInv'
  OBVIOUS
<1>1. TypeOK'
  <2>1. call' \in Calls /\ closed' \in BOOLEAN /\ pc' \in Pcs
    BY DEF IInv, TypeOK, Pcs, BadReply, WaitIn, Fails
  <2>2. now' \in Nat /\ due' \in Nat /\ now' <= due'
    BY DEF IInv, TypeOK, BadReply, WaitIn, Fails
  <2>3. attempt' \in Nat /\ began' \in 0..now' /\ sent' \in 0..now'
    BY DEF IInv, TypeOK, BadReply
  <2>4. error' \in Errors \cup {"None"} /\ verdict' \in Verdicts
    BY DriverErrors DEF Errors, Verdicts, BadReply, Fails
  <2>5. /\ pending' \subseteq 1..attempt' /\ done' \subseteq 1..attempt'
        /\ pending' \cap done' = {}
    BY DEF IInv, TypeOK, wire, BadReply
  <2>6. QED  BY <2>1, <2>2, <2>3, <2>4, <2>5 DEF TypeOK
<1>2. Counted'
  BY SameCall DEF IInv, Counted, BadReply, WaitIn, Fails
<1>3. Classified'
  BY DriverErrors DEF Classified, is_retryable, BadReply, WaitIn, Fails
<1>4. AttemptWithinTotal'
  BY DEF AttemptWithinTotal, BadReply, WaitIn, Fails
<1>5. OnTime'
  BY SameCall, SameBudgets, WholeAttempt
     DEF IInv, TypeOK, OnTime, InAttempt, BadReply, WaitIn, Fails
<1>6. QED  BY <1>1, <1>2, <1>3, <1>4, <1>5 DEF IInv

LEMMA BrokenKeeps == IInv /\ Broken => IInv'
<1> SUFFICES ASSUME IInv, Broken PROVE IInv'
  OBVIOUS
<1>1. TypeOK'
  <2>1. call' \in Calls /\ closed' \in BOOLEAN /\ pc' \in Pcs
    BY DEF IInv, TypeOK, Pcs, Broken, WaitIn, Errs, Fails
  <2>2. now' \in Nat /\ due' \in Nat /\ now' <= due'
    BY DEF IInv, TypeOK, Broken, WaitIn, Errs, Fails
  <2>3. attempt' \in Nat /\ began' \in 0..now' /\ sent' \in 0..now'
    BY DEF IInv, TypeOK, Broken
  <2>4. error' \in Errors \cup {"None"} /\ verdict' \in Verdicts
    BY DriverErrors DEF Errors, Verdicts, Broken, Errs, Fails
  <2>5. /\ pending' \subseteq 1..attempt' /\ done' \subseteq 1..attempt'
        /\ pending' \cap done' = {}
    BY DEF IInv, TypeOK, wire, Broken
  <2>6. QED  BY <2>1, <2>2, <2>3, <2>4, <2>5 DEF TypeOK
<1>2. Counted'
  BY SameCall DEF IInv, Counted, Broken, WaitIn, Errs, Fails
<1>3. Classified'
  BY DriverErrors DEF Classified, is_retryable, Broken, WaitIn, Errs, Fails
<1>4. AttemptWithinTotal'
  BY DEF AttemptWithinTotal, Broken, WaitIn, Errs, Fails
<1>5. OnTime'
  BY SameCall, SameBudgets, WholeAttempt
     DEF IInv, TypeOK, OnTime, InAttempt, Broken, WaitIn, Errs, Fails
<1>6. QED  BY <1>1, <1>2, <1>3, <1>4, <1>5 DEF IInv

LEMMA DecideKeeps == IInv /\ Decide => IInv'
<1> SUFFICES ASSUME IInv, Decide PROVE IInv'
  OBVIOUS
<1>1. TypeOK'
  BY Durations DEF IInv, TypeOK, outcome, wire, Pcs, Decide, WaitIn, Return
<1>2. Counted'
  BY SameCall DEF IInv, Counted, Decide, WaitIn, Return, should_continue
<1>3. Classified'
  BY SameCall, DeadlineValue, Durations
     DEF IInv, TypeOK, outcome, Counted, Attempts, Classified, Decide, WaitIn,
         Return, should_continue
<1>4. AttemptWithinTotal'
  BY DEF AttemptWithinTotal, Decide, WaitIn, Return
<1>5. OnTime'
  BY SameCall, SameBudgets, WholeAttempt, DeadlineValue, Durations
     DEF IInv, TypeOK, OnTime, InAttempt, More, Decide, WaitIn, Return,
         should_continue
<1>6. QED  BY <1>1, <1>2, <1>3, <1>4, <1>5 DEF IInv

LEMMA PauseKeeps == IInv /\ Pause => IInv'
<1> SUFFICES ASSUME IInv, Pause PROVE IInv'
  OBVIOUS
<1>0. UNCHANGED call
  BY DEF Pause
<1>1. TypeOK'
  <2>1. call' \in Calls /\ closed' \in BOOLEAN /\ pc' \in Pcs
    BY DEF IInv, TypeOK, Pcs, Pause, WaitIn, Return
  <2>2. now' \in Nat /\ due' \in Nat /\ now' <= due'
    BY PauseDuration DEF IInv, TypeOK, Pause, WaitIn, Return
  <2>3. attempt' \in Nat /\ began' \in 0..now' /\ sent' \in 0..now'
    BY DEF IInv, TypeOK, Pause
  <2>4. error' \in Errors \cup {"None"} /\ verdict' \in Verdicts
    BY DEF IInv, TypeOK, outcome, Errors, Verdicts, Pause, Return
  <2>5. /\ pending' \subseteq 1..attempt' /\ done' \subseteq 1..attempt'
        /\ pending' \cap done' = {}
    BY DEF IInv, TypeOK, wire, Pause
  <2>6. QED  BY <2>1, <2>2, <2>3, <2>4, <2>5 DEF TypeOK
<1>2. Counted'
  BY SameCall DEF IInv, Counted, Pause, WaitIn, Return
<1>3. Classified'
  BY DEF IInv, outcome, Classified, Pause, WaitIn, Return
<1>4. AttemptWithinTotal'
  BY DEF AttemptWithinTotal, Pause, WaitIn, Return
<1>5. OnTime'
  <2>1. CASE \E d \in call.deadline : now >= d
    BY <2>1, SameCall, SameBudgets, WholeAttempt, DeadlineValue, Durations
       DEF IInv, TypeOK, OnTime, InAttempt, More, Pause, WaitIn, Return
  <2>2. CASE \A d \in call.deadline : now < d
    <3>1. PICK b \in Pauses(attempt, now) : WaitIn("asleep", b)
      BY <2>2, DeadlineValue DEF Pause, IInv, TypeOK
    <3>2. b \in Nat /\ \A d \in call.deadline : b <= Minus(d, now)
      BY PauseDuration, PauseClipped DEF IInv, TypeOK
    <3>3. QED
      BY <1>0, <2>2, <3>1, <3>2, DeadlineValue
         DEF IInv, TypeOK, OnTime, InAttempt, Minus, WaitIn
  <2>3. QED  BY <2>1, <2>2 DEF Pause
<1>6. QED  BY <1>1, <1>2, <1>3, <1>4, <1>5 DEF IInv

LEMMA WakeKeeps == IInv /\ Wake => IInv'
<1> SUFFICES ASSUME IInv, Wake PROVE IInv'
  OBVIOUS
<1>1. TypeOK'
  BY DEF IInv, TypeOK, outcome, wire, Pcs, Wake, WaitIn
<1>2. Counted'
  BY SameCall DEF IInv, Counted, Wake, WaitIn
<1>3. Classified'
  BY DEF IInv, outcome, Classified, Wake, WaitIn
<1>4. AttemptWithinTotal'
  BY DEF AttemptWithinTotal, Wake, WaitIn
<1>5. OnTime'
  BY SameCall DEF IInv, TypeOK, OnTime, InAttempt, Wake, WaitIn
<1>6. QED  BY <1>1, <1>2, <1>3, <1>4, <1>5 DEF IInv

LEMMA ExecuteKeeps == IInv /\ Execute => IInv'
<1> SUFFICES ASSUME IInv, Execute PROVE IInv'
  OBVIOUS
<1>1. TypeOK'
  BY DEF IInv, TypeOK, outcome, Execute
<1>2. Counted'
  BY SameCall DEF IInv, Counted, Execute
<1>3. Classified'
  BY SameCall DEF IInv, outcome, Classified, Execute
<1>4. AttemptWithinTotal'
  BY SameCall DEF IInv, AttemptWithinTotal, Execute
<1>5. OnTime'
  BY SameCall, SameBudgets DEF IInv, OnTime, Execute
<1>6. QED  BY <1>1, <1>2, <1>3, <1>4, <1>5 DEF IInv

LEMMA CloseKeeps == IInv /\ Close => IInv'
<1> SUFFICES ASSUME IInv, Close PROVE IInv'
  OBVIOUS
<1>1. TypeOK'
  BY DEF IInv, TypeOK, outcome, wire, Close
<1>2. Counted'
  BY SameCall DEF IInv, wire, Counted, Close
<1>3. Classified'
  BY SameCall DEF IInv, outcome, Classified, Close
<1>4. AttemptWithinTotal'
  BY SameCall DEF IInv, AttemptWithinTotal, Close
<1>5. OnTime'
  BY SameCall, SameBudgets DEF IInv, OnTime, Close
<1>6. QED  BY <1>1, <1>2, <1>3, <1>4, <1>5 DEF IInv

LEMMA TickKeeps == IInv /\ Tick => IInv'
<1> SUFFICES ASSUME IInv, Tick PROVE IInv'
  OBVIOUS
<1>1. TypeOK'
  BY DEF IInv, TypeOK, outcome, wire, Tick
<1>2. Counted'
  BY SameCall DEF IInv, wire, Counted, Tick
<1>3. Classified'
  BY SameCall, DeadlineValue DEF IInv, TypeOK, outcome, Classified, Tick
<1>4. AttemptWithinTotal'
  BY SameCall DEF IInv, AttemptWithinTotal, Tick
<1>5. OnTime'
  BY SameCall, SameBudgets DEF IInv, OnTime, Tick
<1>6. QED  BY <1>1, <1>2, <1>3, <1>4, <1>5 DEF IInv

-----------------------------------------------------------------------------
(* The length of a call.                                                   *)

(* Rounds adds up, one attempt and one pause at a time.                    *)
LEMMA RoundsSum ==
  ASSUME call \in Calls, NEW n \in Nat
  PROVE  /\ Rounds(n) \in Nat
         /\ Rounds(n + 1) = Rounds(n) + AttemptBudget + max_backoff + Gap
         /\ Rounds(0) = 0
<1> DEFINE r == AttemptBudget + max_backoff + Gap
<1>1. r \in Nat /\ AttemptBudget \in Nat /\ max_backoff \in Nat /\ Gap \in Nat
  BY WholeAttempt, CallAssumption DEF CallAssumption
<1>2. Rounds(n) = n * r /\ Rounds(n + 1) = (n + 1) * r /\ Rounds(0) = 0 * r
  BY DEF Rounds
<1>3. ASSUME NEW c \in Nat
      PROVE  n * c \in Nat /\ (n + 1) * c = n * c + c /\ 0 * c = 0
  OBVIOUS
<1>4. n * r \in Nat /\ (n + 1) * r = n * r + r /\ 0 * r = 0
  <2> HIDE DEF r
  <2>1. QED  BY <1>1, <1>3
<1>5. QED  BY <1>1, <1>2, <1>4

(* More of them take longer.                                               *)
LEMMA RoundsGrow ==
  ASSUME call \in Calls, NEW m \in Nat, NEW n \in Nat, m <= n
  PROVE  Rounds(m) <= Rounds(n)
<1> DEFINE r == AttemptBudget + max_backoff + Gap
<1>1. r \in Nat
  BY WholeAttempt, CallAssumption DEF CallAssumption
<1>2. Rounds(m) = m * r /\ Rounds(n) = n * r
  BY DEF Rounds
<1>3. ASSUME NEW c \in Nat PROVE m * c <= n * c
  <2>1. PICK k \in Nat : n = m + k
    <3>1. n - m \in Nat /\ n = m + (n - m)
      OBVIOUS
    <3>2. QED  BY <3>1
  <2>2. n * c = m * c + k * c /\ k * c >= 0
    BY <2>1
  <2>3. QED  BY <2>2
<1>4. m * r <= n * r
  <2> HIDE DEF r
  <2>1. QED  BY <1>1, <1>3
<1>5. QED  BY <1>2, <1>4

(* The parts of Lengthy after a step, in terms of the budgets before it.   *)
LEMMA LengthyNext ==
  ASSUME call' = call,
         pc' \in {"pausing", "asleep"} => attempt' >= 1,
         pc' \in {"start", "asleep"} => due' <= Rounds(attempt'),
         pc' \in InAttempt => began' <= Rounds(attempt' - 1),
         pc' = "pausing" => due' <= Rounds(attempt' - 1) + AttemptBudget + Gap,
         pc' \in {"ok", "err"} => due' <= Rounds(Attempts - 1) + AttemptBudget
  PROVE  Lengthy'
BY SameCall, SameBudgets DEF Lengthy, Rounds, InAttempt

(* What is known of the numbers in a state.                                *)
LEMMA Numbers ==
  ASSUME IInv, Lengthy
  PROVE  /\ now \in Nat /\ due \in Nat /\ now <= due /\ began \in Nat
         /\ attempt \in Nat /\ Attempts \in Nat /\ attempt <= Attempts
         /\ Attempts - 1 \in Nat /\ Rounds(attempt) \in Nat
         /\ AttemptBudget \in Nat /\ max_backoff \in Nat /\ Gap \in Nat
         /\ Rounds(Attempts - 1) \in Nat
         /\ attempt < Attempts => Rounds(attempt) <= Rounds(Attempts - 1)
         /\ attempt >= 1 =>
              /\ Rounds(attempt - 1) \in Nat
              /\ Rounds(attempt - 1) <= Rounds(Attempts - 1)
              /\ Rounds(attempt)
                   = Rounds(attempt - 1) + AttemptBudget + max_backoff + Gap
<1>1. /\ now \in Nat /\ due \in Nat /\ now <= due /\ began \in Nat
      /\ attempt \in Nat /\ call \in Calls
  BY DEF IInv, TypeOK
<1>2. Attempts \in Nat /\ attempt <= Attempts /\ Attempts - 1 \in Nat
  BY AttemptsPositive DEF IInv, Counted
<1>3. Rounds(attempt) \in Nat /\ Rounds(Attempts - 1) \in Nat
  BY <1>1, <1>2, RoundsSum
<1>4. AttemptBudget \in Nat /\ max_backoff \in Nat /\ Gap \in Nat
  BY <1>1, WholeAttempt, CallAssumption DEF CallAssumption
<1>5. attempt < Attempts => Rounds(attempt) <= Rounds(Attempts - 1)
  BY <1>1, <1>2, RoundsGrow
<1>6. ASSUME attempt >= 1
      PROVE  /\ Rounds(attempt - 1) \in Nat
             /\ Rounds(attempt - 1) <= Rounds(Attempts - 1)
             /\ Rounds(attempt)
                   = Rounds(attempt - 1) + AttemptBudget + max_backoff + Gap
  <2>1. attempt - 1 \in Nat /\ attempt - 1 <= Attempts - 1
    BY <1>1, <1>2, <1>6
  <2>2. (attempt - 1) + 1 = attempt
    BY <1>1
  <2>3. Rounds((attempt - 1) + 1)
          = Rounds(attempt - 1) + AttemptBudget + max_backoff + Gap
    BY <1>1, <2>1, RoundsSum
  <2>4. QED  BY <1>1, <1>2, <2>1, <2>2, <2>3, RoundsSum, RoundsGrow
<1>7. QED  BY <1>1, <1>2, <1>3, <1>4, <1>5, <1>6

(* Nothing has been spent at first.                                        *)
LEMMA LengthyAtFirst == Init => Lengthy
<1> SUFFICES ASSUME Init PROVE Lengthy
  OBVIOUS
<1>1. call \in Calls /\ attempt = 0 /\ due = 0 /\ pc = "start"
  BY DEF Init
<1>2. Rounds(0) = 0
  BY <1>1, RoundsSum
<1>3. QED  BY <1>1, <1>2 DEF Lengthy, InAttempt

(* The steps of an attempt, and what with_retry makes of its error.        *)
LEMMA AttemptGoesOn ==
  ASSUME IInv, Lengthy, UNCHANGED <<call, attempt, began>>, pc \in InAttempt,
         pc' \in InAttempt \cup {"pausing", "ok", "err"},
         pc' \in {"ok", "err"} => due' = now,
         pc' = "pausing" => due' = now + Gap
  PROVE  Lengthy'
<1>1. attempt \in Nat /\ attempt >= 1
  BY DEF IInv, TypeOK, Counted, InAttempt
<1>2. began <= Rounds(attempt - 1) /\ due <= began + AttemptBudget
  BY DEF IInv, OnTime, Lengthy
<1>3. now <= Rounds(attempt - 1) + AttemptBudget
  BY <1>1, <1>2, Numbers
<1>4. pc' = "pausing" => due' <= Rounds(attempt - 1) + AttemptBudget + Gap
  BY <1>1, <1>3, Numbers
<1>5. pc' \in {"ok", "err"} => due' <= Rounds(Attempts - 1) + AttemptBudget
  BY <1>1, <1>3, Numbers
<1>6. pc' \notin {"start", "asleep"}
  BY DEF InAttempt
<1>7. QED  BY <1>1, <1>2, <1>4, <1>5, <1>6, LengthyNext

(* Every step keeps to the budget.                                         *)
LEMMA LengthyKept == IInv /\ Lengthy /\ [Next]_vars => Lengthy'
<1> SUFFICES ASSUME IInv, Lengthy, [Next]_vars PROVE Lengthy'
  OBVIOUS
<1>1. CASE ReturnEarly
  <2>1. /\ UNCHANGED <<call, attempt, began>> /\ pc = "start"
        /\ pc' \in {"ok", "err"} /\ due' = now
    BY <1>1, Numbers DEF ReturnEarly, WaitIn
  <2>2. due <= Rounds(attempt) /\ attempt < Attempts
    BY <2>1, Numbers DEF IInv, Counted, Lengthy, Attempts
  <2>3. due' <= Rounds(Attempts - 1) + AttemptBudget
    BY <2>1, <2>2, Numbers
  <2>4. QED  BY <2>1, <2>3, LengthyNext DEF InAttempt
<1>2. CASE BeginAttempt
  <2>1. /\ call' = call /\ attempt' = attempt + 1 /\ began' = now
        /\ pc = "start" /\ pc' \in {"queued", "failed"}
    BY <1>2 DEF BeginAttempt, WaitIn, Errs, Fails
  <2>2. attempt' - 1 = attempt
    BY <2>1, Numbers
  <2>3. began' <= Rounds(attempt)
    BY <2>1, Numbers DEF Lengthy
  <2>4. QED  BY <2>1, <2>2, <2>3, LengthyNext
<1>3. CASE GetLane \/ TimeOut \/ NothingCame \/ Reply
  <2>1. /\ UNCHANGED <<call, attempt, began>> /\ pc \in InAttempt
        /\ pc' \in InAttempt \cup {"ok"} /\ (pc' = "ok" => due' = now)
    BY <1>3, Numbers
       DEF GetLane, HandOver, TimeOut, NothingCame, Reply, WaitIn, Errs,
           Fails, InAttempt
  <2>2. QED  BY <2>1, AttemptGoesOn DEF InAttempt
<1>4. CASE Refused \/ BadReply \/ Broken
  <2>1. /\ UNCHANGED <<call, attempt, began>> /\ pc \in InAttempt
        /\ pc' = "failed"
    BY <1>4 DEF Refused, BadReply, Broken, WaitIn, Errs, Fails, InAttempt
  <2>2. QED  BY <2>1, AttemptGoesOn DEF InAttempt
<1>5. CASE Decide
  <2>1. /\ UNCHANGED <<call, attempt, began>> /\ pc \in InAttempt
        /\ \/ pc' = "err" /\ due' = now
           \/ pc' = "pausing" /\ due' = now + Gap
    BY <1>5, Numbers DEF Decide, WaitIn, Return, InAttempt
  <2>2. QED  BY <2>1, AttemptGoesOn DEF InAttempt
<1>6. CASE Pause
  <2>1. /\ UNCHANGED <<call, attempt, began, now>> /\ pc = "pausing"
        /\ \/ pc' = "err" /\ due' = now
           \/ pc' = "asleep" /\ \E b \in Pauses(attempt, now) : due' = now + b
    BY <1>6, Numbers DEF Pause, WaitIn, Return
  <2>2. /\ attempt >= 1 /\ due <= Rounds(attempt - 1) + AttemptBudget + Gap
        /\ attempt < Attempts
    BY <2>1, Numbers DEF Lengthy, IInv, Counted, Attempts
  <2>3. now <= Rounds(attempt - 1) + AttemptBudget + Gap
    BY <2>2, Numbers
  <2>4. CASE pc' = "err"
    <3>1. due' <= Rounds(attempt)
      BY <2>1, <2>2, <2>3, <2>4, Numbers
    <3>2. due' <= Rounds(Attempts - 1) + AttemptBudget
      BY <2>1, <2>2, <2>4, <3>1, Numbers
    <3>3. QED  BY <2>1, <2>4, <3>2, LengthyNext DEF InAttempt
  <2>5. CASE pc' = "asleep"
    <3>1. PICK b \in Pauses(attempt, now) : due' = now + b
      BY <2>1, <2>5
    <3>2. b \in Nat /\ b <= max_backoff
      BY Numbers, PauseBounded
    <3>3. due' <= Rounds(attempt)
      BY <2>2, <2>3, <3>1, <3>2, Numbers
    <3>4. QED  BY <2>1, <2>2, <2>5, <3>3, LengthyNext DEF InAttempt
  <2>6. QED  BY <2>1, <2>4, <2>5
<1>7. CASE Wake
  <2>1. /\ UNCHANGED <<call, attempt, began>> /\ pc = "asleep" /\ pc' = "start"
        /\ due' = now
    BY <1>7, Numbers DEF Wake, WaitIn
  <2>2. due' <= Rounds(attempt)
    BY <2>1, Numbers DEF Lengthy
  <2>3. QED  BY <2>1, <2>2, LengthyNext DEF InAttempt
<1>8. CASE Execute \/ Close \/ Tick \/ UNCHANGED vars
  <2>1. UNCHANGED <<call, attempt, began, pc, due>>
    BY <1>8 DEF Execute, Close, Tick, vars
  <2>2. QED  BY <2>1, LengthyNext DEF Lengthy
<1>9. QED
  BY <1>1, <1>2, <1>3, <1>4, <1>5, <1>6, <1>7, <1>8 DEF Next, Advance

(* The budget is the one of the property.                                  *)
LEMMA LengthyEnds == IInv /\ Lengthy => EndsWithinAttempts
<1> SUFFICES ASSUME IInv, Lengthy PROVE EndsWithinAttempts
  OBVIOUS
<1> DEFINE g == max_backoff + Gap
           k == Attempts - 1
<1>1. now <= Rounds(k) + AttemptBudget
  <2>1. pc \in InAttempt \cup {"pausing"} => attempt >= 1
    BY Numbers DEF IInv, Counted, Lengthy, InAttempt
  <2>2. pc \in InAttempt => now <= Rounds(k) + AttemptBudget
    <3>1. pc \in InAttempt => /\ began <= Rounds(attempt - 1)
                              /\ due <= began + AttemptBudget
      BY DEF IInv, OnTime, Lengthy
    <3>2. QED  BY <2>1, <3>1, Numbers
  <2>3. pc \in {"start", "asleep"} =>
          attempt < Attempts /\ due <= Rounds(attempt)
    BY Numbers DEF IInv, Counted, Lengthy, Attempts
  <2>4. pc = "pausing" =>
          /\ attempt < Attempts
          /\ due <= Rounds(attempt - 1) + AttemptBudget + Gap
    BY Numbers DEF IInv, Counted, Lengthy, Attempts
  <2>5. pc = "pausing" => due <= Rounds(attempt)
    BY <2>1, <2>4, Numbers
  <2>6. pc \in {"ok", "err"} => due <= Rounds(k) + AttemptBudget
    BY DEF Lengthy
  <2>7. pc \in InAttempt \cup {"pausing", "start", "asleep", "ok", "err"}
    BY DEF IInv, TypeOK, Pcs, InAttempt
  <2>8. QED  BY <2>2, <2>3, <2>4, <2>5, <2>6, <2>7, Numbers
<1>2. k \in Nat /\ g \in Nat /\ AttemptBudget \in Nat /\ Attempts = k + 1
  BY Numbers
<1>3. ASSUME NEW a \in Nat, NEW b \in Nat, NEW n \in Nat
      PROVE  n * (a + b) + a = (n + 1) * a + n * b
  OBVIOUS
<1>4. Rounds(k) = k * (AttemptBudget + g)
  BY Numbers DEF Rounds
<1>5. k * (AttemptBudget + g) + AttemptBudget
        = (k + 1) * AttemptBudget + k * g
  BY <1>2, <1>3
<1>6. QED  BY <1>1, <1>2, <1>4, <1>5 DEF EndsWithinAttempts

-----------------------------------------------------------------------------
(* The theorems. *)

(* Each action keeps the invariant, and so does every step.                *)
LEMMA Inductive == IInv /\ [Next]_vars => IInv'
<1> SUFFICES ASSUME IInv, [Next]_vars PROVE IInv'
  OBVIOUS
<1>1. CASE Advance
  BY <1>1, ReturnEarlyKeeps, BeginAttemptKeeps, GetLaneKeeps, TimeOutKeeps,
     NothingCameKeeps, ReplyKeeps, RefusedKeeps, BadReplyKeeps, BrokenKeeps,
     DecideKeeps, PauseKeeps, WakeKeeps
     DEF Advance
<1>2. CASE Execute \/ Close \/ Tick
  BY <1>2, ExecuteKeeps, CloseKeeps, TickKeeps
<1>3. CASE UNCHANGED vars
  <2>1. TypeOK' /\ Counted'
    BY <1>3, SameCall DEF IInv, TypeOK, Counted, vars
  <2>2. Classified' /\ AttemptWithinTotal'
    BY <1>3, SameCall
       DEF IInv, Classified, AttemptWithinTotal, vars, is_retryable
  <2>3. OnTime'
    BY <1>3, SameCall, SameBudgets DEF IInv, OnTime, vars
  <2>4. QED  BY <2>1, <2>2, <2>3 DEF IInv
<1>4. QED  BY <1>1, <1>2, <1>3 DEF Next

(* The invariant holds in every reachable state.                           *)
THEOREM Invariance == Spec => []IInv
<1>1. QED  BY Initially, Inductive, PTL DEF Spec

(* Every variable has its type, and the clock never runs past a timer that *)
(* is due.                                                                 *)
THEOREM TypeCorrect == Spec => []TypeOK
<1>1. IInv => TypeOK
  BY DEF IInv
<1>2. QED  BY <1>1, Invariance, PTL

(* No write is handed to the server twice in one call, whatever the retry  *)
(* configuration, the deadlines and the errors.                            *)
THEOREM WriteHandedOverOnce == Spec => []WritesOnce
<1>1. ASSUME IInv, call.op \notin Reads
      PROVE  Cardinality(pending \cup done) <= 1
  <2>1. attempt \in Nat /\ attempt <= 1
    BY <1>1, RoutedReads DEF IInv, TypeOK, Counted, Attempts
  <2>2. pending \cup done \subseteq {1}
    BY <1>1, <2>1 DEF IInv, TypeOK
  <2>3. IsFiniteSet({1}) /\ Cardinality({1}) = 1
    BY FS_Singleton
  <2>4. QED  BY <2>2, <2>3, FS_Subset, FS_CardinalityType
<1>2. IInv => WritesOnce
  BY <1>1 DEF WritesOnce
<1>3. QED  BY <1>2, Invariance, PTL

(* With a call_deadline the wait for a lane and the command of one attempt *)
(* share it.                                                               *)
THEOREM AttemptKeepsToTotal == Spec => []AttemptWithinTotal
<1>1. IInv => AttemptWithinTotal
  BY DEF IInv
<1>2. QED  BY <1>1, Invariance, PTL

(* A retried call that gives up has spent its attempts or its deadline, or *)
(* met an error that no other attempt can cure and that does not look like *)
(* one that passes; for such an error it gives up at once.                 *)
THEOREM GivesUpOnlyWhenSpent == Spec => []BudgetSpent
<1>1. IInv => BudgetSpent
  BY DEF IInv, Counted, Classified, BudgetSpent
<1>2. QED  BY <1>1, Invariance, PTL

(* A retried call overruns its retry deadline by at most one attempt under *)
(* its own budgets: every attempt begins within the deadline.              *)
THEOREM RetryDeadlineKept == Spec => []EndsNearDeadline
<1>1. IInv => EndsNearDeadline
  <2> SUFFICES ASSUME IInv, Routed, NEW d \in call.deadline
               PROVE  now <= d + More(AttemptBudget, Gap)
    BY DEF EndsNearDeadline
  <2>1. d \in Nat /\ AttemptBudget \in Nat /\ Gap \in Nat /\ now <= due
    BY DeadlineValue, WholeAttempt, Durations DEF IInv, TypeOK
  <2>2. due <= d + More(AttemptBudget, Gap)
    BY <2>1 DEF IInv, TypeOK, OnTime, InAttempt, Pcs, More
  <2>3. QED  BY <2>1, <2>2 DEF IInv, TypeOK, More
<1>2. QED  BY <1>1, Invariance, PTL

(* A call is over within its attempts under their own budgets and the      *)
(* pauses between them, and within one attempt of its retry deadline,      *)
(* whatever the pool, the server and the connection do (with_retry,        *)
(* run_timed, execute_with_total_deadline).                                *)
THEOREM CallEndsInTime == Spec => []EndsInTime
<1>1. Spec => [](IInv /\ Lengthy)
  BY Initially, Inductive, LengthyAtFirst, LengthyKept, PTL DEF Spec
<1>2. QED
  BY <1>1, LengthyEnds, RetryDeadlineKept, PTL DEF EndsInTime
=============================================================================
