----------------------------- MODULE FutureSpec -----------------------------
(***************************************************************************)
(* What a future_t promises its users (the comments of src/src/future.h):  *)
(* one thread at most becomes the producer, the producer publishes one     *)
(* result, and everyone who asks for the result gets exactly that value.   *)
(***************************************************************************)
EXTENDS Integers

CONSTANTS Threads,      \* the threads that share the future
          Errs          \* the error codes a producer may publish (negative)

VARIABLES producer,     \* {} or {t}: who owns the production
          outcome,      \* {} or {v}: the published err_t (0 is success)
          told          \* told[t]: the last answer t got from a wait; {} or {v}

specVars == <<producer, outcome, told>>

Results == {0} \cup Errs

SpecInit ==
  /\ producer = {}
  /\ outcome = {}
  /\ told = [t \in Threads |-> {}]

Claim(t) ==
  /\ producer = {}
  /\ producer' = {t}
  /\ UNCHANGED <<outcome, told>>

Publish(t, v) ==
  /\ producer = {t}
  /\ outcome = {}
  /\ outcome' = {v}
  /\ UNCHANGED <<producer, told>>

Learn(t) ==
  /\ outcome # {}
  /\ told' = [told EXCEPT ![t] = outcome]
  /\ UNCHANGED <<producer, outcome>>

SpecNext ==
  \E t \in Threads : Claim(t) \/ Learn(t) \/ \E v \in Results : Publish(t, v)

FutureContract == SpecInit /\ [][SpecNext]_specVars
=============================================================================
