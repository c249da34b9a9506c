---------------------------- MODULE LazyBinding ----------------------------
(***************************************************************************)
(* What a forwarding shim promises, with no loader, no threads waiting and *)
(* no counters: every entry point has ONE answer, fixed for the whole      *)
(* process at the moment the provider is decided; a slot that has been     *)
(* bound holds that answer for ever; and every call made after the         *)
(* decision gets it.  The only other thing a call may ever get is the      *)
(* zero-returning stub, and only before the decision.                      *)
(***************************************************************************)
CONSTANTS Threads,   \* callers
          Names,     \* entry points
          Answers,   \* addresses a call can be sent to
          Absent,    \* the zero-returning stub, one of the answers
          Undecided, \* no provider chosen yet
          Unbound    \* a slot nobody has called through yet

VARIABLES provider,  \* Undecided, or the answer of every entry point
          bound,     \* what each slot holds
          reply      \* the last <<entry point, answer>> each caller got

vars == <<provider, bound, reply>>

Init == /\ provider = Undecided
        /\ bound = [n \in Names |-> Unbound]
        /\ reply = [t \in Threads |-> {}]

\* The provider is decided once, for all the entry points together.
Decide == /\ provider = Undecided
          /\ provider' \in [Names -> Answers]
          /\ UNCHANGED <<bound, reply>>

\* A slot leaves Unbound once, and only for the provider's answer.
Bind(n) == /\ provider # Undecided
           /\ bound[n] = Unbound
           /\ bound' = [bound EXCEPT ![n] = provider[n]]
           /\ UNCHANGED <<provider, reply>>

\* A call returns the provider's answer, or zero when nothing is decided yet.
Answer(t, n) ==
  /\ \/ /\ provider = Undecided
        /\ reply' = [reply EXCEPT ![t] = {<<n, Absent>>}]
     \/ /\ provider # Undecided
        /\ reply' = [reply EXCEPT ![t] = {<<n, provider[n]>>}]
  /\ UNCHANGED <<provider, bound>>

Next == \/ Decide
        \/ \E n \in Names : Bind(n)
        \/ \E t \in Threads, n \in Names : Answer(t, n)

Spec == Init /\ [][Next]_vars
=============================================================================
