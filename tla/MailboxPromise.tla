-------------------------- MODULE MailboxPromise --------------------------
(***************************************************************************)
(* What a SoDa::MultiMBox promises the threads around it, free of the way  *)
(* it counts readers: a message posted by a producer reaches every         *)
(* subscriber exactly once, in the order that producer posted, and its     *)
(* storage belongs to the subscribers until each has let go of it.         *)
(* MultiMBox implements this (src/src/MultiMBox.hxx).                      *)
(***************************************************************************)
CONSTANTS Producers,  \* threads that post
          Subs,       \* subscribers of the mailbox
          Msgs,       \* storage a message can occupy
          NoMsg       \* "holds nothing"

VARIABLES pending,    \* pending[p][s]: messages of p that s has yet to take
          order,      \* order[s]: <<x, m>> where p posted x before m, both pending
          claim,      \* claim[m]: subscribers that have yet to let go of m
          holding     \* holding[s]: what s took and has not let go of

vars == <<pending, order, claim, holding>>

Init == /\ pending = [p \in Producers |-> [s \in Subs |-> {}]]
        /\ order = [s \in Subs |-> {}]
        /\ claim = [m \in Msgs |-> {}]
        /\ holding = [s \in Subs |-> NoMsg]

\* A post claims the storage for every subscriber, in one step.
Post(p, m) ==
  /\ claim[m] = {}
  /\ pending' = [pending EXCEPT ![p] = [s \in Subs |-> @[s] \cup {m}]]
  /\ order' = [s \in Subs |-> order[s] \cup (pending[p][s] \X {m})]
  /\ claim' = [claim EXCEPT ![m] = Subs]
  /\ UNCHANGED holding

\* s takes the oldest message that p posted and s has not had.
Take(p, s, m) ==
  /\ holding[s] = NoMsg
  /\ m \in pending[p][s]
  /\ \A x \in pending[p][s] : <<x, m>> \notin order[s]
  /\ holding' = [holding EXCEPT ![s] = m]
  /\ pending' = [pending EXCEPT ![p][s] = @ \ {m}]
  /\ order' = [order EXCEPT ![s] = {e \in @ : m \notin {e[1], e[2]}}]
  /\ UNCHANGED claim

\* s is done with what it holds.
Release(s) ==
  /\ holding[s] # NoMsg
  /\ claim' = [claim EXCEPT ![holding[s]] = @ \ {s}]
  /\ holding' = [holding EXCEPT ![s] = NoMsg]
  /\ UNCHANGED <<pending, order>>

Next == \/ \E p \in Producers, m \in Msgs : Post(p, m)
        \/ \E p \in Producers, s \in Subs, m \in Msgs : Take(p, s, m)
        \/ \E s \in Subs : Release(s)

Spec == Init /\ [][Next]_vars
=============================================================================
