-------------------------- MODULE OrderLifecycle --------------------------
(***************************************************************************)
(* What the order queue promises to whoever follows one order: it moves    *)
(* forward only, it is closed once, it is forgotten only once closed, and  *)
(* it is recorded as done or failed by the agent only if the agent ran it. *)
(* Nothing is said of how the list is stored, groomed or transported.      *)
(***************************************************************************)
EXTENDS Naturals

CONSTANT Orders

VARIABLES
  stage,   \* where each order is
  ran      \* the orders the agent began to execute

lifeVars == <<stage, ran>>

Open   == {"pending", "running"}
Closed == {"done", "failed"}
Stages == {"absent", "forgotten"} \union Open \union Closed

LifeTypeOK ==
  /\ stage \in [Orders -> Stages]
  /\ ran \subseteq Orders

LifeInit ==
  /\ stage = [o \in Orders |-> "absent"]
  /\ ran = {}

\* Closing without the agent (expiry, cancellation) and forgetting.
Tidied(o) ==
  \/ stage'[o] = stage[o]
  \/ stage[o] \in Open   /\ stage'[o] = "failed"
  \/ stage[o] \in Closed /\ stage'[o] = "forgotten"

Tidy ==
  /\ stage' \in [Orders -> Stages]
  /\ \A o \in Orders : Tidied(o)
  /\ UNCHANGED ran

\* One new order, whatever is tidied on the way.
Submit(n) ==
  /\ stage[n] = "absent"
  /\ stage' \in [Orders -> Stages]
  /\ stage'[n] = "pending"
  /\ \A o \in Orders \ {n} : Tidied(o)
  /\ UNCHANGED ran

\* The agent begins an order it was handed.
Begin(o) ==
  /\ stage[o] # "absent"
  /\ ran' = ran \union {o}
  /\ stage' = stage

\* The agent's acknowledgement of an open order; it may begin it at once.
Acknowledge(o) ==
  /\ stage[o] \in Open
  /\ stage' = [stage EXCEPT ![o] = "running"]
  /\ ran' \in {ran, ran \union {o}}

\* The agent's verdict on an open order it has run.
Conclude(o) ==
  /\ stage[o] \in Open
  /\ o \in ran
  /\ \E verdict \in Closed : stage' = [stage EXCEPT ![o] = verdict]
  /\ UNCHANGED ran

LifeNext ==
  \/ Tidy
  \/ \E o \in Orders : Submit(o) \/ Begin(o) \/ Acknowledge(o) \/ Conclude(o)

LifeSpec == LifeInit /\ [][LifeNext]_lifeVars
=============================================================================
