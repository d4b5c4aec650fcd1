--------------------------- MODULE ServerLifecycle ---------------------------
(***************************************************************************)
(* What a server promises to its application: it opens connections between *)
(* its start and the announcement of its end, never more than limit at a   *)
(* time, and announces "close" exactly once, when it has been stopped and  *)
(* its last connection has ended.                                          *)
(***************************************************************************)
EXTENDS Naturals, FiniteSets

CONSTANT Peers   \* the connections there may be

VARIABLES
  limit,      \* most connections open at a time
  phase,      \* "new", "up" or "stopped"
  open,       \* the connections handed to the application and not ended
  announced   \* times "close" was emitted

lifeVars == <<limit, phase, open, announced>>

LifeInit == limit \in Nat /\ phase = "new" /\ open = {} /\ announced = 0

Start == phase = "new" /\ phase' = "up" /\ UNCHANGED <<limit, open, announced>>

\* A connection made before the stop may still be handed over after it.
Open ==
  /\ phase # "new" /\ announced = 0
  /\ \E c \in Peers \ open : open' = open \cup {c}
  /\ Cardinality(open') <= limit
  /\ UNCHANGED <<limit, phase, announced>>

\* The end of the last connection of a server that was stopped announces it.
End ==
  /\ announced = 0
  /\ \E c \in open : open' = open \ {c}
  /\ announced' = IF phase = "stopped" /\ open' = {} THEN 1 ELSE 0
  /\ UNCHANGED <<limit, phase>>

Stop == phase = "up" /\ phase' = "stopped" /\ UNCHANGED <<limit, open, announced>>

Announce ==
  /\ phase = "stopped" /\ open = {} /\ announced = 0
  /\ announced' = 1
  /\ UNCHANGED <<limit, phase, open>>

LifeNext == Start \/ Open \/ End \/ Stop \/ Announce

\* A server that was stopped and has drained is announced.
LifeSpec == LifeInit /\ [][LifeNext]_lifeVars
=============================================================================
