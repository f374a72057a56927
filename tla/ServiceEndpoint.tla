--------------------------- MODULE ServiceEndpoint ----------------------------
(***************************************************************************)
(* What a TripleServer whose calls are serialized promises to those who    *)
(* use its address: abstractly, a succession of generations, one for every *)
(* call of Start or RefreshService. At most one is reachable at a time, it *)
(* is newer than all that were, it offers every service that was stored    *)
(* when it was asked for, and no client is left on an older one unless     *)
(* Stop has been called. TripleServer implements this module; TripleCall   *)
(* takes it as its server.                                                 *)
(***************************************************************************)
EXTENDS Naturals

CONSTANTS Keys, MaxGen

Gens == 1..MaxGen
nil == 0

VARIABLES
  alive,     \* does the process run?
  stored,    \* services stored so far
  built,     \* how many generations there are
  want,      \* services stored when a generation was asked for, until its turn
  turns,     \* generations whose Serve goroutine has had its turn
  current,   \* the generation that is reachable, or nil
  offer,     \* the services it offers
  clients,   \* generations that have connections
  left       \* generations whose listener Stop has closed

vars == <<alive, stored, built, want, turns, current, offer, clients, left>>

TypeOK ==
  /\ alive \in BOOLEAN
  /\ stored \subseteq Keys
  /\ built \in 0..MaxGen
  /\ want \in [Gens -> SUBSET Keys]
  /\ turns \subseteq Gens
  /\ current \in Gens \cup {nil}
  /\ offer \subseteq Keys
  /\ clients \subseteq Gens
  /\ left \subseteq Gens

Init ==
  /\ alive = TRUE
  /\ stored \in SUBSET Keys
  /\ built = 0
  /\ want = [g \in Gens |-> {}]
  /\ turns = {}
  /\ current = nil /\ offer = {}
  /\ clients = {}
  /\ left = {}

-------------------------------------------------------------------------------
Store(k) ==
  /\ alive /\ k \notin stored
  /\ stored' = stored \cup {k}
  /\ UNCHANGED <<alive, built, want, turns, current, offer, clients, left>>

(* Start or RefreshService is called. *)
Build ==
  /\ alive /\ built < MaxGen
  /\ built' = built + 1
  /\ want' = [want EXCEPT ![built + 1] = stored]
  /\ UNCHANGED <<alive, stored, turns, current, offer, clients, left>>

(* The Serve goroutine of g runs, in time or too late. *)
Turn(g) == /\ turns' = turns \cup {g}
           /\ want' = [want EXCEPT ![g] = {}]

Open(g) ==
  /\ alive /\ g <= built /\ \A h \in turns : h < g
  /\ current = nil /\ clients \subseteq left
  /\ current' = g
  /\ offer' \in {ks \in SUBSET stored : want[g] \subseteq ks}
  /\ Turn(g)
  /\ UNCHANGED <<alive, stored, built, clients, left>>

Skip(g) ==
  /\ alive /\ g <= built
  /\ Turn(g)
  /\ UNCHANGED <<alive, stored, built, current, offer, clients, left>>

Leave(g) == /\ current' = IF current = g THEN nil ELSE current
            /\ offer' = IF current = g THEN {} ELSE offer

(* A refresh takes g and its connections away. *)
Replace(g) ==
  /\ alive
  /\ Leave(g)
  /\ clients' = clients \ {g}
  /\ UNCHANGED <<alive, stored, built, want, turns, left>>

(* Stop is called. *)
Stop(g) ==
  /\ alive
  /\ Leave(g)
  /\ left' = left \cup {g}
  /\ UNCHANGED <<alive, stored, built, want, turns, clients>>

Connect ==
  /\ alive /\ current # nil
  /\ clients' = clients \cup {current}
  /\ UNCHANGED <<alive, stored, built, want, turns, current, offer, left>>

Disconnect(g) ==
  /\ alive
  /\ clients' = clients \ {g}
  /\ UNCHANGED <<alive, stored, built, want, turns, current, offer, left>>

Die ==
  /\ alive
  /\ alive' = FALSE
  /\ current' = nil /\ offer' = {} /\ clients' = {}
  /\ UNCHANGED <<stored, built, want, turns, left>>

Next ==
  \/ Build \/ Connect \/ Die
  \/ \E k \in Keys : Store(k)
  \/ \E g \in Gens : \/ Open(g) \/ Skip(g) \/ Replace(g) \/ Stop(g)
                     \/ Disconnect(g)

Spec == Init /\ [][Next]_vars
===============================================================================
