------------------------------- MODULE SandboxAPI -------------------------------
(***************************************************************************)
(* What the HTTP API promises of a sandbox, without goroutines, locks or   *)
(* maps: it is live once /create has built it, execs enter it while it is  *)
(* live and only then, closing it is final, its network slot goes back     *)
(* exactly once and before it is gone, and nothing happens after the       *)
(* server has exited.  SandboxLifecycle implements this.                   *)
(***************************************************************************)
EXTENDS Naturals

CONSTANTS
  Clients,   \* whoever calls /exec
  Ids        \* sandbox ids

VARIABLES
  box,      \* each sandbox: absent, live, closing or gone
  inside,   \* the execs in it
  freed,    \* how often its slot was given back
  up        \* the server process runs

apiVars == <<box, inside, freed, up>>

Init ==
  /\ box = [id \in Ids |-> "absent"]
  /\ inside = [id \in Ids |-> {}]
  /\ freed = [id \in Ids |-> 0]
  /\ up = TRUE

Moves(id, from, to) == box[id] = from /\ box' = [box EXCEPT ![id] = to]

Create(id) == Moves(id, "absent", "live") /\ UNCHANGED <<inside, freed, up>>

Enter(c, id) ==
  /\ box[id] = "live"
  /\ c \notin inside[id]
  /\ inside' = [inside EXCEPT ![id] = @ \cup {c}]
  /\ UNCHANGED <<box, freed, up>>

(* Also after the close: a drain has a deadline. *)
Leave(c, id) ==
  /\ c \in inside[id]
  /\ inside' = [inside EXCEPT ![id] = @ \ {c}]
  /\ UNCHANGED <<box, freed, up>>

Close(id) == Moves(id, "live", "closing") /\ UNCHANGED <<inside, freed, up>>

GiveBack(id) ==
  /\ box[id] = "closing"
  /\ freed[id] = 0
  /\ freed' = [freed EXCEPT ![id] = 1]
  /\ UNCHANGED <<box, inside, up>>

Finish(id) ==
  /\ freed[id] = 1
  /\ Moves(id, "closing", "gone")
  /\ UNCHANGED <<inside, freed, up>>

Exit == up' = FALSE /\ UNCHANGED <<box, inside, freed>>

Next ==
  /\ up
  /\ \/ \E id \in Ids : \/ Create(id) \/ Close(id) \/ GiveBack(id) \/ Finish(id)
                        \/ \E c \in Clients : Enter(c, id) \/ Leave(c, id)
     \/ Exit

Spec == Init /\ [][Next]_apiVars
=============================================================================
