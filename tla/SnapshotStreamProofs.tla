-------------------------- MODULE SnapshotStreamProofs --------------------------
(***************************************************************************)
(* Proofs about modules AgentChannel and SnapshotStream for every finite   *)
(* set of execs.  A step of SnapshotStream is a step of AgentChannel or    *)
(* leaves the channel alone, so what is proved of the channel holds while  *)
(* a snapshot is taken.                                                    *)
(***************************************************************************)
EXTENDS SnapshotStream, FiniteSetTheorems, SequenceTheorems, TLAPS

(* The places where an exec holds agentMu. *)
LockedPcs == {"dial1", "send1", "recv1", "dial2", "send2", "recv2", "reply"}
LockInv == \A e \in Execs : pc[e] \in LockedPcs <=> agentMu = e

(* Only the cached connection is open, and there is one exactly when the holder of
   the lock is past its dial; a connection not yet dialed is fresh. *)
ConnInv ==
  /\ agent <= dialed
  /\ open = {agent} \ {NoConn}
  /\ \A e \in Execs : pc[e] \in {"dial1", "dial2"} => agent = NoConn
  /\ \A e \in Execs : pc[e] \in {"send1", "recv1", "send2", "recv2"} => agent # NoConn
  /\ \A c \in Conns : c > dialed => up[c] = <<>> /\ down[c] = <<>> /\ guest[c] = "none"
  /\ \A c \in Conns : guest[c] = "running" => job[c] \in Execs

(* An exec dials at most twice, so the connections suffice. *)
Past1 == {e \in Execs : pc[e] \notin {"new", "dial1"}}
Past2 == {e \in Execs : pc[e] \in {"send2", "recv2", "reply", "done"}}
CountInv == dialed <= 1 + Cardinality(Past1) + Cardinality(Past2)

(* A start of the command of e is behind it, in a frame under way, or still to be
   sent; no connection carries the request of e twice. *)
Carries(c, e) == \E i \in 1..Len(up[c]) : up[c][i] = e
Pending(e) == {c \in Conns : Carries(c, e)}
Unsent(e) == IF pc[e] \in {"new", "dial1", "send1"} THEN 2
             ELSE IF pc[e] \in {"recv1", "dial2", "send2"} THEN 1 ELSE 0
RunsInv ==
  /\ \A c \in Conns : \A i, j \in 1..Len(up[c]) : up[c][i] = up[c][j] => i = j
  /\ \A e \in Execs : pc[e] \in {"new", "dial1", "send1"} => Pending(e) = {}
  /\ \A e \in Execs : pc[e] = "send2" => up[agent] = <<>>
  /\ \A e \in Execs : runs[e] + Cardinality(Pending(e)) + Unsent(e) <= 2

(* Nothing is under way on the connection. *)
Silent(c) == up[c] = <<>> /\ guest[c] # "running" /\ down[c] = <<>>

(* Exactly the call of e is. *)
Serves(c, e) ==
  \/ up[c] = <<e>> /\ guest[c] # "running" /\ down[c] = <<>>
  \/ up[c] = <<>> /\ guest[c] = "running" /\ job[c] = e /\ down[c] = <<>>
  \/ up[c] = <<>> /\ guest[c] # "running" /\ \E ok \in BOOLEAN : down[c] = <<[req |-> e, ok |-> ok]>>

(* Until a retry fails, the cached connection carries the holder's call or nothing. *)
CallInv ==
  ~retryLost =>
    /\ agentMu = Free /\ agent # NoConn => Silent(agent)
    /\ \A e \in Execs : pc[e] = "reply" /\ agent # NoConn => Silent(agent)
    /\ \A e \in Execs : pc[e] \in {"send1", "send2"} => Silent(agent)
    /\ \A e \in Execs : pc[e] \in {"recv1", "recv2"} => Silent(agent) \/ Serves(agent, e)

IInv == TypeOK /\ LockInv /\ ConnInv /\ CountInv /\ RunsInv /\ CallInv /\ AnswerMatches

SnapInv == snap \in SnapPcs /\ paused \in BOOLEAN /\ captured \subseteq Conns

StreamInv == IInv /\ SnapInv
-----------------------------------------------------------------------------
(* Facts about the connections and about counting.                           *)

LEMMA ConnFacts ==
  /\ Cardinality(Execs) \in Nat
  /\ 2 * Cardinality(Execs) + 1 \in Nat
  /\ IsFiniteSet(Conns) /\ Cardinality(Conns) = 2 * Cardinality(Execs) + 1
  /\ Conns \subseteq Nat /\ NoConn \notin Conns /\ 1 \in Conns
  /\ NoConn = 0
<1>1. Cardinality(Execs) \in Nat BY ChannelAssumption, FS_CardinalityType
<1>2. 2 * Cardinality(Execs) + 1 \in Nat BY <1>1
<1>3. IsFiniteSet(Conns) /\ Cardinality(Conns) = 2 * Cardinality(Execs) + 1
  <2>1. 1 \in Int /\ 2 * Cardinality(Execs) + 1 \in Int BY <1>2
  <2>2. /\ IsFiniteSet(1..(2 * Cardinality(Execs) + 1))
        /\ Cardinality(1..(2 * Cardinality(Execs) + 1)) = IF 1 > 2 * Cardinality(Execs) + 1 THEN 0
             ELSE (2 * Cardinality(Execs) + 1) - 1 + 1
    BY <2>1, FS_Interval
  <2> QED BY <1>1, <2>2 DEF Conns
<1> QED BY <1>1, <1>2, <1>3 DEF Conns, NoConn

LEMMA PastFacts ==
  /\ IsFiniteSet(Past1) /\ IsFiniteSet(Past2)
  /\ Cardinality(Past1) \in 0..Cardinality(Execs)
  /\ Cardinality(Past2) \in 0..Cardinality(Execs)
  /\ \A e \in Execs : e \notin Past1 => Cardinality(Past1) <= Cardinality(Execs) - 1
  /\ \A e \in Execs : e \notin Past2 => Cardinality(Past2) <= Cardinality(Execs) - 1
<1> DEFINE N == Cardinality(Execs)
<1>1. ASSUME NEW S, S \subseteq Execs
      PROVE /\ IsFiniteSet(S) /\ Cardinality(S) \in 0..N
            /\ \A e \in Execs : e \notin S => Cardinality(S) <= N - 1
  <2>1. IsFiniteSet(S) /\ Cardinality(S) <= N BY <1>1, ChannelAssumption, FS_Subset
  <2>2. Cardinality(S) \in Nat /\ N \in Nat BY <2>1, ChannelAssumption, FS_CardinalityType
  <2>3. ASSUME NEW e \in Execs, e \notin S PROVE Cardinality(S) <= N - 1
    <3>1. S \subseteq Execs \ {e} BY <1>1, <2>3
    <3>2. IsFiniteSet(Execs \ {e}) /\ Cardinality(Execs \ {e}) = N - 1
      BY ChannelAssumption, FS_RemoveElement
    <3> QED BY <3>1, <3>2, FS_Subset
  <2> QED BY <2>1, <2>2, <2>3
<1>2. Past1 \subseteq Execs /\ Past2 \subseteq Execs BY DEF Past1, Past2
<1> QED BY <1>1, <1>2

(* A dial finds a connection that was not used yet. *)
LEMMA DialFits ==
  ASSUME TypeOK, CountInv, NEW e \in Execs, pc[e] \in {"dial1", "dial2"}
  PROVE  dialed + 1 \in Conns
<1>1. e \notin Past2 BY DEF Past2
<1>2. Cardinality(Past2) <= Cardinality(Execs) - 1 BY <1>1, PastFacts
<1> QED BY <1>2, PastFacts, ConnFacts DEF TypeOK, CountInv, Conns

(* Every exec moves on. *)
LEMMA Grows ==
  ASSUME Past1 \subseteq Past1', Past2 \subseteq Past2', Past1' \subseteq Execs, Past2' \subseteq Execs
  PROVE  /\ Cardinality(Past1) <= Cardinality(Past1') /\ Cardinality(Past2) <= Cardinality(Past2')
         /\ Cardinality(Past1') \in Nat /\ Cardinality(Past2') \in Nat
         /\ \A e \in Past1' : e \notin Past1 => Cardinality(Past1) + 1 <= Cardinality(Past1')
         /\ \A e \in Past2' : e \notin Past2 => Cardinality(Past2) + 1 <= Cardinality(Past2')
<1>1. ASSUME NEW S, NEW T, S \subseteq T, T \subseteq Execs
      PROVE /\ Cardinality(S) <= Cardinality(T) /\ Cardinality(T) \in Nat
            /\ \A e \in T : e \notin S => Cardinality(S) + 1 <= Cardinality(T)
  <2>1. IsFiniteSet(T) BY <1>1, ChannelAssumption, FS_Subset
  <2>2. IsFiniteSet(S) /\ Cardinality(S) <= Cardinality(T) BY <1>1, <2>1, FS_Subset
  <2>3. Cardinality(S) \in Nat /\ Cardinality(T) \in Nat BY <2>1, <2>2, FS_CardinalityType
  <2>4. ASSUME NEW e \in T, e \notin S PROVE Cardinality(S) + 1 <= Cardinality(T)
    <3>1. IsFiniteSet(T \ {e}) /\ Cardinality(T \ {e}) = Cardinality(T) - 1 BY <2>1, FS_RemoveElement
    <3>2. S \subseteq T \ {e} BY <1>1, <2>4
    <3>3. Cardinality(S) <= Cardinality(T \ {e}) BY <3>1, <3>2, FS_Subset
    <3> QED BY <2>3, <3>1, <3>3
  <2> QED BY <2>2, <2>3, <2>4
<1> QED BY <1>1

(* The frames on a connection change by one at an end. *)
LEMMA QueueTypes ==
  ASSUME NEW S, NEW q \in [Conns -> Seq(S)], NEW c \in Conns
  PROVE  /\ \A x \in S : [q EXCEPT ![c] = Append(@, x)] \in [Conns -> Seq(S)]
         /\ q[c] # <<>> => Head(q[c]) \in S /\ [q EXCEPT ![c] = Tail(@)] \in [Conns -> Seq(S)]
         /\ [q EXCEPT ![c] = <<>>] \in [Conns -> Seq(S)]
<1>1. q[c] \in Seq(S) OBVIOUS
<1>2. \A x \in S : Append(q[c], x) \in Seq(S) BY <1>1
<1>3. q[c] # <<>> => Head(q[c]) \in S /\ Tail(q[c]) \in Seq(S) BY <1>1
<1>4. <<>> \in Seq(S) OBVIOUS
<1> QED BY <1>2, <1>3, <1>4

(* Every step of the channel keeps the types. *)
LEMMA NextTypes ==
  ASSUME TypeOK, LockInv, ConnInv, CountInv, Next
  PROVE  TypeOK'
<1> USE ConnFacts DEF hostVars, wireVars, guestVars, TypeOK, Goto, Pcs, NoConn
<1>1. ASSUME NEW e \in Execs, Lock(e) PROVE TypeOK'
  BY <1>1 DEF Lock
<1>2. ASSUME NEW e \in Execs, DialOK(e) PROVE TypeOK'
  <2>1. dialed + 1 \in Conns BY <1>2, DialFits DEF DialOK
  <2> QED BY <1>2, <2>1 DEF DialOK
<1>3. ASSUME NEW e \in Execs, DialFails(e) PROVE TypeOK'
  BY <1>3 DEF DialFails, Answer
<1>4. ASSUME NEW e \in Execs, WriteMessage(e) PROVE TypeOK'
  <2>1. agent \in Conns BY <1>4 DEF ConnInv, WriteMessage
  <2>2. [up EXCEPT ![agent] = Append(@, e)] \in [Conns -> Seq(Execs)] BY <2>1, QueueTypes
  <2>3. up' \in [Conns -> Seq(Execs)] BY <1>4, <2>1, <2>2 DEF WriteMessage
  <2> QED BY <1>4, <2>3 DEF WriteMessage
<1>5. ASSUME NEW e \in Execs, ReadMessage(e) PROVE TypeOK'
  <2>1. agent \in Conns BY <1>5 DEF ConnInv, ReadMessage
  <2>2. Head(down[agent]) \in Frames /\ down' \in [Conns -> Seq(Frames)] BY <1>5, <2>1, QueueTypes DEF ReadMessage
  <2>3. Head(down[agent]).req \in Execs BY <2>2 DEF Frames
  <2> QED BY <1>5, <2>2, <2>3 DEF ReadMessage, Answer
<1>6. ASSUME NEW e \in Execs, FirstCallFails(e) PROVE TypeOK'
  <2>1. agent \in Conns BY <1>6 DEF ConnInv, FirstCallFails
  <2>2. down[agent] # <<>> => [down EXCEPT ![agent] = Tail(@)] \in [Conns -> Seq(Frames)] BY <2>1, QueueTypes
  <2>3. down' = down \/ (down[agent] # <<>> /\ down' = [down EXCEPT ![agent] = Tail(@)])
    BY <1>6 DEF FirstCallFails, CallError
  <2>4. down' \in [Conns -> Seq(Frames)] BY <2>2, <2>3
  <2> QED BY <1>6, <2>4 DEF FirstCallFails
<1>7. ASSUME NEW e \in Execs, RetryFails(e) PROVE TypeOK'
  <2>1. agent \in Conns BY <1>7 DEF ConnInv, RetryFails
  <2>2. down[agent] # <<>> => [down EXCEPT ![agent] = Tail(@)] \in [Conns -> Seq(Frames)] BY <2>1, QueueTypes
  <2>3. down' = down \/ (down[agent] # <<>> /\ down' = [down EXCEPT ![agent] = Tail(@)])
    BY <1>7 DEF RetryFails, CallError
  <2>4. down' \in [Conns -> Seq(Frames)] BY <2>2, <2>3
  <2> QED BY <1>7, <2>4 DEF RetryFails, Answer
<1>8. CASE CloseAgent
  BY <1>8 DEF CloseAgent
<1>9. ASSUME NEW c \in Conns, GuestReads(c) PROVE TypeOK'
  <2>1. Head(up[c]) \in Execs /\ up' \in [Conns -> Seq(Execs)] BY <1>9, QueueTypes DEF GuestReads
  <2>2. runs' \in [Execs -> Nat]
    <3>1. PICK r \in Execs : r = Head(up[c]) BY <2>1
    <3>2. runs' = [runs EXCEPT ![r] = runs[r] + 1] BY <1>9, <3>1 DEF GuestReads
    <3>3. runs \in [Execs -> Nat] OBVIOUS
    <3> HIDE DEF TypeOK
    <3> QED BY <3>2, <3>3
  <2>3. job' \in [Conns -> Execs \cup {Free}] /\ guest' \in [Conns -> {"none", "reading", "running", "closed"}]
    BY <1>9, <2>1 DEF GuestReads
  <2> QED BY <1>9, <2>1, <2>2, <2>3 DEF GuestReads
<1>10. ASSUME NEW c \in Conns, GuestRefuses(c) PROVE TypeOK'
  <2>1. Head(up[c]) \in Execs /\ up' \in [Conns -> Seq(Execs)] BY <1>10, QueueTypes DEF GuestRefuses
  <2>2. [req |-> Head(up[c]), ok |-> FALSE] \in Frames BY <2>1 DEF Frames
  <2>3. down' \in [Conns -> Seq(Frames)] BY <1>10, <2>2, QueueTypes DEF GuestRefuses
  <2> QED BY <1>10, <2>1, <2>3 DEF GuestRefuses
<1>11. ASSUME NEW c \in Conns, GuestReplies(c) PROVE TypeOK'
  <2>1. job[c] \in Execs BY <1>11 DEF ConnInv, GuestReplies
  <2>2. \A ok \in BOOLEAN : [req |-> job[c], ok |-> ok] \in Frames BY <2>1 DEF Frames
  <2>3. \A ok \in BOOLEAN : [down EXCEPT ![c] = Append(@, [req |-> job[c], ok |-> ok])] \in [Conns -> Seq(Frames)]
    BY <2>2, QueueTypes
  <2>4. down' \in [Conns -> Seq(Frames)]
    <3>1. \/ down' = down
          \/ \E ok \in BOOLEAN : down' = [down EXCEPT ![c] = Append(@, [req |-> job[c], ok |-> ok])]
      BY <1>11 DEF GuestReplies
    <3> QED BY <2>3, <3>1
  <2> QED BY <1>11, <2>4 DEF GuestReplies
<1>12. ASSUME NEW c \in Conns, GuestCloses(c) PROVE TypeOK'
  <2>1. up' \in [Conns -> Seq(Execs)] BY <1>12, QueueTypes DEF GuestCloses
  <2>2. [down EXCEPT ![c] = <<>>] \in [Conns -> Seq(Frames)] BY QueueTypes
  <2> QED BY <1>12, <2>1, <2>2 DEF GuestCloses
<1>13. CASE AgentDies
  BY <1>13, SMTT(30) DEF AgentDies
<1>14. CASE UNCHANGED vars BY <1>14 DEF vars
<1>15. ASSUME NEW e \in Execs, WriteReply(e) PROVE TypeOK'
  BY <1>15 DEF WriteReply
<1> QED
  BY <1>1, <1>2, <1>3, <1>4, <1>5, <1>6, <1>7, <1>8, <1>9, <1>10, <1>11, <1>12, <1>13, <1>14, <1>15 DEF Next,
    HandlerStep, GuestStep, Quiet

(* The mutex and the places of the execs agree. *)
LEMMA NextLock ==
  ASSUME TypeOK, LockInv, Next
  PROVE  LockInv'
<1> USE ChannelAssumption DEF hostVars, wireVars, guestVars, TypeOK, Goto, LockInv, LockedPcs
<1>1. ASSUME NEW e \in Execs, Lock(e) PROVE LockInv'
  BY <1>1 DEF Lock
<1>2. ASSUME NEW e \in Execs, DialOK(e) PROVE LockInv'
  BY <1>2 DEF DialOK
<1>3. ASSUME NEW e \in Execs, DialFails(e) PROVE LockInv'
  BY <1>3 DEF DialFails, Answer
<1>4. ASSUME NEW e \in Execs, WriteMessage(e) PROVE LockInv'
  BY <1>4 DEF WriteMessage
<1>5. ASSUME NEW e \in Execs, ReadMessage(e) PROVE LockInv'
  BY <1>5 DEF ReadMessage, Answer
<1>6. ASSUME NEW e \in Execs, FirstCallFails(e) PROVE LockInv'
  BY <1>6 DEF FirstCallFails, CallError
<1>7. ASSUME NEW e \in Execs, RetryFails(e) PROVE LockInv'
  BY <1>7 DEF RetryFails, Answer, CallError
<1>8. CASE CloseAgent
  BY <1>8 DEF CloseAgent
<1>9. ASSUME NEW c \in Conns, GuestReads(c) PROVE LockInv'
  BY <1>9 DEF GuestReads
<1>10. ASSUME NEW c \in Conns, GuestRefuses(c) PROVE LockInv'
  BY <1>10 DEF GuestRefuses
<1>11. ASSUME NEW c \in Conns, GuestReplies(c) PROVE LockInv'
  BY <1>11 DEF GuestReplies
<1>12. ASSUME NEW c \in Conns, GuestCloses(c) PROVE LockInv'
  BY <1>12 DEF GuestCloses
<1>13. CASE AgentDies
  BY <1>13 DEF AgentDies
<1>14. CASE UNCHANGED vars BY <1>14 DEF vars
<1>15. ASSUME NEW e \in Execs, WriteReply(e) PROVE LockInv'
  BY <1>15 DEF WriteReply
<1> QED
  BY <1>1, <1>2, <1>3, <1>4, <1>5, <1>6, <1>7, <1>8, <1>9, <1>10, <1>11, <1>12, <1>13, <1>14, <1>15 DEF Next,
    HandlerStep, GuestStep, Quiet

(* The cached connection is the open one. *)
LEMMA NextConn ==
  ASSUME TypeOK, LockInv, ConnInv, CountInv, Next
  PROVE  ConnInv'
<1> USE ChannelAssumption, ConnFacts DEF hostVars, wireVars, guestVars, TypeOK, Goto, LockInv,
      LockedPcs, ConnInv, NoConn
<1>1. ASSUME NEW e \in Execs, Lock(e) PROVE ConnInv'
  BY <1>1 DEF Lock
<1>2. ASSUME NEW e \in Execs, DialOK(e) PROVE ConnInv'
  <2>1. dialed + 1 \in Conns BY <1>2, DialFits DEF DialOK
  <2> QED BY <1>2, <2>1 DEF DialOK
<1>3. ASSUME NEW e \in Execs, DialFails(e) PROVE ConnInv'
  BY <1>3 DEF DialFails, Answer
<1>4. ASSUME NEW e \in Execs, WriteMessage(e) PROVE ConnInv'
  BY <1>4 DEF WriteMessage
<1>5. ASSUME NEW e \in Execs, ReadMessage(e) PROVE ConnInv'
  BY <1>5 DEF ReadMessage, Answer
<1>6. ASSUME NEW e \in Execs, FirstCallFails(e) PROVE ConnInv'
  <2>1. agent \in Conns /\ agent <= dialed BY <1>6 DEF FirstCallFails
  <2>2. \A c \in Conns : c > dialed => down'[c] = <<>> BY <1>6, <2>1 DEF FirstCallFails, CallError
  <2> QED BY <1>6, <2>2 DEF FirstCallFails
<1>7. ASSUME NEW e \in Execs, RetryFails(e) PROVE ConnInv'
  BY <1>7 DEF RetryFails, Answer, CallError
<1>8. CASE CloseAgent
  BY <1>8 DEF CloseAgent
<1>9. ASSUME NEW c \in Conns, GuestReads(c) PROVE ConnInv'
  <2>1. Head(up[c]) \in Execs /\ c <= dialed BY <1>9, QueueTypes DEF GuestReads
  <2> QED BY <1>9, <2>1 DEF GuestReads
<1>10. ASSUME NEW c \in Conns, GuestRefuses(c) PROVE ConnInv'
  BY <1>10 DEF GuestRefuses
<1>11. ASSUME NEW c \in Conns, GuestReplies(c) PROVE ConnInv'
  <2>1. c <= dialed BY <1>11 DEF GuestReplies
  <2>2. \A d \in Conns : d > dialed => down'[d] = <<>> BY <1>11, <2>1 DEF GuestReplies
  <2>3. \A d \in Conns : guest'[d] = "running" => job'[d] \in Execs
    <3>1. guest' = [guest EXCEPT ![c] = "reading"] \/ guest' = [guest EXCEPT ![c] = "closed"]
      BY <1>11 DEF GuestReplies
    <3>2. job' = [job EXCEPT ![c] = Free] BY <1>11 DEF GuestReplies
    <3> QED BY <3>1, <3>2
  <2>4. \A d \in Conns : d > dialed => guest'[d] = "none" BY <1>11, <2>1 DEF GuestReplies
  <2>5. UNCHANGED <<pc, agent, open, dialed, up>> BY <1>11 DEF GuestReplies
  <2> QED BY <2>2, <2>3, <2>4, <2>5
<1>12. ASSUME NEW c \in Conns, GuestCloses(c) PROVE ConnInv'
  BY <1>12 DEF GuestCloses
<1>13. CASE AgentDies
  BY <1>13 DEF AgentDies
<1>14. CASE UNCHANGED vars BY <1>14 DEF vars
<1>15. ASSUME NEW e \in Execs, WriteReply(e) PROVE ConnInv'
  BY <1>15 DEF WriteReply
<1> QED
  BY <1>1, <1>2, <1>3, <1>4, <1>5, <1>6, <1>7, <1>8, <1>9, <1>10, <1>11, <1>12, <1>13, <1>14, <1>15 DEF Next,
    HandlerStep, GuestStep, Quiet

(* Dials are counted by the places of the execs. *)
LEMMA NextCount ==
  ASSUME TypeOK, LockInv, ConnInv, CountInv, Next
  PROVE  CountInv'
<1> USE DEF TypeOK, Goto, Past1, Past2
<1>1. Past1' \subseteq Execs /\ Past2' \subseteq Execs OBVIOUS
<1>2. ASSUME NEW e \in Execs, DialOK(e) PROVE CountInv'
  <2>1. Past1 \subseteq Past1' /\ Past2 \subseteq Past2' BY <1>2 DEF DialOK
  <2>2. e \in Past1' \ Past1 \/ e \in Past2' \ Past2 BY <1>2 DEF DialOK
  <2>3. \/ Cardinality(Past1) + 1 <= Cardinality(Past1')
        \/ Cardinality(Past2) + 1 <= Cardinality(Past2')
    BY <1>1, <2>1, <2>2, Grows
  <2>4. dialed' = dialed + 1 BY <1>2 DEF DialOK
  <2>5. Cardinality(Past1) \in Nat /\ Cardinality(Past2) \in Nat BY PastFacts, ConnFacts
  <2>6. /\ Cardinality(Past1) <= Cardinality(Past1') /\ Cardinality(Past2) <= Cardinality(Past2')
        /\ Cardinality(Past1') \in Nat /\ Cardinality(Past2') \in Nat
    BY <1>1, <2>1, Grows
  <2>7. dialed \in Nat BY ConnFacts
  <2> HIDE DEF Past1, Past2, TypeOK
  <2> QED BY <2>3, <2>4, <2>5, <2>6, <2>7 DEF CountInv
<1>3. ASSUME dialed' = dialed, Past1 \subseteq Past1', Past2 \subseteq Past2' PROVE CountInv'
  <2>1. Cardinality(Past1) \in Nat /\ Cardinality(Past2) \in Nat BY PastFacts, ConnFacts
  <2> HIDE DEF Past1, Past2
  <2> QED BY <1>1, <1>3, <2>1, Grows, ConnFacts, SMTT(30) DEF CountInv
<1>4. ASSUME NEW e \in Execs, Lock(e) \/ DialFails(e) \/ WriteMessage(e) \/ ReadMessage(e) \/ WriteReply(e)
      PROVE dialed' = dialed /\ Past1 \subseteq Past1' /\ Past2 \subseteq Past2'
  BY <1>4 DEF Lock, DialFails, WriteMessage, ReadMessage, WriteReply, Answer, wireVars
<1>5. ASSUME NEW e \in Execs, FirstCallFails(e) \/ RetryFails(e)
      PROVE dialed' = dialed /\ Past1 \subseteq Past1' /\ Past2 \subseteq Past2'
  BY <1>5 DEF FirstCallFails, RetryFails, Answer
<1>6. ASSUME UNCHANGED <<pc, dialed>> PROVE dialed' = dialed /\ Past1 \subseteq Past1' /\ Past2 \subseteq Past2'
  BY <1>6
<1>7. CASE CloseAgent \/ (\E c \in Conns : GuestStep(c)) \/ AgentDies \/ Quiet
  <2>1. UNCHANGED <<pc, dialed>>
    BY <1>7 DEF CloseAgent, GuestStep, GuestReads, GuestRefuses, GuestReplies, GuestCloses, AgentDies, Quiet,
      vars, hostVars, wireVars
  <2> QED BY <1>3, <1>6, <2>1
<1> QED BY <1>2, <1>3, <1>4, <1>5, <1>7 DEF Next, HandlerStep

-----------------------------------------------------------------------------
(* How often a command is started.                                           *)

LEMMA PendingFacts ==
  ASSUME NEW e \in Execs
  PROVE  /\ IsFiniteSet(Pending(e)) /\ Cardinality(Pending(e)) \in Nat
         /\ Pending(e) = {} => Cardinality(Pending(e)) = 0
<1>1. Pending(e) \subseteq Conns BY DEF Pending
<1> QED BY <1>1, ConnFacts, FS_Subset, FS_CardinalityType, FS_EmptySet

LEMMA PendingChanges ==
  ASSUME NEW e \in Execs, NEW c \in Conns
  PROVE  /\ Pending(e)' \subseteq Pending(e) => Cardinality(Pending(e)') <= Cardinality(Pending(e))
         /\ Pending(e)' \subseteq Pending(e) \cup {c} =>
              Cardinality(Pending(e)') <= Cardinality(Pending(e)) + 1
         /\ Pending(e)' \subseteq Pending(e) \ {c} /\ c \in Pending(e) =>
              Cardinality(Pending(e)') <= Cardinality(Pending(e)) - 1
         /\ Cardinality(Pending(e)') \in Nat
<1>1. IsFiniteSet(Pending(e)) /\ Cardinality(Pending(e)) \in Nat BY PendingFacts
<1>2. ASSUME NEW S, IsFiniteSet(S), Pending(e)' \subseteq S
      PROVE IsFiniteSet(Pending(e)') /\ Cardinality(Pending(e)') <= Cardinality(S)
  BY <1>2, FS_Subset
<1>3. /\ IsFiniteSet(Pending(e) \cup {c})
      /\ Cardinality(Pending(e) \cup {c}) \in {Cardinality(Pending(e)), Cardinality(Pending(e)) + 1}
  BY <1>1, FS_AddElement
<1>4. /\ IsFiniteSet(Pending(e) \ {c})
      /\ c \in Pending(e) => Cardinality(Pending(e) \ {c}) = Cardinality(Pending(e)) - 1
  BY <1>1, FS_RemoveElement
<1>5. Cardinality(Pending(e)') \in Nat
  <2>1. Pending(e)' \subseteq Conns BY DEF Pending
  <2> QED BY <2>1, ConnFacts, FS_Subset, FS_CardinalityType
<1>6. Pending(e)' \subseteq Pending(e) \cup {c} => Cardinality(Pending(e)') <= Cardinality(Pending(e)) + 1
  BY <1>1, <1>2, <1>3, <1>5
<1> QED BY <1>1, <1>2, <1>4, <1>5, <1>6

(* Frames that are taken or dropped: no exec has more of them under way. *)
LEMMA TailCarries ==
  ASSUME TypeOK, NEW c \in Conns, up[c] # <<>>, up' = [up EXCEPT ![c] = Tail(@)]
  PROVE  /\ \A d \in Conns, e \in Execs : Carries(d, e)' => Carries(d, e)
         /\ Carries(c, Head(up[c]))
<1>1. up[c] \in Seq(Execs) /\ Len(up[c]) \in Nat /\ Len(up[c]) >= 1 BY DEF TypeOK
<1>2. Len(Tail(up[c])) = Len(up[c]) - 1 /\ \A i \in 1..Len(Tail(up[c])) : Tail(up[c])[i] = up[c][i + 1]
  BY <1>1
<1>3. Head(up[c]) = up[c][1] BY <1>1
<1>4. ASSUME NEW d \in Conns, NEW e \in Execs, Carries(d, e)' PROVE Carries(d, e)
  <2>1. CASE d = c
    <3>1. PICK i \in 1..Len(Tail(up[c])) : Tail(up[c])[i] = e BY <1>4, <2>1 DEF Carries, TypeOK
    <3>2. i + 1 \in 1..Len(up[c]) /\ up[c][i + 1] = e BY <1>1, <1>2, <3>1
    <3> QED BY <2>1, <3>2 DEF Carries
  <2>2. CASE d # c BY <1>4, <2>2 DEF Carries, TypeOK
  <2> QED BY <2>1, <2>2
<1> QED BY <1>1, <1>3, <1>4 DEF Carries

(* The request that is taken is not under way on that connection any more. *)
LEMMA HeadLeaves ==
  ASSUME TypeOK, RunsInv, NEW c \in Conns, up[c] # <<>>, up' = [up EXCEPT ![c] = Tail(@)],
         NEW r \in Execs, r = Head(up[c])
  PROVE  ~Carries(c, r)'
<1>1. up[c] \in Seq(Execs) /\ Len(up[c]) \in Nat /\ Len(up[c]) >= 1 BY DEF TypeOK
<1>2. Len(Tail(up[c])) = Len(up[c]) - 1 /\ \A i \in 1..Len(Tail(up[c])) : Tail(up[c])[i] = up[c][i + 1]
  BY <1>1
<1>3. up'[c] = Tail(up[c]) BY DEF TypeOK
<1>4. \A i, j \in 1..Len(up[c]) : up[c][i] = up[c][j] => i = j BY DEF RunsInv
<1>5. \A i \in 1..Len(Tail(up[c])) : Tail(up[c])[i] # Head(up[c])
  <2> SUFFICES ASSUME NEW i \in 1..Len(Tail(up[c])), Tail(up[c])[i] = Head(up[c]) PROVE FALSE OBVIOUS
  <2>1. up[c][i + 1] = up[c][1] /\ i + 1 \in 1..Len(up[c]) /\ 1 \in 1..Len(up[c]) BY <1>1, <1>2
  <2>2. i + 1 = 1 BY <1>4, <2>1
  <2> QED BY <2>2
<1> QED BY <1>3, <1>5 DEF Carries

(* A connection still carries no request twice. *)
LEMMA TailDistinct ==
  ASSUME TypeOK, RunsInv, NEW c \in Conns, up[c] # <<>>, up' = [up EXCEPT ![c] = Tail(@)]
  PROVE  \A d \in Conns : \A i, j \in 1..Len(up'[d]) : up'[d][i] = up'[d][j] => i = j
<1>1. up[c] \in Seq(Execs) /\ Len(up[c]) \in Nat /\ Len(up[c]) >= 1 BY DEF TypeOK
<1>2. Len(Tail(up[c])) = Len(up[c]) - 1 /\ \A i \in 1..Len(Tail(up[c])) : Tail(up[c])[i] = up[c][i + 1]
  BY <1>1
<1>3. \A i, j \in 1..Len(Tail(up[c])) : Tail(up[c])[i] = Tail(up[c])[j] => i = j
  <2> SUFFICES ASSUME NEW i \in 1..Len(Tail(up[c])), NEW j \in 1..Len(Tail(up[c])), Tail(up[c])[i] = Tail(up[c])[j]
               PROVE  i = j
    OBVIOUS
  <2>1. up[c][i + 1] = up[c][j + 1] /\ i + 1 \in 1..Len(up[c]) /\ j + 1 \in 1..Len(up[c]) BY <1>1, <1>2
  <2>2. i + 1 = j + 1 BY <2>1 DEF RunsInv
  <2> QED BY <2>2
<1> QED BY <1>3 DEF RunsInv, TypeOK

(* A request that is appended is under way there, and nothing else changes. *)
LEMMA AppendCarries ==
  ASSUME TypeOK, NEW c \in Conns, NEW e \in Execs, up' = [up EXCEPT ![c] = Append(@, e)], ~Carries(c, e),
         \A d \in Conns : \A i, j \in 1..Len(up[d]) : up[d][i] = up[d][j] => i = j
  PROVE  /\ \A d \in Conns, f \in Execs : Carries(d, f)' => Carries(d, f) \/ (d = c /\ f = e)
         /\ \A d \in Conns : \A i, j \in 1..Len(up'[d]) : up'[d][i] = up'[d][j] => i = j
<1>1. up[c] \in Seq(Execs) /\ Len(up[c]) \in Nat BY DEF TypeOK
<1>2. /\ Len(Append(up[c], e)) = Len(up[c]) + 1
      /\ \A i \in 1..Len(up[c]) : Append(up[c], e)[i] = up[c][i]
      /\ Append(up[c], e)[Len(up[c]) + 1] = e
  BY <1>1
<1>3. up'[c] = Append(up[c], e) /\ \A d \in Conns \ {c} : up'[d] = up[d] BY DEF TypeOK
<1>4. \A i \in 1..Len(up'[c]) : \/ i \in 1..Len(up[c]) /\ up'[c][i] = up[c][i]
                                \/ i = Len(up[c]) + 1 /\ up'[c][i] = e
  BY <1>1, <1>2, <1>3
<1>5. \A i \in 1..Len(up[c]) : up[c][i] # e BY DEF Carries
<1>6. \A i, j \in 1..Len(up'[c]) : up'[c][i] = up'[c][j] => i = j BY <1>4, <1>5
<1>7. \A f \in Execs : Carries(c, f)' => Carries(c, f) \/ f = e BY <1>4 DEF Carries
<1> QED BY <1>3, <1>6, <1>7 DEF Carries

(* Steps that send nothing: what counts for an exec does not grow. *)
LEMMA RunsKept ==
  ASSUME TypeOK, RunsInv, TypeOK',
         \A d \in Conns, e \in Execs : Carries(d, e)' => Carries(d, e),
         \A d \in Conns : \A i, j \in 1..Len(up'[d]) : up'[d][i] = up'[d][j] => i = j,
         runs' = runs,
         \A e \in Execs : Unsent(e)' <= Unsent(e),
         \A e \in Execs : pc'[e] \in {"new", "dial1", "send1"} => pc[e] \in {"new", "dial1", "send1"},
         \A e \in Execs : pc'[e] = "send2" => up'[agent'] = <<>>
  PROVE  RunsInv'
<1>1. ASSUME NEW e \in Execs PROVE Pending(e)' \subseteq Pending(e) BY DEF Pending
<1>2. ASSUME NEW e \in Execs, pc'[e] \in {"new", "dial1", "send1"} PROVE Pending(e)' = {}
  BY <1>1, <1>2 DEF RunsInv
<1>3. ASSUME NEW e \in Execs PROVE runs'[e] + Cardinality(Pending(e)') + Unsent(e)' <= 2
  <2>1. Cardinality(Pending(e)') <= Cardinality(Pending(e)) /\ Cardinality(Pending(e)') \in Nat
    BY <1>1, PendingChanges, ConnFacts
  <2>2. runs[e] + Cardinality(Pending(e)) + Unsent(e) <= 2 /\ runs[e] \in Nat BY DEF RunsInv, TypeOK
  <2>3. Cardinality(Pending(e)) \in Nat BY PendingFacts
  <2>4. Unsent(e) \in Nat /\ Unsent(e)' \in Nat BY DEF Unsent
  <2> QED BY <2>1, <2>2, <2>3, <2>4
<1> QED BY <1>2, <1>3 DEF RunsInv

(* A request is started once for each time it was sent. *)
LEMMA NextRuns ==
  ASSUME TypeOK, LockInv, ConnInv, CountInv, RunsInv, Next
  PROVE  RunsInv'
<1> USE DEF hostVars, wireVars, guestVars
<1>0. TypeOK' BY NextTypes
<1>1. ASSUME NEW e \in Execs, WriteMessage(e) PROVE RunsInv'
  <2>1. agent \in Conns /\ agent' = agent BY <1>1 DEF WriteMessage, ConnInv, TypeOK
  <2>2. ~Carries(agent, e)
    <3>1. CASE pc[e] = "send1" BY <2>1, <3>1 DEF RunsInv, Pending
    <3>2. CASE pc[e] = "send2"
      <4>1. up[agent] = <<>> BY <3>2 DEF RunsInv
      <4> QED BY <4>1 DEF Carries
    <3> QED BY <1>1, <3>1, <3>2 DEF WriteMessage
  <2>3. /\ \A d \in Conns, f \in Execs : Carries(d, f)' => Carries(d, f) \/ (d = agent /\ f = e)
        /\ \A d \in Conns : \A i, j \in 1..Len(up'[d]) : up'[d][i] = up'[d][j] => i = j
    <3>1. CASE guest[agent] = "closed"
      <4>1. up' = up BY <1>1, <2>1, <3>1 DEF WriteMessage, TypeOK
      <4> QED BY <4>1 DEF RunsInv, Carries
    <3>2. CASE guest[agent] # "closed"
      <4>1. up' = [up EXCEPT ![agent] = Append(@, e)] BY <1>1, <3>2 DEF WriteMessage
      <4>2. \A d \in Conns : \A i, j \in 1..Len(up[d]) : up[d][i] = up[d][j] => i = j BY DEF RunsInv
      <4>3. PICK c \in Conns : c = agent BY <2>1
      <4>4. ~Carries(c, e) /\ up' = [up EXCEPT ![c] = Append(@, e)] BY <2>2, <4>1, <4>3
      <4> QED BY <4>2, <4>3, <4>4, AppendCarries
    <3> QED BY <3>1, <3>2
  <2>4. ASSUME NEW f \in Execs, f # e PROVE Pending(f)' \subseteq Pending(f) BY <2>3, <2>4 DEF Pending
  <2>5. Pending(e)' \subseteq Pending(e) \cup {agent} BY <2>3 DEF Pending
  <2>6. ASSUME NEW f \in Execs PROVE pc'[f] = IF f = e THEN (IF pc[e] = "send1" THEN "recv1" ELSE "recv2") ELSE pc[f]
    BY <1>1 DEF WriteMessage, Goto, TypeOK
  <2>7. ASSUME NEW f \in Execs PROVE runs'[f] + Cardinality(Pending(f)') + Unsent(f)' <= 2
    <3>1. runs'[f] = runs[f] /\ runs[f] \in Nat BY <1>1 DEF WriteMessage, TypeOK
    <3>2. runs[f] + Cardinality(Pending(f)) + Unsent(f) <= 2 BY DEF RunsInv
    <3>3. Cardinality(Pending(f)) \in Nat BY PendingFacts
    <3>4. CASE f = e
      <4>1. Cardinality(Pending(f)') <= Cardinality(Pending(f)) + 1 /\ Cardinality(Pending(f)') \in Nat
        <5>1. PICK c \in Conns : c = agent BY <2>1
        <5>2. Pending(f)' \subseteq Pending(f) \cup {c} BY <2>5, <3>4, <5>1
        <5> QED BY <5>2, PendingChanges
      <4>2. Unsent(f)' + 1 = Unsent(f) /\ Unsent(f)' \in Nat BY <1>1, <2>6, <3>4 DEF Unsent, WriteMessage
      <4> QED BY <3>1, <3>2, <3>3, <4>1, <4>2
    <3>5. CASE f # e
      <4>1. Cardinality(Pending(f)') <= Cardinality(Pending(f)) /\ Cardinality(Pending(f)') \in Nat
        BY <2>1, <2>4, <3>5, PendingChanges
      <4>2. Unsent(f)' = Unsent(f) /\ Unsent(f)' \in Nat BY <2>6, <3>5 DEF Unsent
      <4> QED BY <3>1, <3>2, <3>3, <4>1, <4>2
    <3> QED BY <3>4, <3>5
  <2>8. ASSUME NEW f \in Execs, pc'[f] \in {"new", "dial1", "send1"} PROVE Pending(f)' = {}
    BY <2>4, <2>6, <2>8 DEF RunsInv
  <2>9. ASSUME NEW f \in Execs, pc'[f] = "send2" PROVE FALSE
    BY <1>1, <2>6, <2>9 DEF WriteMessage, LockInv, LockedPcs
  <2> QED BY <2>3, <2>7, <2>8, <2>9 DEF RunsInv
<1>2. ASSUME NEW c \in Conns, GuestReads(c) PROVE RunsInv'
  <2>1. up[c] # <<>> /\ up' = [up EXCEPT ![c] = Tail(@)] BY <1>2 DEF GuestReads
  <2>2. PICK r \in Execs : r = Head(up[c]) BY <2>1 DEF TypeOK
  <2>3. /\ \A d \in Conns, e \in Execs : Carries(d, e)' => Carries(d, e)
        /\ Carries(c, r) /\ ~Carries(c, r)'
        /\ \A d \in Conns : \A i, j \in 1..Len(up'[d]) : up'[d][i] = up'[d][j] => i = j
    BY <2>1, <2>2, TailCarries, HeadLeaves, TailDistinct
  <2>4. ASSUME NEW e \in Execs PROVE Pending(e)' \subseteq Pending(e) BY <2>3 DEF Pending
  <2>5. Pending(r)' \subseteq Pending(r) \ {c} /\ c \in Pending(r) BY <2>3 DEF Pending
  <2>6. runs' = [runs EXCEPT ![r] = @ + 1] /\ pc' = pc /\ agent' = agent BY <1>2, <2>2 DEF GuestReads
  <2>7. ASSUME NEW e \in Execs PROVE runs'[e] + Cardinality(Pending(e)') + Unsent(e)' <= 2
    <3>1. runs[e] + Cardinality(Pending(e)) + Unsent(e) <= 2 /\ runs[e] \in Nat BY DEF RunsInv, TypeOK
    <3>2. Cardinality(Pending(e)) \in Nat /\ Cardinality(Pending(e)') \in Nat BY PendingFacts, PendingChanges
    <3>3. Unsent(e)' = Unsent(e) /\ Unsent(e) \in Nat BY <2>6 DEF Unsent
    <3>4. CASE e = r
      <4>1. Cardinality(Pending(e)') <= Cardinality(Pending(e)) - 1 BY <2>5, <3>4, PendingChanges
      <4>2. runs'[e] = runs[e] + 1 BY <2>6, <3>4 DEF TypeOK
      <4> QED BY <3>1, <3>2, <3>3, <4>1, <4>2
    <3>5. CASE e # r
      <4>1. Cardinality(Pending(e)') <= Cardinality(Pending(e)) BY <2>4, PendingChanges
      <4>2. runs'[e] = runs[e] BY <2>6, <3>5 DEF TypeOK
      <4> QED BY <3>1, <3>2, <3>3, <4>1, <4>2
    <3> QED BY <3>4, <3>5
  <2>8. ASSUME NEW e \in Execs, pc'[e] = "send2" PROVE up'[agent'] = <<>>
    <3>1. up[agent] = <<>> /\ agent \in Conns BY <2>6, <2>8 DEF RunsInv, ConnInv, TypeOK
    <3> QED BY <2>1, <2>6, <3>1 DEF TypeOK
  <2>9. ASSUME NEW e \in Execs, pc'[e] \in {"new", "dial1", "send1"} PROVE Pending(e)' = {}
    BY <2>4, <2>6, <2>9 DEF RunsInv
  <2> QED BY <2>3, <2>7, <2>8, <2>9 DEF RunsInv
<1>3. ASSUME NEW c \in Conns, GuestRefuses(c) PROVE RunsInv'
  <2>1. up[c] # <<>> /\ up' = [up EXCEPT ![c] = Tail(@)] /\ runs' = runs /\ pc' = pc /\ agent' = agent
    BY <1>3 DEF GuestRefuses
  <2>2. /\ \A d \in Conns, e \in Execs : Carries(d, e)' => Carries(d, e)
        /\ \A d \in Conns : \A i, j \in 1..Len(up'[d]) : up'[d][i] = up'[d][j] => i = j
    BY <2>1, TailCarries, TailDistinct
  <2>3. \A e \in Execs : Unsent(e)' = Unsent(e) /\ Unsent(e) \in Nat BY <2>1 DEF Unsent
  <2>4. ASSUME NEW e \in Execs, pc'[e] = "send2" PROVE up'[agent'] = <<>>
    <3>1. up[agent] = <<>> /\ agent \in Conns BY <2>1, <2>4 DEF RunsInv, ConnInv, TypeOK
    <3> QED BY <2>1, <3>1 DEF TypeOK
  <2>5. /\ \A e \in Execs : Unsent(e)' <= Unsent(e)
        /\ \A e \in Execs : pc'[e] = "send2" => up'[agent'] = <<>>
    BY <2>3, <2>4
  <2> QED BY <1>0, <2>1, <2>2, <2>5, RunsKept
<1>4. CASE (\E c \in Conns : GuestCloses(c)) \/ AgentDies
  <2>1. runs' = runs /\ pc' = pc /\ agent' = agent BY <1>4 DEF GuestCloses, AgentDies
  <2>2. \A d \in Conns : up'[d] = up[d] \/ up'[d] = <<>> BY <1>4 DEF GuestCloses, AgentDies, TypeOK
  <2>3. \A d \in Conns, e \in Execs : Carries(d, e)' => Carries(d, e) BY <2>2 DEF Carries
  <2>4. \A d \in Conns : \A i, j \in 1..Len(up'[d]) : up'[d][i] = up'[d][j] => i = j BY <2>2 DEF RunsInv
  <2>5. \A e \in Execs : Unsent(e)' = Unsent(e) /\ Unsent(e) \in Nat BY <2>1 DEF Unsent
  <2>6. \A e \in Execs : pc'[e] = "send2" => up'[agent'] = <<>> BY <2>1, <2>2 DEF RunsInv, ConnInv, TypeOK
  <2> QED BY <1>0, <2>1, <2>3, <2>4, <2>5, <2>6, RunsKept
<1>5. ASSUME up' = up, runs' = runs, \A e \in Execs : Unsent(e)' <= Unsent(e),
             \A e \in Execs : pc'[e] \in {"new", "dial1", "send1"} => pc[e] \in {"new", "dial1", "send1"},
             \A e \in Execs : pc'[e] = "send2" => up[agent'] = <<>>
      PROVE  RunsInv'
  <2>1. \A d \in Conns, e \in Execs : Carries(d, e)' => Carries(d, e) BY <1>5 DEF Carries
  <2>2. \A d \in Conns : \A i, j \in 1..Len(up'[d]) : up'[d][i] = up'[d][j] => i = j BY <1>5 DEF RunsInv
  <2> QED BY <1>0, <1>5, <2>1, <2>2, RunsKept
<1>6. ASSUME NEW e \in Execs, DialOK(e) PROVE RunsInv'
  <2>1. dialed + 1 \in Conns /\ agent' = dialed + 1 BY <1>6, DialFits DEF DialOK
  <2>2. up[dialed + 1] = <<>> BY <2>1, ConnFacts DEF ConnInv, TypeOK
  <2>3. \A f \in Execs : pc'[f] = IF f = e THEN (IF pc[e] = "dial1" THEN "send1" ELSE "send2") ELSE pc[f]
    BY <1>6 DEF DialOK, Goto, TypeOK
  <2>4. \A f \in Execs : Unsent(f)' <= Unsent(f) BY <1>6, <2>3 DEF Unsent, DialOK
  <2> QED BY <1>5, <1>6, <2>1, <2>2, <2>3, <2>4 DEF DialOK
<1>7. ASSUME NEW e \in Execs,
             Lock(e) \/ DialFails(e) \/ ReadMessage(e) \/ FirstCallFails(e) \/ RetryFails(e) \/ WriteReply(e)
      PROVE  RunsInv'
  <2>1. /\ up' = up /\ runs' = runs
        /\ \E l \in {"dial1", "send1", "dial2", "reply", "done"} : pc' = [pc EXCEPT ![e] = l]
        /\ pc'[e] \in {"dial1", "send1"} => pc[e] = "new"
        /\ pc'[e] = "dial2" => pc[e] \in {"send1", "recv1"}
    BY <1>7 DEF Lock, DialFails, ReadMessage, FirstCallFails, RetryFails, WriteReply, Answer, Goto, TypeOK
  <2>0. \A f \in Execs : pc[f] = "send2" => f = e
    BY <1>7, ChannelAssumption DEF Lock, DialFails, ReadMessage, FirstCallFails, RetryFails, WriteReply, LockInv,
      LockedPcs
  <2>2. \A f \in Execs : Unsent(f)' <= Unsent(f) BY <2>1 DEF Unsent, TypeOK
  <2> QED BY <1>5, <2>0, <2>1, <2>2 DEF TypeOK
<1>8. CASE CloseAgent \/ (\E c \in Conns : GuestReplies(c)) \/ Quiet
  <2>1. pc' = pc /\ up' = up /\ runs' = runs BY <1>8 DEF CloseAgent, GuestReplies, Quiet, vars
  <2>2. agent' = agent \/ (agentMu = Free /\ agent' = NoConn) BY <1>8 DEF CloseAgent, GuestReplies, Quiet, vars
  <2>3. \A f \in Execs : pc[f] = "send2" => agentMu = f BY DEF LockInv, LockedPcs
  <2>4. \A f \in Execs : Unsent(f)' <= Unsent(f) BY <2>1 DEF Unsent
  <2> QED BY <1>5, <2>1, <2>2, <2>3, <2>4, ChannelAssumption DEF RunsInv
<1> QED BY <1>1, <1>2, <1>3, <1>4, <1>6, <1>7, <1>8 DEF Next, HandlerStep, GuestStep

-----------------------------------------------------------------------------
(* Whose answer is read.                                                     *)

(* What happens on another connection does not matter. *)
LEMMA Elsewhere ==
  ASSUME TypeOK, ConnInv, CallInv, NEW c \in Conns, c # agent, UNCHANGED hostVars,
         \A d \in Conns \ {c} : up'[d] = up[d] /\ down'[d] = down[d] /\ guest'[d] = guest[d] /\ job'[d] = job[d]
  PROVE  CallInv'
<1>1. agent' = agent /\ agentMu' = agentMu /\ pc' = pc /\ retryLost' = retryLost BY DEF hostVars
<1>2. agent # NoConn => Silent(agent)' = Silent(agent) /\ \A e \in Execs : Serves(agent, e)' = Serves(agent, e)
  BY <1>1 DEF Silent, Serves, TypeOK
<1>3. \A e \in Execs : pc[e] \in {"send1", "recv1", "send2", "recv2"} => agent # NoConn BY DEF ConnInv
<1> QED BY <1>1, <1>2, <1>3 DEF CallInv

(* What happens on the cached connection belongs to the call of the holder. *)
LEMMA OnAgent ==
  ASSUME TypeOK, ConnInv, CallInv, ~retryLost, NEW c \in Conns, c = agent, UNCHANGED hostVars,
         \/ ~Silent(c) /\ \A e \in Execs : Serves(c, e) => Silent(c)' \/ Serves(c, e)'
  PROVE  CallInv'
<1>1. agent' = c /\ agentMu' = agentMu /\ pc' = pc /\ retryLost' = retryLost BY DEF hostVars
<1>2. c # NoConn BY ConnFacts
<1> QED BY <1>1, <1>2 DEF CallInv

(* The cached connection carries the call of the holder or nothing. *)
LEMMA NextCall ==
  ASSUME TypeOK, LockInv, ConnInv, CountInv, CallInv, Next
  PROVE  CallInv'
<1> USE ChannelAssumption, ConnFacts DEF hostVars, wireVars, guestVars, TypeOK, Goto, LockInv,
      LockedPcs, ConnInv, CallInv, Silent, Serves, NoConn
<1>1. ASSUME NEW e \in Execs, Lock(e) PROVE CallInv'
  BY <1>1 DEF Lock
<1>2. ASSUME NEW e \in Execs, DialOK(e) PROVE CallInv'
  <2>1. dialed + 1 \in Conns BY <1>2, DialFits DEF DialOK
  <2> QED BY <1>2, <2>1 DEF DialOK
<1>3. ASSUME NEW e \in Execs, DialFails(e) PROVE CallInv'
  BY <1>3 DEF DialFails, Answer
<1>4. ASSUME NEW e \in Execs, WriteMessage(e) PROVE CallInv'
  <2>1. agent \in Conns /\ agent' = agent BY <1>4 DEF WriteMessage
  <2>2. ~retryLost => Silent(agent) BY <1>4 DEF WriteMessage
  <2>3. Silent(agent) => Silent(agent)' \/ Serves(agent, e)'
    <3>1. CASE guest[agent] = "closed" BY <1>4, <2>1, <3>1 DEF WriteMessage
    <3>2. CASE guest[agent] # "closed"
      <4>1. up'[agent] = Append(up[agent], e) BY <1>4, <2>1, <3>2 DEF WriteMessage
      <4>2. up[agent] = <<>> => up'[agent] = <<e>> BY <4>1
      <4> QED BY <1>4, <2>1, <4>2 DEF WriteMessage
    <3> QED BY <3>1, <3>2
  <2>4. \A f \in Execs : pc'[f] = IF f = e THEN (IF pc[e] = "send1" THEN "recv1" ELSE "recv2") ELSE pc[f]
    BY <1>4 DEF WriteMessage
  <2>5. \A f \in Execs : pc'[f] \in LockedPcs => f = e BY <1>4, <2>4 DEF WriteMessage
  <2>6. agentMu' = e /\ retryLost' = retryLost BY <1>4 DEF WriteMessage
  <2> HIDE DEF Silent, Serves
  <2> QED BY <1>4, <2>2, <2>3, <2>4, <2>5, <2>6
<1>5. ASSUME NEW e \in Execs, ReadMessage(e) PROVE CallInv'
  <2>1. agent \in Conns /\ agent' = agent /\ agentMu' = e /\ retryLost' = retryLost BY <1>5 DEF ReadMessage, Answer
  <2>2. ~retryLost => Serves(agent, e) BY <1>5 DEF ReadMessage
  <2>3. Serves(agent, e) => Silent(agent)'
    <3> SUFFICES ASSUME Serves(agent, e) PROVE Silent(agent)' OBVIOUS
    <3>1. PICK ok \in BOOLEAN : down[agent] = <<[req |-> e, ok |-> ok]>> BY <1>5 DEF ReadMessage
    <3>2. down'[agent] = Tail(down[agent]) BY <1>5, <2>1 DEF ReadMessage
    <3>3. down'[agent] = <<>> BY <3>1, <3>2
    <3> QED BY <1>5, <2>1, <3>3 DEF ReadMessage
  <2>4. \A f \in Execs : pc'[f] \notin LockedPcs \ {"reply"} BY <1>5 DEF ReadMessage, Answer
  <2> HIDE DEF Silent, Serves
  <2> QED BY <2>1, <2>2, <2>3, <2>4
<1>6. ASSUME NEW e \in Execs, FirstCallFails(e) PROVE CallInv'
  BY <1>6 DEF FirstCallFails, CallError
<1>7. ASSUME NEW e \in Execs, RetryFails(e) PROVE CallInv'
  BY <1>7 DEF RetryFails, Answer, CallError
<1>8. CASE CloseAgent
  BY <1>8 DEF CloseAgent
<1>9. ASSUME NEW c \in Conns, GuestReads(c) PROVE CallInv'
  <2>1. CASE retryLost BY <1>9, <2>1 DEF GuestReads
  <2>2. CASE c # agent
    <3>1. \A d \in Conns \ {c} : up'[d] = up[d] /\ down'[d] = down[d] /\ guest'[d] = guest[d] /\ job'[d] = job[d]
      BY <1>9 DEF GuestReads
    <3> HIDE DEF ConnInv, CallInv, TypeOK
    <3> QED BY <1>9, <2>2, <3>1, Elsewhere DEF GuestReads
  <2>3. CASE c = agent /\ ~retryLost
    <3>1. ~Silent(c) BY <1>9 DEF GuestReads
    <3>2. ASSUME NEW e \in Execs, Serves(c, e) PROVE Serves(c, e)'
      <4>1. up[c] = <<e>> /\ down[c] = <<>> BY <1>9, <3>2 DEF GuestReads
      <4>2. up'[c] = <<>> /\ job'[c] = e BY <1>9, <4>1 DEF GuestReads
      <4> QED BY <1>9, <4>1, <4>2 DEF GuestReads
    <3> HIDE DEF ConnInv, CallInv, TypeOK, Silent, Serves
    <3> QED BY <1>9, <2>3, <3>1, <3>2, OnAgent DEF GuestReads
  <2> QED BY <2>1, <2>2, <2>3
<1>10. ASSUME NEW c \in Conns, GuestRefuses(c) PROVE CallInv'
  <2>1. CASE retryLost BY <1>10, <2>1 DEF GuestRefuses
  <2>2. CASE c # agent
    <3>1. \A d \in Conns \ {c} : up'[d] = up[d] /\ down'[d] = down[d] /\ guest'[d] = guest[d] /\ job'[d] = job[d]
      BY <1>10 DEF GuestRefuses
    <3> HIDE DEF ConnInv, CallInv, TypeOK
    <3> QED BY <1>10, <2>2, <3>1, Elsewhere DEF GuestRefuses
  <2>3. CASE c = agent /\ ~retryLost
    <3>1. ~Silent(c) BY <1>10 DEF GuestRefuses
    <3>2. ASSUME NEW e \in Execs, Serves(c, e) PROVE Serves(c, e)'
      <4>1. up[c] = <<e>> /\ down[c] = <<>> BY <1>10, <3>2 DEF GuestRefuses
      <4>2. PICK r : r = Head(up[c]) OBVIOUS
      <4>3. r = e BY <4>1, <4>2
      <4>4. down' = [down EXCEPT ![c] = Append(@, [req |-> r, ok |-> FALSE])] /\ up' = [up EXCEPT ![c] = Tail(@)]
        BY <1>10, <4>2 DEF GuestRefuses
      <4>5. down'[c] = Append(<<>>, [req |-> r, ok |-> FALSE]) BY <4>1, <4>4
      <4>6. down'[c] = <<[req |-> e, ok |-> FALSE]>> BY <4>3, <4>5
      <4>7. up'[c] = Tail(<<e>>) BY <4>1, <4>4
      <4>8. up'[c] = <<>> BY <4>7
      <4> QED BY <1>10, <4>6, <4>8 DEF GuestRefuses
    <3> HIDE DEF ConnInv, CallInv, TypeOK, Silent, Serves
    <3> QED BY <1>10, <2>3, <3>1, <3>2, OnAgent DEF GuestRefuses
  <2> QED BY <2>1, <2>2, <2>3
<1>11. ASSUME NEW c \in Conns, GuestReplies(c) PROVE CallInv'
  <2>1. CASE retryLost BY <1>11, <2>1 DEF GuestReplies
  <2>2. CASE c # agent
    <3>1. \A d \in Conns \ {c} : up'[d] = up[d] /\ down'[d] = down[d] /\ guest'[d] = guest[d] /\ job'[d] = job[d]
      <4>1. job' = [job EXCEPT ![c] = Free] /\ up' = up BY <1>11 DEF GuestReplies
      <4>2. \E g \in {"reading", "closed"} : guest' = [guest EXCEPT ![c] = g] BY <1>11 DEF GuestReplies
      <4>3. down' = down \/ \E ok \in BOOLEAN : down' = [down EXCEPT ![c] = Append(@, [req |-> job[c], ok |-> ok])]
        BY <1>11 DEF GuestReplies
      <4>4. \A d \in Conns \ {c} : down'[d] = down[d]
        <5>1. CASE down' = down BY <5>1
        <5>2. ASSUME NEW ok \in BOOLEAN, down' = [down EXCEPT ![c] = Append(@, [req |-> job[c], ok |-> ok])]
              PROVE \A d \in Conns \ {c} : down'[d] = down[d]
          <6> HIDE DEF ConnInv, CallInv, Silent, Serves, LockInv
          <6> QED BY <5>2
        <5> QED BY <4>3, <5>1, <5>2
      <4> QED BY <4>1, <4>2, <4>4
    <3> HIDE DEF ConnInv, CallInv, TypeOK
    <3> QED BY <1>11, <2>2, <3>1, Elsewhere DEF GuestReplies
  <2>3. CASE c = agent /\ ~retryLost
    <3>1. ~Silent(c) BY <1>11 DEF GuestReplies
    <3>2. ASSUME NEW e \in Execs, Serves(c, e) PROVE Silent(c)' \/ Serves(c, e)'
      <4>1. up[c] = <<>> /\ job[c] = e /\ down[c] = <<>> BY <1>11, <3>2 DEF GuestReplies
      <4>2. guest'[c] # "running" /\ up'[c] = <<>> BY <1>11, <4>1 DEF GuestReplies
      <4>3. down'[c] = <<>> \/ \E ok \in BOOLEAN : down'[c] = <<[req |-> e, ok |-> ok]>>
        <5>1. down' = down \/ \E ok \in BOOLEAN : down' = [down EXCEPT ![c] = Append(@, [req |-> job[c], ok |-> ok])]
          BY <1>11 DEF GuestReplies
        <5>2. CASE down' = down BY <4>1, <5>2
        <5>3. ASSUME NEW ok \in BOOLEAN, down' = [down EXCEPT ![c] = Append(@, [req |-> job[c], ok |-> ok])]
              PROVE down'[c] = <<[req |-> e, ok |-> ok]>>
          <6>1. down'[c] = Append(<<>>, [req |-> e, ok |-> ok]) BY <4>1, <5>3
          <6> QED BY <6>1
        <5> QED BY <5>1, <5>2, <5>3
      <4> QED BY <4>2, <4>3
    <3> HIDE DEF ConnInv, CallInv, TypeOK, Silent, Serves
    <3> QED BY <1>11, <2>3, <3>1, <3>2, OnAgent DEF GuestReplies
  <2> QED BY <2>1, <2>2, <2>3
<1>12. ASSUME NEW c \in Conns, GuestCloses(c) PROVE CallInv'
  BY <1>12, ZenonT(40) DEF GuestCloses
<1>13. CASE AgentDies
  BY <1>13 DEF AgentDies
<1>14. CASE UNCHANGED vars BY <1>14 DEF vars
<1>15. ASSUME NEW e \in Execs, WriteReply(e) PROVE CallInv'
  BY <1>15 DEF WriteReply
<1> QED
  BY <1>1, <1>2, <1>3, <1>4, <1>5, <1>6, <1>7, <1>8, <1>9, <1>10, <1>11, <1>12, <1>13, <1>14, <1>15 DEF Next,
    HandlerStep, GuestStep, Quiet

(* So an answer is to the own request. *)
LEMMA NextAnswers ==
  ASSUME TypeOK, LockInv, ConnInv, CallInv, AnswerMatches, Next
  PROVE  AnswerMatches'
<1> USE DEF hostVars, wireVars, guestVars, TypeOK, Goto, LockInv, LockedPcs, ConnInv, CallInv, Silent,
      Serves, NoConn, AnswerMatches
<1>1. ASSUME NEW e \in Execs, Lock(e) PROVE AnswerMatches'
  BY <1>1 DEF Lock
<1>2. ASSUME NEW e \in Execs, DialOK(e) PROVE AnswerMatches'
  BY <1>2 DEF DialOK
<1>3. ASSUME NEW e \in Execs, DialFails(e) PROVE AnswerMatches'
  BY <1>3 DEF DialFails, Answer
<1>4. ASSUME NEW e \in Execs, WriteMessage(e) PROVE AnswerMatches'
  BY <1>4 DEF WriteMessage
<1>5. ASSUME NEW e \in Execs, ReadMessage(e) PROVE AnswerMatches'
  <2>1. ~retryLost => Head(down[agent]).req = e
    <3> SUFFICES ASSUME ~retryLost PROVE Head(down[agent]).req = e OBVIOUS
    <3>1. PICK ok \in BOOLEAN : down[agent] = <<[req |-> e, ok |-> ok]>> BY <1>5 DEF ReadMessage
    <3> QED BY <3>1
  <2> QED BY <1>5, <2>1 DEF ReadMessage, Answer
<1>6. ASSUME NEW e \in Execs, FirstCallFails(e) PROVE AnswerMatches'
  BY <1>6 DEF FirstCallFails, CallError
<1>7. ASSUME NEW e \in Execs, RetryFails(e) PROVE AnswerMatches'
  BY <1>7 DEF RetryFails, Answer, CallError
<1>8. CASE CloseAgent
  BY <1>8 DEF CloseAgent
<1>9. ASSUME NEW c \in Conns, GuestReads(c) PROVE AnswerMatches'
  BY <1>9 DEF GuestReads
<1>10. ASSUME NEW c \in Conns, GuestRefuses(c) PROVE AnswerMatches'
  BY <1>10 DEF GuestRefuses
<1>11. ASSUME NEW c \in Conns, GuestReplies(c) PROVE AnswerMatches'
  BY <1>11 DEF GuestReplies
<1>12. ASSUME NEW c \in Conns, GuestCloses(c) PROVE AnswerMatches'
  BY <1>12 DEF GuestCloses
<1>13. CASE AgentDies
  BY <1>13 DEF AgentDies
<1>14. CASE UNCHANGED vars BY <1>14 DEF vars
<1>15. ASSUME NEW e \in Execs, WriteReply(e) PROVE AnswerMatches'
  BY <1>15 DEF WriteReply
<1> QED
  BY <1>1, <1>2, <1>3, <1>4, <1>5, <1>6, <1>7, <1>8, <1>9, <1>10, <1>11, <1>12, <1>13, <1>14, <1>15 DEF Next,
    HandlerStep, GuestStep, Quiet

-----------------------------------------------------------------------------
(* The channel.                                                              *)

LEMMA InitIInv == Init => IInv
<1> SUFFICES ASSUME Init PROVE IInv OBVIOUS
<1> USE ChannelAssumption, ConnFacts DEF Init
<1>1. TypeOK
  <2>1. \A c \in Conns : up[c] \in Seq(Execs) /\ down[c] \in Seq(Frames) BY EmptySeq
  <2>2. up \in [Conns -> Seq(Execs)] /\ down \in [Conns -> Seq(Frames)] BY <2>1
  <2> QED BY <2>2 DEF TypeOK, Pcs
<1>2. LockInv BY DEF LockInv, LockedPcs
<1>3. ConnInv BY DEF ConnInv, NoConn, Conns
<1>4. CountInv BY PastFacts DEF CountInv
<1>5. RunsInv
  <2>1. \A e \in Execs : Pending(e) = {}
    <3>1. \A c \in Conns : Len(up[c]) = 0 OBVIOUS
    <3> QED BY <3>1 DEF Pending, Carries
  <2>2. \A e \in Execs : Cardinality(Pending(e)) = 0 BY <2>1, FS_EmptySet
  <2>3. \A e \in Execs : Unsent(e) = 2 BY DEF Unsent
  <2>4. \A c \in Conns : 1..Len(up[c]) = {} OBVIOUS
  <2> QED BY <2>1, <2>2, <2>3, <2>4 DEF RunsInv
<1>6. CallInv BY DEF CallInv, Silent, NoConn
<1>7. AnswerMatches BY DEF AnswerMatches
<1> QED BY <1>1, <1>2, <1>3, <1>4, <1>5, <1>6, <1>7 DEF IInv

LEMMA NextIInv == IInv /\ [Next]_vars => IInv'
<1> SUFFICES ASSUME IInv, [Next]_vars PROVE IInv' OBVIOUS
<1>1. CASE Next
  BY <1>1, NextTypes, NextLock, NextConn, NextCount, NextRuns, NextCall, NextAnswers DEF IInv
<1>2. CASE UNCHANGED vars
  <2> USE <1>2 DEF vars, hostVars, wireVars, guestVars
  <2>2. TypeOK' BY DEF IInv, TypeOK
  <2>3. LockInv' BY DEF IInv, LockInv
  <2>4. ConnInv' BY DEF IInv, ConnInv
  <2>5. CountInv' BY DEF IInv, CountInv, Past1, Past2
  <2>6. RunsInv' BY DEF IInv, RunsInv, Pending, Carries, Unsent
  <2>7. CallInv' BY DEF IInv, CallInv, Silent, Serves
  <2>8. AnswerMatches' BY DEF IInv, AnswerMatches
  <2> QED BY <2>2, <2>3, <2>4, <2>5, <2>6, <2>7, <2>8 DEF IInv
<1> QED BY <1>1, <1>2

(* The invariant of the exec RPC: who holds agentMu, which connection is open, what is
   under way on it, and how often a command can still start. *)
THEOREM ChannelInvariance == Spec => []IInv
<1>1. Init => IInv BY InitIInv
<1>2. IInv /\ [Next]_vars => IInv' BY NextIInv
<1> QED BY <1>1, <1>2, PTL DEF Spec

-----------------------------------------------------------------------------
(* The channel while a snapshot is taken.                                    *)

(* Every step of the composition is one the channel allows: the close of the cached
   connection by the snapshot is CloseAgent, or does nothing when there is none. *)
LEMMA StreamStep == IInv /\ [StreamNext]_streamVars => [Next]_vars
<1> SUFFICES ASSUME IInv, [StreamNext]_streamVars PROVE [Next]_vars OBVIOUS
<1>1. CASE SnapLock
  <2>1. CASE agent = NoConn
    <3>1. open = {} BY <2>1 DEF IInv, ConnInv
    <3> QED BY <1>1, <2>1, <3>1 DEF SnapLock, vars, hostVars, wireVars, guestVars
  <2>2. CASE agent # NoConn
    BY <1>1, <2>2 DEF SnapLock, Next, CloseAgent
  <2> QED BY <2>1, <2>2
<1>2. CASE SnapStep
  BY <1>2 DEF SnapStep, SnapPause, SnapCapture, SnapFails, SnapResume
<1>3. CASE \E e \in Execs : Lock(e) \/ DialFails(e) \/ WriteMessage(e) \/ ReadMessage(e)
                            \/ FirstCallFails(e) \/ RetryFails(e) \/ WriteReply(e)
  BY <1>3 DEF Next, HandlerStep
<1>4. CASE WhileRunning BY <1>4 DEF WhileRunning, Next, HandlerStep
<1>5. CASE Quiet BY <1>5 DEF Next
<1>6. CASE UNCHANGED streamVars BY <1>6 DEF streamVars
<1> QED BY <1>1, <1>2, <1>3, <1>4, <1>5, <1>6 DEF StreamNext

LEMMA StreamStepInv == StreamInv /\ [StreamNext]_streamVars => StreamInv'
<1> SUFFICES ASSUME StreamInv, [StreamNext]_streamVars PROVE StreamInv' OBVIOUS
<1>1. [Next]_vars BY StreamStep DEF StreamInv
<1>2. IInv' BY <1>1, NextIInv DEF StreamInv
<1>3. SnapInv'
  <2> USE DEF StreamInv, SnapInv, SnapPcs
  <2>1. CASE SnapLock BY <2>1 DEF SnapLock
  <2>2. CASE SnapPause BY <2>2 DEF SnapPause
  <2>3. CASE SnapCapture BY <2>3 DEF SnapCapture
  <2>4. CASE SnapFails BY <2>4 DEF SnapFails
  <2>5. CASE SnapResume
    <3>1. paused' \in BOOLEAN BY <2>5 DEF SnapResume
    <3> QED BY <2>5, <3>1 DEF SnapResume
  <2>6. CASE UNCHANGED snapVars BY <2>6 DEF snapVars
  <2> QED BY <2>1, <2>2, <2>3, <2>4, <2>5, <2>6 DEF StreamNext, SnapStep, streamVars
<1> QED BY <1>2, <1>3 DEF StreamInv

(* The same with the steps of createUserSnapshotFromSandbox among them. *)
THEOREM StreamInvariance == StreamSpec => []StreamInv
<1>1. StreamInit => StreamInv
  <2> SUFFICES ASSUME StreamInit PROVE StreamInv OBVIOUS
  <2>1. IInv BY InitIInv DEF StreamInit
  <2>2. paused \in BOOLEAN BY DEF StreamInit
  <2>4. SnapInv BY <2>2 DEF StreamInit, SnapInv, SnapPcs
  <2> QED BY <2>1, <2>4 DEF StreamInv
<1>2. StreamInv /\ [StreamNext]_streamVars => StreamInv' BY StreamStepInv
<1> QED BY <1>1, <1>2, PTL DEF StreamSpec

(* createUserSnapshotFromSandbox does nothing to the exec RPC that the RPC does not
   allow already: the composition implements the channel. *)
THEOREM StreamImplementsChannel == StreamSpec => Spec
<1>1. StreamInit => Init BY DEF StreamInit
<1>2. StreamInv /\ [StreamNext]_streamVars => [Next]_vars BY StreamStep DEF StreamInv
<1> QED BY <1>1, <1>2, StreamInvariance, PTL DEF StreamSpec, Spec

(* Every step keeps the types: the two dials an exec may make fit the connections. *)
THEOREM StreamTypes == StreamSpec => []StreamTypeOK
<1>1. StreamInv => StreamTypeOK
  BY DEF StreamInv, IInv, SnapInv, StreamTypeOK
<1> QED BY <1>1, StreamInvariance, PTL

(* However calls fail, time out and are retried, and whatever a snapshot closes under
   them, the guest starts the command of a request at most twice. *)
THEOREM StartsAtMostTwice == StreamSpec => []AtMostTwice
<1>1. StreamInv => AtMostTwice
  <2> SUFFICES ASSUME StreamInv, NEW e \in Execs PROVE runs[e] <= 2 BY DEF AtMostTwice
  <2>1. runs[e] \in Nat BY DEF StreamInv, IInv, TypeOK
  <2>2. Cardinality(Pending(e)) \in Nat /\ Unsent(e) \in Nat BY PendingFacts DEF Unsent
  <2>3. runs[e] + Cardinality(Pending(e)) + Unsent(e) <= 2 BY DEF StreamInv, IInv, RunsInv
  <2> QED BY <2>1, <2>2, <2>3
<1> QED BY <1>1, StreamInvariance, PTL

(* Until a retry fails after its request was sent, a client of /exec gets the output of
   its own command or an error. *)
THEOREM OutputIsOwn == StreamSpec => []AnswerMatches
<1>1. StreamInv => AnswerMatches BY DEF StreamInv, IInv
<1> QED BY <1>1, StreamInvariance, PTL
=============================================================================
