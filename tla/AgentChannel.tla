------------------------------- MODULE AgentChannel -------------------------------
(***************************************************************************)
(* The exec RPC of one sandbox: the execs of the API server, the cached    *)
(* connection sb.Agent under agentMu, the single retry, and the agent in   *)
(* the guest with one goroutine per connection.                            *)
(*                                                                         *)
(* Source: cmd/server/{handlers,agent,sandbox}.go, internal/agentrpc,      *)
(* cmd/agent/main.go.                                                      *)
(*                                                                         *)
(* A message is named by the exec it belongs to: nothing in the frames     *)
(* ties a response to its request but their order on the connection.       *)
(***************************************************************************)
EXTENDS Naturals, Sequences, FiniteSets

CONSTANTS
  Execs,   \* requests to POST /exec, one handler goroutine each
  Free     \* agentMu is not held

ASSUME ChannelAssumption == IsFiniteSet(Execs) /\ Free \notin Execs

VARIABLES
  pc,        \* where each exec is
  agentMu,   \* the holder of sb.agentMu, or Free
  agent,     \* sb.Agent: the cached connection, NoConn when nil
  dialed,    \* connections made so far
  open,      \* connections whose host end is open
  up, down,  \* frames under way on each connection, to the guest and back
  guest,     \* the agent's goroutine of each connection
  job,       \* the exec it runs
  runs,      \* how often the guest has started the command of each exec
  answer,    \* what the client got: whose output, or an error
  retryLost  \* history: some retry failed after its request was sent

hostVars  == <<pc, agentMu, agent, answer, retryLost>>
wireVars  == <<dialed, open, up, down>>
guestVars == <<guest, job, runs>>
vars      == <<hostVars, wireVars, guestVars>>

NoConn == 0
(* The connection of the create, and at most two dials by each exec. *)
Conns  == 1..(2 * Cardinality(Execs) + 1)

Pcs == {"new", "dial1", "send1", "recv1", "dial2", "send2", "recv2", "reply", "done"}

(* waitForAgentReady has pinged over a fresh connection, the guest network has
   been set over it, and both calls have got their answers. *)
Init ==
  /\ pc = [e \in Execs |-> "new"]
  /\ agentMu = Free
  /\ agent = 1
  /\ dialed = 1
  /\ open = {1}
  /\ up = [c \in Conns |-> <<>>]
  /\ down = [c \in Conns |-> <<>>]
  /\ guest = [c \in Conns |-> IF c = 1 THEN "reading" ELSE "none"]
  /\ job = [c \in Conns |-> Free]
  /\ runs = [e \in Execs |-> 0]
  /\ answer = [e \in Execs |-> "none"]
  /\ retryLost = FALSE

Goto(e, l) == pc' = [pc EXCEPT ![e] = l]

(* What will be written to the client is decided; agentMu is still held. *)
Answer(e, a) ==
  /\ answer' = [answer EXCEPT ![e] = a]
  /\ UNCHANGED agentMu
  /\ Goto(e, "reply")

-----------------------------------------------------------------------------
(* handleExec.                                                               *)

Lock(e) ==
  /\ pc[e] = "new"
  /\ agentMu = Free
  /\ agentMu' = e
  /\ Goto(e, IF agent = NoConn THEN "dial1" ELSE "send1")
  /\ UNCHANGED <<agent, answer, retryLost, wireVars, guestVars>>

(* dialAgent: the guest accepts and starts a goroutine for the connection. *)
DialOK(e) ==
  /\ pc[e] \in {"dial1", "dial2"}
  /\ dialed' = dialed + 1
  /\ open' = open \cup {dialed + 1}
  /\ guest' = [guest EXCEPT ![dialed + 1] = "reading"]
  /\ agent' = dialed + 1
  /\ Goto(e, IF pc[e] = "dial1" THEN "send1" ELSE "send2")
  /\ UNCHANGED <<agentMu, answer, retryLost, up, down, job, runs>>

DialFails(e) ==
  /\ pc[e] \in {"dial1", "dial2"}
  /\ Answer(e, "error")
  /\ UNCHANGED <<agent, retryLost, wireVars, guestVars>>

(* The first half of Call.  A frame written after the guest has closed is lost. *)
WriteMessage(e) ==
  /\ pc[e] \in {"send1", "send2"}
  /\ up' = [up EXCEPT ![agent] = IF guest[agent] = "closed" THEN @ ELSE Append(@, e)]
  /\ Goto(e, IF pc[e] = "send1" THEN "recv1" ELSE "recv2")
  /\ UNCHANGED <<agentMu, agent, answer, retryLost, dialed, open, down, guestVars>>

(* The second half: whatever frame comes first is taken for the response. *)
ReadMessage(e) ==
  /\ pc[e] \in {"recv1", "recv2"}
  /\ down[agent] # <<>>
  /\ Head(down[agent]).ok
  /\ Answer(e, Head(down[agent]).req)
  /\ down' = [down EXCEPT ![agent] = Tail(@)]
  /\ UNCHANGED <<agent, retryLost, dialed, open, up, guestVars>>

(* A call fails because the write meets a closed connection, because the deadline
   or the end of file comes before a response, or because that says ok=false. *)
CallError(e) ==
  \/ pc[e] \in {"send1", "send2"} /\ guest[agent] = "closed" /\ UNCHANGED down
  \/ pc[e] \in {"recv1", "recv2"} /\ down[agent] = <<>> /\ UNCHANGED down
  \/ /\ pc[e] \in {"recv1", "recv2"}
     /\ down[agent] # <<>> /\ ~Head(down[agent]).ok
     /\ down' = [down EXCEPT ![agent] = Tail(@)]

(* Variant: the retry reuses the connection instead of closing it. *)
FirstCallFailsKeeps(e) ==
  /\ pc[e] \in {"send1", "recv1"}
  /\ CallError(e)
  /\ Goto(e, "send2")
  /\ UNCHANGED <<agentMu, agent, answer, retryLost, dialed, open, up, guestVars>>

(* The connection is closed and forgotten before the retry. *)
FirstCallFails(e) ==
  /\ pc[e] \in {"send1", "recv1"}
  /\ CallError(e)
  /\ open' = open \ {agent}
  /\ agent' = NoConn
  /\ Goto(e, "dial2")
  /\ UNCHANGED <<agentMu, answer, retryLost, dialed, up, guestVars>>

(* Variant: the retry is repeated until it works. *)
RetryFailsAgain(e) ==
  /\ pc[e] \in {"send2", "recv2"}
  /\ CallError(e)
  /\ Goto(e, "send2")
  /\ UNCHANGED <<agentMu, agent, answer, retryLost, dialed, open, up, guestVars>>

(* Variant: no deadline ends the second wait. *)
RetryFailsWaits(e) ==
  /\ pc[e] \in {"send2", "recv2"}
  /\ CallError(e)
  /\ Goto(e, "recv2")
  /\ UNCHANGED <<agentMu, agent, answer, retryLost, dialed, open, up, guestVars>>

(* The error is answered; sb.Agent keeps the connection of the retry. *)
RetryFails(e) ==
  /\ pc[e] \in {"send2", "recv2"}
  /\ CallError(e)
  /\ retryLost' = TRUE
  /\ Answer(e, "error")
  /\ UNCHANGED <<agent, dialed, open, up, guestVars>>

(* The response has been taken over by the connection to the client, and the deferred
   unlock runs.  Until the client reads that may take for ever: http.Server has no
   WriteTimeout. *)
WriteReply(e) ==
  /\ pc[e] = "reply"
  /\ agentMu' = Free
  /\ Goto(e, "done")
  /\ UNCHANGED <<agent, answer, retryLost, wireVars, guestVars>>

(* cleanupSandbox and createUserSnapshotFromSandbox close the cached connection
   under agentMu. *)
CloseAgent ==
  /\ agentMu = Free
  /\ agent # NoConn
  /\ open' = open \ {agent}
  /\ agent' = NoConn
  /\ UNCHANGED <<pc, agentMu, answer, retryLost, dialed, up, down, guestVars>>

-----------------------------------------------------------------------------
(* The agent: serveConn, handle and runExec.                                 *)

(* A request is read and its command started. *)
GuestReads(c) ==
  /\ guest[c] = "reading"
  /\ up[c] # <<>>
  /\ up' = [up EXCEPT ![c] = Tail(@)]
  /\ job' = [job EXCEPT ![c] = Head(up[c])]
  /\ runs' = [runs EXCEPT ![Head(up[c])] = @ + 1]
  /\ guest' = [guest EXCEPT ![c] = "running"]
  /\ UNCHANGED <<hostVars, dialed, open, down>>

(* The request is refused, or its command cannot be started: ok=false. *)
GuestRefuses(c) ==
  /\ guest[c] = "reading"
  /\ up[c] # <<>>
  /\ up' = [up EXCEPT ![c] = Tail(@)]
  /\ down' = [down EXCEPT ![c] = Append(@, [req |-> Head(up[c]), ok |-> FALSE])]
  /\ UNCHANGED <<hostVars, dialed, open, guestVars>>

(* Variant: the job is cleared before the response names it. *)
GuestRepliesCleared(c) ==
  /\ guest[c] = "running"
  /\ job' = [job EXCEPT ![c] = Free]
  /\ c \in open
  /\ down' = [down EXCEPT ![c] = Append(@, [req |-> job'[c], ok |-> TRUE])]
  /\ guest' = [guest EXCEPT ![c] = "reading"]
  /\ UNCHANGED <<hostVars, dialed, open, up, runs>>

(* The command ended, or was killed at its timeout: an answer either way, ok=false
   when waiting for it failed.  When the host has closed its end, or the message is
   larger than MaxMessageBytes, the write fails and the goroutine ends. *)
GuestReplies(c) ==
  /\ guest[c] = "running"
  /\ job' = [job EXCEPT ![c] = Free]
  /\ \/ /\ c \in open
        /\ \E ok \in BOOLEAN : down' = [down EXCEPT ![c] = Append(@, [req |-> job[c], ok |-> ok])]
        /\ guest' = [guest EXCEPT ![c] = "reading"]
     \/ guest' = [guest EXCEPT ![c] = "closed"] /\ UNCHANGED down
  /\ UNCHANGED <<hostVars, dialed, open, up, runs>>

(* End of file or a protocol error between two requests: the goroutine closes the
   connection, and the frames under way on it may be lost. *)
GuestCloses(c) ==
  /\ guest[c] = "reading"
  /\ guest' = [guest EXCEPT ![c] = "closed"]
  /\ up' = [up EXCEPT ![c] = <<>>]
  /\ \/ UNCHANGED down
     \/ down' = [down EXCEPT ![c] = <<>>]
  /\ UNCHANGED <<hostVars, dialed, open, job, runs>>

(* The agent process dies with its commands; one may be there again for later dials. *)
AgentDies ==
  /\ \E c \in Conns : guest[c] \in {"reading", "running"}
  /\ guest' = [c \in Conns |-> IF guest[c] = "none" THEN "none" ELSE "closed"]
  /\ job' = [c \in Conns |-> Free]
  /\ up' = [c \in Conns |-> <<>>]
  /\ UNCHANGED <<hostVars, dialed, open, down, runs>>

HandlerStep(e) ==
  \/ DialOK(e) \/ DialFails(e) \/ WriteMessage(e) \/ ReadMessage(e)
  \/ FirstCallFails(e) \/ RetryFails(e)

GuestStep(c) == GuestReads(c) \/ GuestRefuses(c) \/ GuestReplies(c) \/ GuestCloses(c)

(* All execs are answered. *)
Quiet == (\A e \in Execs : pc[e] = "done") /\ UNCHANGED vars

Next ==
  \/ \E e \in Execs : Lock(e) \/ HandlerStep(e) \/ WriteReply(e)
  \/ CloseAgent
  \/ \E c \in Conns : GuestStep(c)
  \/ AgentDies
  \/ Quiet

Spec == Init /\ [][Next]_vars

-----------------------------------------------------------------------------
Frames == [req : Execs, ok : BOOLEAN]

TypeOK ==
  /\ pc \in [Execs -> Pcs]
  /\ agentMu \in Execs \cup {Free}
  /\ agent \in Conns \cup {NoConn}
  /\ dialed \in Conns
  /\ open \subseteq Conns
  /\ up \in [Conns -> Seq(Execs)]
  /\ down \in [Conns -> Seq(Frames)]
  /\ guest \in [Conns -> {"none", "reading", "running", "closed"}]
  /\ job \in [Conns -> Execs \cup {Free}]
  /\ runs \in [Execs -> Nat]
  /\ answer \in [Execs -> Execs \cup {"none", "error"}]
  /\ retryLost \in BOOLEAN

(* However calls fail, time out and race with late answers, the guest starts the
   command of one request at most twice. *)
AtMostTwice == \A e \in Execs : runs[e] <= 2

(* As long as no retry has failed, a client gets the output of its own command:
   the late answer to an abandoned first call is never read by anybody. *)
AnswerMatches ==
  ~retryLost => \A e \in Execs : answer[e] \in {"none", "error", e}

(* architecture.md: /exec "sends an RPC request over Firecracker vsock to an in-guest
   agent which runs the command and returns stdout/stderr/exit code": a client
   gets the output of its own command or an error. *)
OwnAnswer == \A e \in Execs : answer[e] \in {"none", "error", e}

(* An exec whose client does not read its response. *)
Unread(e) == pc[e] = "reply" /\ agentMu = e

(* Every exec gets agentMu, has its calls answered or failed, and replies, whatever the
   guest does; only a client that never reads its response, written under agentMu
   without a deadline, can keep it and the execs behind it waiting for ever. *)
ExecAnswered ==
  \A e \in Execs : pc[e] = "new" ~> (pc[e] = "done" \/ \E f \in Execs : []Unread(f))
=============================================================================
