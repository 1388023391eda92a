------------------------------ MODULE Transport ------------------------------
(***************************************************************************)
(* mqtt/transport.py: correlation of read requests with the frames that    *)
(* come back.  A reply carries no request identifier; the only signals are *)
(* the slave address in the frame and the register block its size is       *)
(* recognised as, if any.                                                  *)
(*                                                                         *)
(* One asyncio event loop runs everything, so each handler is one action.  *)
(* A request is two steps of its task, with other callbacks in between:    *)
(* Request (append the entry, send, suspend) and Resume (run the finally   *)
(* clause and return or raise).  In between its future may be settled by a *)
(* frame, a refusal or an abort, and the task may be cancelled by          *)
(* asyncio.wait_for's deadline or by the owner of the poll task.           *)
(*                                                                         *)
(* Requests are numbered in the order they are issued.  _waiters is a list *)
(* that is only appended to and removed from, so its order is the order of *)
(* the numbers, and a set of numbers stands for it.                        *)
(***************************************************************************)
EXTENDS Naturals

CONSTANTS Slaves,        \* Modbus addresses: 0 is the main unit, others are packs
          Registers,     \* register blocks that can be asked for
          Unsized,       \* blocks whose reply has a size that identifies no block
          Streamed,      \* address and block of what the device pushes unasked
          NoBlock,       \* Reply.block is None: the size identifies nothing
          NoRequest,     \* a request number not issued yet
          NoReply,       \* a future that holds no frame
          MaxRequests    \* bound: requests issued in a behaviour

ASSUME TransportAssumption ==
    /\ Unsized \subseteq Registers
    /\ Streamed \subseteq [slave : Slaves, register : Registers]
    /\ NoBlock \notin Registers
    /\ MaxRequests \in Nat

Ids == 1..MaxRequests

\* _Pending: what an outstanding request expects its reply to look like.
Pending == [slave : Slaves, register : Registers]

\* Reply, with two fields the code cannot see: the block the frame really
\* carries, and the request the device was answering (0 when it pushes).
Reply == [slave : Slaves, block : Registers \cup {NoBlock},
          carries : Registers, to : 0..MaxRequests]

FutureStates == {"none", "pending", "reply", "refused", "aborted", "cancelled"}
Outcomes == {"reply", "refused", "aborted", "cancelled", "timeout", "senderror"}

ASSUME SentinelAssumption ==
    /\ NoRequest \notin Pending
    /\ NoReply \notin Reply

VARIABLES issued,    \* how many requests have been made
          expected,  \* request -> the _Pending of its entry
          waiters,   \* Transport._waiters, as the set of request numbers
          future,    \* request -> state of its future
          answer,    \* request -> the frame its future was settled with
          signal,    \* request -> why its task has a cancellation pending
          status,    \* request -> "new", "waiting", or how request() ended
          wire       \* frames of the device that may still arrive, or arrive again

vars == <<issued, expected, waiters, future, answer, signal, status, wire>>
exchange == <<issued, expected, waiters, future, answer, signal, status>>

------------------------------------------------------------------------------
(* Mutated forms, each standing for a plausible bug in the operator below    *)
(* that it replaces when the mutation runs are made.                         *)

MatchesExactly(i, f) == f.slave = expected[i].slave /\ f.block = expected[i].register
MatchesAnySlave(i, f) == f.block \in {NoBlock, expected[i].register}
AlsoSettled(S) == S
Newest(S) == {i \in S : \A j \in S : j <= i}
KeepEntry(i) == waiters
NeverDue(i) == FALSE

------------------------------------------------------------------------------
(* Helpers.                                                                  *)

\* A reply from the right address answers the request unless it is
\* recognisably a different block.
Matches(i, f) ==
    /\ f.slave = expected[i].slave
    /\ f.block = NoBlock \/ f.block = expected[i].register

\* The loops of on_frame and fail skip entries whose future is done: those stay
\* in the list until their task runs again.
Open(S) == {i \in S : future[i] = "pending"}

\* Both loops take the first entry of the list that qualifies.
First(S) == {i \in S : \A j \in S : i <= j}

Answerable(f) == Open({i \in waiters : Matches(i, f)})
Refusable(s) == Open({i \in waiters : expected[i].slave = s})

\* The finally clause of request(): remove the entry if it is still listed.
Released(i) == waiters \ {i}

\* wait_for's deadline is armed while the task waits and fires once.  When it
\* passes after a cancellation from outside it changes nothing any more.
DeadlineArmed(i) == status[i] = "waiting" /\ signal[i] = "none"

\* The task is scheduled again once its future is settled or cancelled.
Woken(i) == status[i] = "waiting" /\ future[i] # "pending"

\* What abort does to the future of an entry.
Aborted(i) == IF future[i] = "pending" THEN "aborted" ELSE future[i]

\* How request() ends: a cancellation from outside is never turned into
\* anything else, the deadline's own becomes TimeoutError even when a result
\* arrived before the task could run, otherwise the future decides.
Outcome(i) == CASE signal[i] = "cancel"  -> "cancelled"
                [] signal[i] = "timeout" -> "timeout"
                [] OTHER                 -> future[i]

------------------------------------------------------------------------------
Init ==
    /\ issued = 0
    /\ expected = [i \in Ids |-> NoRequest]
    /\ waiters = {}
    /\ future = [i \in Ids |-> "none"]
    /\ answer = [i \in Ids |-> NoReply]
    /\ signal = [i \in Ids |-> "none"]
    /\ status = [i \in Ids |-> "new"]
    /\ wire = {}

(* The task that calls request().                                            *)

\* request() up to its await: the entry is listed, then the read is sent.
Request(p) ==
    /\ issued < MaxRequests
    /\ issued' = issued + 1
    /\ expected' = [expected EXCEPT ![issued + 1] = p]
    /\ waiters' = waiters \cup {issued + 1}
    /\ future' = [future EXCEPT ![issued + 1] = "pending"]
    /\ status' = [status EXCEPT ![issued + 1] = "waiting"]
    /\ UNCHANGED <<answer, signal, wire>>

\* _send raises (no MQTT client): the finally clause takes the entry out again
\* before anything else can run, and the error reaches the caller.
RequestUnsent(p) ==
    /\ issued < MaxRequests
    /\ issued' = issued + 1
    /\ expected' = [expected EXCEPT ![issued + 1] = p]
    /\ status' = [status EXCEPT ![issued + 1] = "senderror"]
    /\ UNCHANGED <<waiters, future, answer, signal, wire>>

\* The task runs again: finally clause, then return or raise.
Resume(i) ==
    /\ Woken(i)
    /\ waiters' = Released(i)
    /\ status' = [status EXCEPT ![i] = Outcome(i)]
    /\ UNCHANGED <<issued, expected, future, answer, signal, wire>>

(* Cancellation: Task.cancel() cancels the future the task waits on, or, when *)
(* that one is already done, marks the task so that it is cancelled on resume.*)

Interrupt(i, why) ==
    /\ future' = [future EXCEPT ![i] = IF @ = "pending" THEN "cancelled" ELSE @]
    /\ signal' = [signal EXCEPT ![i] = why]
    /\ UNCHANGED <<issued, expected, waiters, answer, status, wire>>

\* wait_for's deadline passes.
Timeout(i) ==
    /\ DeadlineArmed(i)
    /\ Interrupt(i, "timeout")

\* The poll task is cancelled while it waits in request().
Cancel(i) ==
    /\ status[i] = "waiting"
    /\ Interrupt(i, "cancel")

(* Callbacks of the message handler.                                         *)

\* on_frame: the frame settles the first open entry it matches, if any.  The
\* broker delivers at least once, so the frame may stay to arrive again.
OnFrame(f) ==
    /\ f \in wire
    /\ wire' \in {wire, wire \ {f}}
    /\ \/ /\ Answerable(f) = {}
          /\ UNCHANGED exchange
       \/ \E i \in First(Answerable(f)) :
             /\ waiters' = waiters \ {i}
             /\ future' = [future EXCEPT ![i] = "reply"]
             /\ answer' = [answer EXCEPT ![i] = f]
             /\ UNCHANGED <<issued, expected, signal, status>>

\* fail: a refusal names no register, so the oldest open request to that
\* address takes it.
Fail(s) ==
    \E i \in First(Refusable(s)) :
        /\ waiters' = waiters \ {i}
        /\ future' = [future EXCEPT ![i] = "refused"]
        /\ UNCHANGED <<issued, expected, answer, signal, status, wire>>

\* abort: the connection went away, every entry fails and the list is cleared.
Abort ==
    /\ waiters # {}
    /\ future' = [i \in Ids |-> IF i \in waiters THEN Aborted(i) ELSE future[i]]
    /\ waiters' = {}
    /\ UNCHANGED <<issued, expected, answer, signal, status, wire>>

(* The device and the broker, outside the code.                              *)

Recognised(r) == IF r \in Unsized THEN NoBlock ELSE r

\* The device answers a read it was sent, at any later time, or never.
DeviceReplies(i) ==
    /\ i <= issued /\ status[i] # "senderror"
    /\ wire' = wire \cup {[slave |-> expected[i].slave, carries |-> expected[i].register,
                           block |-> Recognised(expected[i].register), to |-> i]}
    /\ UNCHANGED exchange

\* The device pushes a block nobody asked for.
DevicePushes(p) ==
    /\ wire' = wire \cup {[slave |-> p.slave, carries |-> p.register,
                           block |-> Recognised(p.register), to |-> 0]}
    /\ UNCHANGED exchange

------------------------------------------------------------------------------
Next ==
    \/ \E p \in Pending : Request(p) \/ RequestUnsent(p)
    \/ \E i \in Ids : Resume(i) \/ Timeout(i) \/ Cancel(i) \/ DeviceReplies(i)
    \/ \E f \in wire : OnFrame(f)
    \/ \E s \in Slaves : Fail(s)
    \/ \E p \in Streamed : DevicePushes(p)
    \/ Abort

Spec == Init /\ [][Next]_vars

\* The event loop runs every task that is ready and every timer that is due;
\* nothing is assumed of the device or of the broker.
Fairness == \A i \in Ids : WF_vars(Resume(i)) /\ WF_vars(Timeout(i))

FairSpec == Spec /\ Fairness

------------------------------------------------------------------------------
(* Properties.                                                               *)

\* Type correctness of the state of Transport and of the environment.
TypeOK ==
    /\ issued \in 0..MaxRequests
    /\ expected \in [Ids -> Pending \cup {NoRequest}]
    /\ waiters \subseteq Ids
    /\ future \in [Ids -> FutureStates]
    /\ answer \in [Ids -> Reply \cup {NoReply}]
    /\ signal \in [Ids -> {"none", "timeout", "cancel"}]
    /\ status \in [Ids -> {"new", "waiting"} \cup Outcomes]
    /\ wire \subseteq Reply

\* A task whose future is still open can be reached by on_frame, fail and abort:
\* no request is left with nothing but its deadline to end it.
OpenIsListed ==
    \A i \in Ids : status[i] = "waiting" /\ future[i] = "pending" => i \in waiters

\* _waiters holds no entry of a request that has ended, however it ended: the
\* list cannot grow for the life of the integration.
NoLeak == \A i \in waiters : status[i] = "waiting"

\* The two together: what on_frame, fail and abort can reach is what is still waited for.
ListIsOpen == OpenIsListed /\ NoLeak

\* Requests that look alike are answered in the order they were issued: on_frame
\* never lets a reply overtake an older open request with the same address and
\* register.
AnsweredInOrder ==
    \A i, j \in Ids :
        /\ i < j
        /\ expected[i] = expected[j]
        /\ future[j] = "reply"
        => future[i] # "pending"

\* A refusal goes to the oldest open request to the refusing address: no younger
\* one to that address is ever refused while an older one stays open.
RefusedInOrder ==
    \A i, j \in Ids :
        /\ i < j
        /\ issued >= j
        /\ expected[i].slave = expected[j].slave
        /\ future[j] = "refused"
        => future[i] # "pending"

\* A frame whose block is recognised only ever ends a request for that very
\* block of that very slave, however late, often or out of order it arrives.
RecognisedAnswersOwnBlock ==
    \A i \in Ids :
        answer[i] # NoReply /\ answer[i].block # NoBlock
            => expected[i] = [slave |-> answer[i].slave, register |-> answer[i].carries]

\* A request that returned a frame returned one from the address it asked, and
\* its future really held it: a timed-out or refused request returns nothing.
RepliedMeansAnswered ==
    \A i \in Ids :
        /\ status[i] = "reply" => future[i] = "reply"
        /\ future[i] = "reply" => answer[i] # NoReply
        /\ answer[i] # NoReply => answer[i].slave = expected[i].slave

\* A future is settled once: neither a frame after the deadline, nor a second
\* copy of a frame, nor a refusal, nor an abort changes it again (asyncio would
\* raise InvalidStateError inside the message handler).
SettledOnce ==
    [][\A i \in Ids : future[i] \notin {"none", "pending"}
            => future'[i] = future[i] /\ answer'[i] = answer[i]]_vars

\* The answer to an open request is never thrown away: when the frame the device
\* sent for it is consumed, some request takes it as its answer.
NoAnswerIgnored ==
    [][\A i \in Ids : \A f \in wire \ wire' :
            f.to = i /\ future[i] = "pending"
                => \E j \in Ids : future[j] = "pending" /\ future'[j] = "reply"]_vars

\* Every request() returns or raises, even when every frame is lost.
EveryRequestEnds == \A i \in Ids : status[i] = "waiting" ~> status[i] \in Outcomes

\* The list of entries implements the promise made to the callers: a frame or a
\* refusal goes to the oldest open request it fits of all there are.
Promise == INSTANCE RequestReply WITH verdict <- future
ImplementsRequestReply == Promise!Spec

\* The inductive invariant: the parts above that are invariants, and what the
\* entries in the list and the numbers of requests have in common.
IInv ==
    /\ TypeOK
    /\ OpenIsListed
    /\ NoLeak
    /\ \A i \in Ids : i <= issued <=> status[i] # "new"
    /\ \A i \in Ids : i <= issued <=> expected[i] # NoRequest
    /\ \A i \in Ids : status[i] = "new" => future[i] = "none" /\ signal[i] = "none"
    /\ \A i \in Ids : status[i] = "waiting" => future[i] # "none"
    /\ \A i \in Ids : future[i] = "pending" => status[i] = "waiting"
    /\ \A i \in Ids : signal[i] # "none" => future[i] # "pending"
    /\ \A i \in Ids : future[i] = "reply" <=> answer[i] # NoReply
    /\ \A f \in wire : f.block \in {NoBlock, f.carries}
    /\ \A i \in Ids : answer[i] # NoReply => answer[i].block \in {NoBlock, answer[i].carries}
    /\ RepliedMeansAnswered
    /\ RecognisedAnswersOwnBlock
    /\ AnsweredInOrder
    /\ RefusedInOrder

\* What NoAnswerIgnored needs in addition: a frame that answers a request is of the
\* address and block the request was made for.
RepliesFit ==
    \A f \in wire : f.to # 0 =>
        /\ f.to <= issued
        /\ expected[f.to] = [slave |-> f.slave, register |-> f.carries]

==============================================================================
