--------------------------- MODULE TransportProofs ---------------------------
(***************************************************************************)
(* Theorems about Transport for every set of addresses and blocks and any  *)
(* number of requests.                                                     *)
(***************************************************************************)
EXTENDS Transport, TLAPS

USE TransportAssumption, SentinelAssumption DEF Ids

\* The start of Transport, with no request made, satisfies IInv.
LEMMA InitIInv == Init => IInv
  BY DEF Init, IInv, TypeOK, OpenIsListed, NoLeak, RepliedMeansAnswered,
         RecognisedAnswersOwnBlock, AnsweredInOrder, RefusedInOrder, FutureStates, Outcomes

\* Every handler of Transport, and every step of the device, preserves IInv.
LEMMA NextIInv == IInv /\ [Next]_vars => IInv'
<1> SUFFICES ASSUME IInv, [Next]_vars PROVE IInv'
  OBVIOUS
<1> USE DEF IInv, TypeOK, OpenIsListed, NoLeak, RepliedMeansAnswered,
            RecognisedAnswersOwnBlock, AnsweredInOrder, RefusedInOrder, FutureStates, Outcomes
<1>1. ASSUME NEW p \in Pending, Request(p) PROVE IInv'
  <2> DEFINE k == issued + 1
  <2>1. /\ k \in Ids /\ status[k] = "new" /\ expected[k] = NoRequest
        /\ future[k] = "none" /\ signal[k] = "none" /\ answer[k] = NoReply
        /\ \A i \in Ids : i < k <=> expected[i] # NoRequest
    BY <1>1 DEF Request
  <2>2. TypeOK'
    BY <1>1, <2>1 DEF Request
  <2>3. OpenIsListed' /\ NoLeak'
    BY <1>1, <2>1 DEF Request
  <2>4. RepliedMeansAnswered' /\ RecognisedAnswersOwnBlock'
    BY <1>1, <2>1 DEF Request
  <2>5. AnsweredInOrder'
    BY <1>1, <2>1 DEF Request
  <2>6. RefusedInOrder'
    BY <1>1, <2>1 DEF Request
  <2>7. QED
    BY <1>1, <2>1, <2>2, <2>3, <2>4, <2>5, <2>6 DEF Request
<1>2. ASSUME NEW p \in Pending, RequestUnsent(p) PROVE IInv'
  BY <1>2 DEF RequestUnsent, Pending
<1>3. ASSUME NEW i \in Ids, Resume(i) PROVE IInv'
  BY <1>3 DEF Resume, Woken, Released, Outcome
<1>4. ASSUME NEW i \in Ids, Timeout(i) PROVE IInv'
  BY <1>4 DEF Timeout, DeadlineArmed, Interrupt
<1>5. ASSUME NEW i \in Ids, Cancel(i) PROVE IInv'
  BY <1>5 DEF Cancel, Interrupt
<1>6. ASSUME NEW i \in Ids, DeviceReplies(i) PROVE IInv'
  BY <1>6 DEF DeviceReplies, Recognised, exchange, Reply, Pending
<1>7. ASSUME NEW f \in wire, OnFrame(f) PROVE IInv'
  <2>1. CASE UNCHANGED exchange
    BY <1>7, <2>1 DEF OnFrame, exchange
  <2>2. ASSUME NEW i \in First(Answerable(f)),
               waiters' = waiters \ {i},
               future' = [future EXCEPT ![i] = "reply"],
               answer' = [answer EXCEPT ![i] = f],
               UNCHANGED <<issued, expected, signal, status>>
        PROVE  IInv'
    <3>1. /\ i \in Ids /\ i \in waiters /\ future[i] = "pending" /\ Matches(i, f)
          /\ \A j \in waiters : future[j] = "pending" /\ Matches(j, f) => i <= j
      BY DEF First, Answerable, Open
    <3>2. f \in Reply /\ f.block \in {NoBlock, f.carries} /\ f # NoReply /\ wire' \subseteq wire
      BY <1>7 DEF OnFrame
    <3>3. TypeOK'
      BY <2>2, <3>1, <3>2
    <3>4. OpenIsListed' /\ NoLeak'
      BY <2>2, <3>1
    <3>5. RepliedMeansAnswered'
      BY <2>2, <3>1, <3>2 DEF Matches
    <3>6. expected[i] \in Pending /\ expected[i] = [slave |-> expected[i].slave, register |-> expected[i].register]
      BY <3>1 DEF Pending
    <3>7. RecognisedAnswersOwnBlock'
      BY <2>2, <3>1, <3>2, <3>6 DEF Matches
    <3>8. AnsweredInOrder'
      BY <2>2, <3>1 DEF Matches
    <3>9. RefusedInOrder'
      BY <2>2, <3>1
    <3>10. QED
      BY <2>2, <3>1, <3>2, <3>3, <3>4, <3>5, <3>7, <3>8, <3>9
  <2>3. QED
    BY <1>7, <2>1, <2>2 DEF OnFrame
<1>8. ASSUME NEW s \in Slaves, Fail(s) PROVE IInv'
  BY <1>8 DEF Fail, First, Refusable, Open
<1>9. ASSUME NEW p \in Streamed, DevicePushes(p) PROVE IInv'
  BY <1>9 DEF DevicePushes, Recognised, exchange, Reply
<1>10. ASSUME Abort PROVE IInv'
  BY <1>10 DEF Abort, Aborted
<1>11. ASSUME UNCHANGED vars PROVE IInv'
  BY <1>11 DEF vars
<1>12. QED
  BY <1>1, <1>2, <1>3, <1>4, <1>5, <1>6, <1>7, <1>8, <1>9, <1>10, <1>11 DEF Next

\* IInv holds throughout: what the list of waiters, the futures and the tasks that
\* wait on them have in common, whatever arrives and whoever gives up.
THEOREM TransportInvariant == Spec => []IInv
  BY InitIInv, NextIInv, PTL DEF Spec

\* Type correctness of Transport's state.
THEOREM TransportTypes == Spec => []TypeOK
  BY TransportInvariant, PTL DEF IInv

\* request(), on_frame, fail and abort keep an open request listed, and the finally
\* clause leaves no entry of an ended one behind.
THEOREM NoRequestIsHidden == Spec => []ListIsOpen
  BY TransportInvariant, PTL DEF IInv, ListIsOpen

\* on_frame and fail never let an answer or a refusal overtake an older open request
\* that it would have fitted.
THEOREM RepliesInOrder == Spec => [](AnsweredInOrder /\ RefusedInOrder)
  BY TransportInvariant, PTL DEF IInv

\* A frame of a recognised block ends only a request for that block of that slave.
THEOREM RecognisedIsOwn == Spec => []RecognisedAnswersOwnBlock
  BY TransportInvariant, PTL DEF IInv

\* One step's part of SettledOnce.
SettleStep ==
    \A i \in Ids : future[i] \notin {"none", "pending"}
            => future'[i] = future[i] /\ answer'[i] = answer[i]

\* No single step changes a future that is already settled.
LEMMA StepSettlesOnce == IInv /\ [Next]_vars => SettleStep
<1> SUFFICES ASSUME IInv, [Next]_vars PROVE SettleStep
  OBVIOUS
<1>0. /\ issued \in 0..MaxRequests
      /\ future \in [Ids -> FutureStates]
      /\ answer \in [Ids -> Reply \cup {NoReply}]
      /\ \A i \in Ids : ~(i <= issued) => future[i] = "none"
  BY DEF IInv, TypeOK
<1> USE DEF SettleStep
<1>1. ASSUME NEW p \in Pending, Request(p) \/ RequestUnsent(p) PROVE SettleStep
  BY <1>0, <1>1 DEF Request, RequestUnsent
<1>2. ASSUME NEW i \in Ids, Resume(i) \/ DeviceReplies(i) PROVE SettleStep
  BY <1>0, <1>2 DEF Resume, DeviceReplies, exchange
<1>3. ASSUME NEW i \in Ids, Timeout(i) \/ Cancel(i) PROVE SettleStep
  BY <1>0, <1>3 DEF Timeout, Cancel, Interrupt
<1>4. ASSUME NEW f \in wire, OnFrame(f) PROVE SettleStep
  BY <1>0, <1>4 DEF OnFrame, First, Answerable, Open, exchange
<1>5. ASSUME NEW s \in Slaves, Fail(s) PROVE SettleStep
  BY <1>0, <1>5 DEF Fail, First, Refusable, Open
<1>6. ASSUME NEW p \in Streamed, DevicePushes(p) PROVE SettleStep
  BY <1>0, <1>6 DEF DevicePushes, exchange
<1>7. ASSUME Abort PROVE SettleStep
  BY <1>0, <1>7 DEF Abort, Aborted
<1>8. ASSUME UNCHANGED vars PROVE SettleStep
  BY <1>0, <1>8 DEF vars
<1>9. QED
  BY <1>1, <1>2, <1>3, <1>4, <1>5, <1>6, <1>7, <1>8 DEF Next

\* A future is settled once and keeps its answer: set_result and set_exception are
\* never called on a future that is done.
THEOREM FuturesSettleOnce == Spec => SettledOnce
<1>1. IInv /\ [Next]_vars => [SettleStep]_vars
  BY StepSettlesOnce
<1>2. QED
  BY <1>1, TransportInvariant, PTL DEF Spec, SettledOnce, SettleStep

\* Frames under way keep fitting the requests they answer: an entry's _Pending is
\* never changed, and only the device puts frames on the wire.
LEMMA NextRepliesFit == IInv /\ RepliesFit /\ [Next]_vars => RepliesFit'
<1> SUFFICES ASSUME IInv, RepliesFit, [Next]_vars PROVE RepliesFit'
  OBVIOUS
<1>0. /\ issued \in 0..MaxRequests
      /\ expected \in [Ids -> Pending \cup {NoRequest}]
      /\ wire \subseteq Reply
      /\ \A i \in Ids : i <= issued <=> expected[i] # NoRequest
  BY DEF IInv, TypeOK
<1> USE DEF RepliesFit
<1>1. ASSUME NEW p \in Pending, Request(p) \/ RequestUnsent(p) PROVE RepliesFit'
  BY <1>0, <1>1 DEF Request, RequestUnsent, Reply
<1>2. ASSUME NEW i \in Ids, Resume(i) \/ Interrupt(i, "timeout") \/ Interrupt(i, "cancel")
      PROVE  RepliesFit'
  BY <1>2 DEF Resume, Interrupt
<1>3. ASSUME NEW i \in Ids, DeviceReplies(i) PROVE RepliesFit'
  <2>1. expected[i] \in Pending
    BY <1>0, <1>3 DEF DeviceReplies
  <2>2. expected[i] = [slave |-> expected[i].slave, register |-> expected[i].register]
    BY <2>1 DEF Pending
  <2>3. QED
    BY <1>3, <2>2 DEF DeviceReplies, exchange
<1>4. ASSUME NEW f \in wire, OnFrame(f) PROVE RepliesFit'
  BY <1>4 DEF OnFrame, exchange
<1>5. ASSUME NEW s \in Slaves, Fail(s) PROVE RepliesFit'
  BY <1>5 DEF Fail
<1>6. ASSUME NEW p \in Streamed, DevicePushes(p) PROVE RepliesFit'
  BY <1>6 DEF DevicePushes, exchange
<1>7. ASSUME Abort \/ UNCHANGED vars PROVE RepliesFit'
  BY <1>7 DEF Abort, vars
<1>8. QED
  BY <1>1, <1>2, <1>3, <1>4, <1>5, <1>6, <1>7 DEF Next, Timeout, Cancel

\* One step's part of NoAnswerIgnored.
AnswerStep ==
    \A i \in Ids : \A f \in wire \ wire' :
            f.to = i /\ future[i] = "pending"
                => \E j \in Ids : future[j] = "pending" /\ future'[j] = "reply"

\* Only on_frame consumes a frame, and if the request the frame answers is open, the
\* request is listed and matches it: then some entry takes the frame.
LEMMA StepAnswers == IInv /\ RepliesFit /\ [Next]_vars => AnswerStep
<1> SUFFICES ASSUME IInv, RepliesFit, [Next]_vars,
                    NEW i \in Ids, NEW f \in wire \ wire',
                    f.to = i, future[i] = "pending"
             PROVE  \E j \in Ids : future[j] = "pending" /\ future'[j] = "reply"
  BY DEF AnswerStep
<1>1. OnFrame(f)
  <2>1. \A g \in wire : OnFrame(g) => g = f
    <3>1. \A g \in wire : wire' \in {wire, wire \ {g}} => g = f
      OBVIOUS
    <3>2. QED
      BY <3>1 DEF OnFrame
  <2>2. \A p \in Pending : ~Request(p) /\ ~RequestUnsent(p)
    BY DEF Request, RequestUnsent
  <2>3. \A k \in Ids : ~Resume(k) /\ ~Timeout(k) /\ ~Cancel(k) /\ ~DeviceReplies(k)
    BY DEF Resume, Timeout, Cancel, Interrupt, DeviceReplies
  <2>4. (\A s \in Slaves : ~Fail(s)) /\ (\A p \in Streamed : ~DevicePushes(p)) /\ ~Abort
    BY DEF Fail, DevicePushes, Abort
  <2>5. ~UNCHANGED vars
    BY DEF vars
  <2>6. QED
    BY <2>1, <2>2, <2>3, <2>4, <2>5 DEF Next
<1>2. i \in Answerable(f)
  <2>1. i # 0 /\ i \in waiters
    BY DEF IInv, OpenIsListed
  <2>2. f.slave = expected[i].slave /\ f.carries = expected[i].register
    <3>1. expected[f.to] = [slave |-> f.slave, register |-> f.carries]
      BY <2>1 DEF RepliesFit
    <3>2. QED
      BY <3>1
  <2>3. f.block = NoBlock \/ f.block = f.carries
    BY DEF IInv
  <2>4. QED
    BY <2>1, <2>2, <2>3 DEF Answerable, Open, Matches
<1>3. PICK j \in First(Answerable(f)) : future' = [future EXCEPT ![j] = "reply"]
  BY <1>1, <1>2 DEF OnFrame
<1>4. j \in Ids /\ future[j] = "pending" /\ future \in [Ids -> FutureStates]
  BY <1>3 DEF First, Answerable, Open, IInv, TypeOK
<1>5. QED
  BY <1>3, <1>4

\* on_frame never drops the answer to a request that is still open.
THEOREM AnswersAreTaken == Spec => NoAnswerIgnored
<1>1. Init => RepliesFit
  BY DEF Init, RepliesFit
<1>2. Spec => []RepliesFit
  BY <1>1, NextRepliesFit, TransportInvariant, PTL DEF Spec
<1>3. IInv /\ RepliesFit /\ [Next]_vars => [AnswerStep]_vars
  BY StepAnswers
<1>4. QED
  BY <1>2, <1>3, TransportInvariant, PTL DEF Spec, NoAnswerIgnored, AnswerStep

------------------------------------------------------------------------------
(* Refinement: the list of entries implements RequestReply.                  *)

\* Transport starts in an initial state of RequestReply.
LEMMA InitRefines == Init => Promise!Init
  BY DEF Init, Promise!Init, Promise!Ids

\* A frame that settles a listed request settles the oldest open request it fits of
\* all: the list hides none.
LEMMA OnFrameRefines ==
  ASSUME IInv, NEW f \in wire, OnFrame(f)
  PROVE  Promise!Answer(f) \/ UNCHANGED Promise!vars
<1>1. CASE UNCHANGED exchange
  BY <1>1 DEF exchange, Promise!vars
<1>2. ASSUME NEW i \in First(Answerable(f)),
             future' = [future EXCEPT ![i] = "reply"],
             answer' = [answer EXCEPT ![i] = f],
             UNCHANGED <<issued, expected, status>>
      PROVE  Promise!Answer(f)
  <2>1. /\ i \in Ids /\ future[i] = "pending" /\ Matches(i, f)
        /\ \A j \in waiters : future[j] = "pending" /\ Matches(j, f) => i <= j
    BY DEF First, Answerable, Open, IInv, TypeOK
  <2>2. \A j \in Ids : future[j] = "pending" /\ Promise!Fits(j, f) => i <= j
    BY <2>1 DEF IInv, OpenIsListed, Matches, Promise!Fits
  <2>3. i \in Promise!Oldest({j \in Promise!Unsettled : Promise!Fits(j, f)})
    BY <2>1, <2>2 DEF Promise!Oldest, Promise!Unsettled, Promise!Ids, Matches, Promise!Fits
  <2>4. QED
    BY <1>2, <2>3 DEF Promise!Answer
<1>3. QED
  BY <1>1, <1>2 DEF OnFrame, exchange

\* A refusal goes to the oldest open request to its address of all there are.
LEMMA FailRefines ==
  ASSUME IInv, NEW s \in Slaves, Fail(s)
  PROVE  Promise!Refuse(s)
<1>1. PICK i \in First(Refusable(s)) :
          /\ future' = [future EXCEPT ![i] = "refused"]
          /\ UNCHANGED <<issued, expected, answer, status>>
  BY DEF Fail
<1>2. /\ i \in Ids /\ future[i] = "pending" /\ expected[i].slave = s
      /\ \A j \in waiters : future[j] = "pending" /\ expected[j].slave = s => i <= j
  BY DEF First, Refusable, Open, IInv, TypeOK
<1>3. \A j \in Ids : future[j] = "pending" /\ expected[j].slave = s => i <= j
  BY <1>2 DEF IInv, OpenIsListed
<1>4. i \in Promise!Oldest({j \in Promise!Unsettled : expected[j].slave = s})
  BY <1>2, <1>3 DEF Promise!Oldest, Promise!Unsettled, Promise!Ids
<1>5. QED
  BY <1>1, <1>4 DEF Promise!Refuse

\* Every step of Transport is a step of RequestReply or changes nothing it can see.
LEMMA StepRefines == IInv /\ [Next]_vars => [Promise!Next]_(Promise!vars)
<1> SUFFICES ASSUME IInv, [Next]_vars PROVE Promise!Next \/ UNCHANGED Promise!vars
  OBVIOUS
<1> USE DEF Promise!Ids
<1>1. ASSUME NEW p \in Pending, Request(p) \/ RequestUnsent(p) PROVE Promise!Next
  <2>1. Promise!Ask(p)
    BY <1>1 DEF Request, RequestUnsent, Promise!Ask
  <2>2. QED
    BY <1>1, <2>1 DEF Promise!Next, Pending, Promise!Pending
<1>2. ASSUME NEW i \in Ids, Resume(i) PROVE Promise!Next
  BY <1>2 DEF IInv, Resume, Woken, Outcome, Promise!Next, Promise!Finish
<1>3. ASSUME NEW i \in Ids, Interrupt(i, "timeout") \/ Interrupt(i, "cancel")
      PROVE  Promise!Next \/ UNCHANGED Promise!vars
  <2>1. CASE future[i] = "pending"
    BY <1>3, <2>1 DEF Interrupt, Promise!Next, Promise!GiveUp, IInv, TypeOK
  <2>2. CASE future[i] # "pending"
    <3>1. future' = future
      BY <1>3, <2>2 DEF Interrupt, IInv, TypeOK
    <3>2. QED
      BY <1>3, <3>1 DEF Interrupt, Promise!vars
  <2>3. QED
    BY <2>1, <2>2
<1>4. ASSUME NEW f \in wire, OnFrame(f) PROVE Promise!Next \/ UNCHANGED Promise!vars
  <2>1. f \in Promise!Reply
    BY DEF IInv, TypeOK, Reply, Promise!Reply
  <2>2. QED
    BY <1>4, <2>1, OnFrameRefines DEF Promise!Next
<1>5. ASSUME NEW s \in Slaves, Fail(s) PROVE Promise!Next
  BY <1>5, FailRefines DEF Promise!Next
<1>6. ASSUME Abort PROVE Promise!Next
  <2>1. \A i \in Ids : future[i] = "pending" => i \in waiters
    BY DEF IInv, OpenIsListed
  <2>2. future' = [i \in Ids |-> IF future[i] = "pending" THEN "aborted" ELSE future[i]]
    BY <1>6, <2>1 DEF Abort, Aborted
  <2>3. QED
    BY <1>6, <2>2 DEF Abort, Promise!Next, Promise!AbortAll
<1>7. ASSUME UNCHANGED exchange PROVE UNCHANGED Promise!vars
  BY <1>7 DEF exchange, Promise!vars
<1>8. QED
  BY <1>1, <1>2, <1>3, <1>4, <1>5, <1>6, <1>7
     DEF Next, Timeout, Cancel, DeviceReplies, DevicePushes, vars, exchange, Promise!vars

\* Transport implements RequestReply: the list, its removals and the finally clause
\* are invisible to the polling loop.
THEOREM TransportImplementsRequestReply == Spec => ImplementsRequestReply
  BY InitRefines, StepRefines, TransportInvariant, PTL
     DEF Spec, ImplementsRequestReply, Promise!Spec

==============================================================================
