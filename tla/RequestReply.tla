----------------------------- MODULE RequestReply -----------------------------
(***************************************************************************)
(* What mqtt/transport.py promises the polling loop, without saying how:   *)
(* requests that are answered, refused, aborted or given up on, each once. *)
(* There is no list of entries and no pending cancellation here; a frame   *)
(* goes to the oldest open request it fits among ALL open requests.  That  *)
(* the list, its removals and the finally clause never hide an open        *)
(* request is what the refinement by Transport shows.                      *)
(***************************************************************************)
EXTENDS Naturals

CONSTANTS Slaves, Registers, NoBlock, NoRequest, NoReply, MaxRequests

Ids == 1..MaxRequests
Pending == [slave : Slaves, register : Registers]
Reply == [slave : Slaves, block : Registers \cup {NoBlock},
          carries : Registers, to : 0..MaxRequests]

VARIABLES issued,    \* how many requests have been made
          expected,  \* request -> what its reply must look like
          verdict,   \* request -> "none", "pending", or what settled it
          answer,    \* request -> the frame that settled it
          status     \* request -> "new", "waiting", or what its caller saw

vars == <<issued, expected, verdict, answer, status>>

\* A frame from the right address fits unless recognised as another block.
Fits(i, f) ==
    f.slave = expected[i].slave /\ f.block \in {NoBlock, expected[i].register}

\* The requests that nothing has settled, and the oldest of some of them.
Unsettled == {i \in Ids : verdict[i] = "pending"}
Oldest(S) == {i \in S : \A j \in S : i <= j}

Init ==
    /\ issued = 0
    /\ expected = [i \in Ids |-> NoRequest]
    /\ verdict = [i \in Ids |-> "none"]
    /\ answer = [i \in Ids |-> NoReply]
    /\ status = [i \in Ids |-> "new"]

\* A request is made; its read may be impossible to send.
Ask(p) ==
    /\ issued < MaxRequests
    /\ issued' = issued + 1
    /\ expected' = [expected EXCEPT ![issued + 1] = p]
    /\ \/ /\ verdict' = [verdict EXCEPT ![issued + 1] = "pending"]
          /\ status' = [status EXCEPT ![issued + 1] = "waiting"]
       \/ /\ status' = [status EXCEPT ![issued + 1] = "senderror"]
          /\ UNCHANGED verdict
    /\ UNCHANGED answer

\* A frame answers the oldest open request it fits.
Answer(f) ==
    \E i \in Oldest({j \in Unsettled : Fits(j, f)}) :
        /\ verdict' = [verdict EXCEPT ![i] = "reply"]
        /\ answer' = [answer EXCEPT ![i] = f]
        /\ UNCHANGED <<issued, expected, status>>

\* A refusal ends the oldest open request to the refusing address.
Refuse(s) ==
    \E i \in Oldest({j \in Unsettled : expected[j].slave = s}) :
        /\ verdict' = [verdict EXCEPT ![i] = "refused"]
        /\ UNCHANGED <<issued, expected, answer, status>>

\* The connection went away: every open request is aborted.
AbortAll ==
    /\ verdict' = [i \in Ids |-> IF verdict[i] = "pending" THEN "aborted" ELSE verdict[i]]
    /\ UNCHANGED <<issued, expected, answer, status>>

\* A request is given up on, by its deadline or by its owner.
GiveUp(i) ==
    /\ verdict[i] = "pending"
    /\ verdict' = [verdict EXCEPT ![i] = "cancelled"]
    /\ UNCHANGED <<issued, expected, answer, status>>

\* The caller learns how a settled request ended: by its verdict, or that it was
\* given up on.
Finish(i) ==
    /\ status[i] = "waiting" /\ verdict[i] # "pending"
    /\ \E o \in {verdict[i], "timeout", "cancelled"} :
          status' = [status EXCEPT ![i] = o]
    /\ UNCHANGED <<issued, expected, verdict, answer>>

Next ==
    \/ \E p \in Pending : Ask(p)
    \/ \E f \in Reply : Answer(f)
    \/ \E s \in Slaves : Refuse(s)
    \/ AbortAll
    \/ \E i \in Ids : GiveUp(i) \/ Finish(i)

Spec == Init /\ [][Next]_vars

==============================================================================
