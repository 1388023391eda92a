------------------------------ MODULE PollingProofs ------------------------------
(***************************************************************************)
(* Theorems about Polling, for any devices, packs, refusals and bound: the *)
(* inductive invariant, what it implies, and that a refused block is not   *)
(* asked again.                                                            *)
(***************************************************************************)
EXTENDS Polling, SequenceTheorems, TLAPS

------------------------------------------------------------------------------
(* What the helpers return.                                                  *)

\* Both sections of a cycle belong to a device that is polled.
LEMMA SectionDevice == \A s \in Sections : DeviceAt(s) \in Sns
<1> SUFFICES ASSUME NEW s \in Sections PROVE DeviceAt(s) \in Sns
  OBVIOUS
<1>1. Len(Devices) \in Nat
  BY PollingAssumption
<1>2. (s + 1) \div 2 \in 1..Len(Devices)
  BY <1>1 DEF Sections
<1>3. QED
  BY <1>2 DEF DeviceAt, Sns

\* A pack that a device may report is at one of the addresses there are.
LEMMA PackSlave ==
  ASSUME NEW sn \in Sns, NEW l \in PackLists[sn], NEW i \in 1..Len(l)
  PROVE  l[i] \in Slaves
<1>1. l[i] \in {l[j] : j \in 1..Len(l)}
  OBVIOUS
<1>2. l \in UNION {PackLists[d] : d \in Sns}
  OBVIOUS
<1>3. QED
  BY <1>1, <1>2 DEF Slaves

\* What a device is asked first is a list of requests.
LEMMA OpeningType == \A sn \in Sns : Opening(sn) \in Seq(Requests)
<1>1. \A block \in Blocks, slave \in {0, 1} : Request(block, slave) \in Requests
  BY DEF Request, Requests, Slaves
<1>2. /\ <<Request("HOME_DATA", 0), Request("INV_BASE_SETTINGS", 0),
            Request("INV_ADV_SETTINGS", 0)>> \in Seq(Requests)
      /\ <<Request("HOME_DATA", 1), Request("PACK_MAIN_INFO", 1)>> \in Seq(Requests)
      /\ <<Request("NODE_INFO", 0)>> \in Seq(Requests)
      /\ <<>> \in Seq(Requests)
  <2>1. /\ "HOME_DATA" \in Blocks /\ "INV_BASE_SETTINGS" \in Blocks
        /\ "INV_ADV_SETTINGS" \in Blocks /\ "PACK_MAIN_INFO" \in Blocks
        /\ "NODE_INFO" \in Blocks
    BY DEF Blocks, Telemetry
  <2>2. QED
    BY <1>1, <2>1
<1>3. QED
  BY <1>2, ConcatProperties DEF Opening, Discovery

\* So are the reads of its packs.
LEMMA PackReadsType ==
  ASSUME TypeOK, NEW sn \in Sns
  PROVE  PackReads(sn) \in Seq(Requests)
<1> DEFINE known == packs[sn]
<1>1. known \in Seq(Nat) /\ known \in PackLists[sn] /\ Len(known) \in Nat
  BY DEF TypeOK
<1>2. \A i \in 1..Len(known) : known[i] \in Slaves
  BY <1>1, PackSlave
<1>3. \A i \in 1..2 * Len(known) : (i + 1) \div 2 \in 1..Len(known)
  BY <1>1
<1> HIDE DEF known
<1>4. "PACK_ITEM_INFO" \in Blocks /\ "PACK_CELL_INFO" \in Blocks
  BY DEF Blocks, PackBlocks
<1>5. [i \in 1..Len(known) |-> Request("PACK_ITEM_INFO", known[i])]
          \in [1..Len(known) -> Requests]
  BY <1>2, <1>4 DEF Request, Requests
<1>6. [i \in 1..2 * Len(known) |->
          Request(IF i % 2 = 1 THEN "PACK_ITEM_INFO" ELSE "PACK_CELL_INFO",
                  known[(i + 1) \div 2])] \in [1..2 * Len(known) -> Requests]
  BY <1>2, <1>3, <1>4 DEF Request, Requests
<1>7. 2 * Len(known) \in Nat
  BY <1>1
<1>8. \A n \in Nat : \A f \in [1..n -> Requests] : f \in Seq(Requests)
  OBVIOUS
<1>9. QED
  BY <1>1, <1>5, <1>6, <1>7, <1>8 DEF PackReads, KnownPacks, known

\* What a section has to ask is a list of requests.
LEMMA AheadType ==
  ASSUME TypeOK, NEW s \in Sections, NEW p
  PROVE  Ahead(p, s) \in Seq(Requests)
  BY SectionDevice, OpeningType, PackReadsType DEF Ahead

\* A frame of a device carries a block there is, from an address there is.
LEMMA HasType ==
  ASSUME NEW sn \in Sns, NEW r \in Has(sn)
  PROVE  r.register \in Blocks /\ r.slave \in Slaves
<1> DEFINE known == UNION {{l[i] : i \in 1..Len(l)} : l \in PackLists[sn]}
<1>1. known \subseteq Slaves
  BY PackSlave
<1>2. \/ r \in [register : Blocks, slave : {0, 1}]
      \/ r \in [register : Blocks, slave : known]
  BY DEF Has, Blocks, Telemetry, PackBlocks
<1>3. QED
  BY <1>1, <1>2 DEF Slaves

------------------------------------------------------------------------------
(* What the task does until its next await.                                  *)

\* A request made is one of the reads of its section, and not one refused before.
LEMMA AskFacts ==
  ASSUME TypeOK, NEW s \in Sections, NEW reads \in Seq(Requests), Ask(s, reads)
  PROVE  /\ task' = "waiting" /\ at' = s
         /\ pending' \in Requests /\ plan' \in Seq(Requests)
         /\ pending'.register = "NODE_INFO" \/ pending' \notin unsupported[DeviceAt(at')]
         /\ \A sn \in owed' : sn \in owed \/ (sn \in Sns /\ Lacks[sn] # {})
<1>1. DeviceAt(s) \in Sns
  BY SectionDevice
<1>2. PICK k \in Wanted(DeviceAt(s), reads) :
          /\ task' = "waiting" /\ at' = s
          /\ pending' = reads[k] /\ plan' = SubSeq(reads, k + 1, Len(reads))
          /\ owed' = IF reads[k] \in Lacks[DeviceAt(s)] THEN owed \cup {DeviceAt(s)} ELSE owed
  BY DEF Ask
<1>3. k \in 1..Len(reads) /\ Len(reads) \in Nat /\ reads[k] \in Requests
  BY DEF Wanted
<1>4. SubSeq(reads, k + 1, Len(reads)) \in Seq(Requests)
  <2>1. \A i \in k + 1..Len(reads) : reads[i] \in Requests
    BY <1>3
  <2>2. QED
    BY <1>3, <2>1, SubSeqProperties
<1>5. reads[k].register = "NODE_INFO" \/ reads[k] \notin unsupported[DeviceAt(s)]
  BY DEF Wanted
<1>6. QED
  BY <1>1, <1>2, <1>3, <1>4, <1>5

\* Before a cycle nothing is left to ask.
LEMMA NothingLeft == \A s : ~Ask(s, <<>>)
  BY DEF Ask, Wanted

\* The task ends up waiting for an answer to a request, or asleep with none.
LEMMA GoOnFacts ==
  ASSUME IInv, NEW p \in Sections \cup {0}, NEW rest \in Seq(Requests),
         p = 0 => rest = <<>>, GoOn(p, rest)
  PROVE  /\ \/ /\ task' = "waiting" /\ at' \in Sections /\ pending' \in Requests
               /\ \/ pending'.register = "NODE_INFO"
                  \/ pending' \notin unsupported[DeviceAt(at')]
            \/ task' = "sleeping" /\ at' = 0 /\ pending' = NoRequest
         /\ plan' \in Seq(Requests)
         /\ \A sn \in owed' : sn \in Sns /\ Lacks[sn] # {}
<1>1. TypeOK /\ owed \subseteq Sns /\ \A sn \in owed : Lacks[sn] # {}
  BY DEF IInv, TypeOK, RefusersOwe
<1>2. CASE Ask(p, rest)
  <2>1. p \in Sections
    BY <1>2, NothingLeft
  <2>2. QED
    BY <1>1, <1>2, <2>1, AskFacts
<1>3. ASSUME NEW s \in Sections, Ask(s, Ahead(p, s))
      PROVE  /\ task' = "waiting" /\ at' \in Sections /\ pending' \in Requests
             /\ \/ pending'.register = "NODE_INFO"
                \/ pending' \notin unsupported[DeviceAt(at')]
             /\ plan' \in Seq(Requests)
             /\ \A sn \in owed' : sn \in Sns /\ Lacks[sn] # {}
  <2>1. Ahead(p, s) \in Seq(Requests)
    BY <1>1, AheadType
  <2>2. QED
    BY <1>1, <1>3, <2>1, AskFacts
<1>4. CASE Sleep("sleeping")
  BY <1>1, <1>4, EmptySeq DEF Sleep
<1>5. QED
  BY <1>2, <1>3, <1>4 DEF GoOn

------------------------------------------------------------------------------
(* What the message handler does.                                            *)

\* A frame settles at most the request it answers.
LEMMA DeliverFacts ==
  ASSUME IInv, NEW f \in Replies, Deliver(f)
  PROVE  /\ task' \in {"off", "sleeping", "waiting", "settled", "cancelled"}
         /\ answer' \in Replies \cup {NoReply}
         /\ UNCHANGED <<link, at, plan, pending, owed>>
         /\ HintIsCurrent' /\ AnsweredByAsked' /\ NoAnswerYet'
<1>1. /\ UNCHANGED <<link, at, plan, pending, owed>>
      /\ task \in {"off", "sleeping", "waiting", "settled", "cancelled"}
      /\ answer \in Replies \cup {NoReply}
  BY DEF Deliver, IInv, TypeOK
<1>2. CASE Answers(f) /\ task' = "settled" /\ answer' = f
  <2>1. task = "waiting"
    BY <1>2 DEF Answers
  <2>2. HintIsCurrent' /\ NoAnswerYet'
    BY <1>1, <1>2, <2>1 DEF IInv, HintIsCurrent, NoAnswerYet, Requesting
  <2>3. AnsweredByAsked'
    BY <1>1, <1>2 DEF AnsweredByAsked, Answers, DeviceAt
  <2>4. QED
    BY <1>1, <1>2, <2>2, <2>3
<1>3. CASE UNCHANGED <<task, answer>>
  BY <1>1, <1>3 DEF IInv, HintIsCurrent, AnsweredByAsked, NoAnswerYet, Requesting, DeviceAt
<1>4. QED
  BY <1>2, <1>3 DEF Deliver

\* A frame of a device is a reply.
LEMMA ReplyType ==
  ASSUME NEW sn \in Sns, NEW slave \in Slaves, NEW block \in Blocks \cup {NoBlock}
  PROVE  Reply(sn, slave, block) \in Replies
  BY DEF Reply, Replies

\* The packs learnt are packs the device may report.
LEMMA PacksType ==
  ASSUME TypeOK, NEW sn \in Sns, NEW l \in PackLists[sn], packs' = [packs EXCEPT ![sn] = l]
  PROVE  packs' \in [Sns -> Seq(Nat)] /\ \A d \in Sns : packs'[d] \in PackLists[d]
<1>1. l \in Seq(Nat)
  BY PollingAssumption
<1>2. QED
  BY <1>1 DEF TypeOK

\* Nor does a pack count that came with a block bring any other.
LEMMA CountType ==
  ASSUME TypeOK, NEW f \in Replies, CountLearnt(f)
  PROVE  packs' \in [Sns -> Seq(Nat)] /\ \A d \in Sns : packs'[d] \in PackLists[d]
<1>1. CASE UNCHANGED packs
  BY <1>1 DEF TypeOK
<1>2. CASE \E l \in PackLists[f.from] \ {<<>>} : packs' = [packs EXCEPT ![f.from] = l]
  BY <1>2, PacksType DEF Replies
<1>3. QED
  BY <1>1, <1>2 DEF CountLearnt

------------------------------------------------------------------------------
(* The invariant.                                                            *)

\* It holds before anything is connected.
LEMMA InitIInv == Init => IInv
<1> SUFFICES ASSUME Init PROVE IInv
  OBVIOUS
<1>1. TypeOK
  <2>1. <<>> \in Seq(Requests) /\ <<>> \in Seq(Nat)
    BY EmptySeq
  <2>2. QED
    BY <2>1, PollingAssumption DEF Init, TypeOK
<1>2. HintIsCurrent /\ AnsweredByAsked /\ OnlyRefusersAreMarked /\ NoAnswerYet /\ RefusersOwe
  BY DEF Init, HintIsCurrent, AnsweredByAsked, OnlyRefusersAreMarked, NoAnswerYet,
         RefusersOwe, Requesting
<1>3. QED
  BY <1>1, <1>2 DEF IInv

\* The steps of the task that leave what the handler learnt alone.
LEMMA TaskStepIInv ==
  ASSUME IInv, UNCHANGED learnt, link' \in BOOLEAN, answer' = NoReply,
         task' \in {"off", "sleeping", "waiting"},
         \/ task' = "waiting" /\ at' \in Sections /\ pending' \in Requests
         \/ task' # "waiting" /\ at' = 0 /\ pending' = NoRequest,
         plan' \in Seq(Requests), \A sn \in owed' : sn \in Sns /\ Lacks[sn] # {}
  PROVE  IInv'
<1>1. TypeOK'
  BY DEF IInv, TypeOK, learnt
<1>2. HintIsCurrent' /\ AnsweredByAsked' /\ NoAnswerYet'
  BY PollingAssumption DEF HintIsCurrent, AnsweredByAsked, NoAnswerYet, Requesting
<1>3. OnlyRefusersAreMarked' /\ RefusersOwe'
  BY DEF IInv, OnlyRefusersAreMarked, RefusersOwe, learnt
<1>4. QED
  BY <1>1, <1>2, <1>3 DEF IInv

\* The steps of the handler that only deliver a frame and learn from it.
LEMMA FrameStepIInv ==
  ASSUME IInv, UNCHANGED <<link, at, plan, pending, unsupported, owed>>,
         task' \in {"off", "sleeping", "waiting", "settled", "cancelled"},
         answer' \in Replies \cup {NoReply},
         HintIsCurrent', AnsweredByAsked', NoAnswerYet',
         packs' \in [Sns -> Seq(Nat)], \A d \in Sns : packs'[d] \in PackLists[d],
         streaming' \subseteq V2, fc16' \subseteq Sns \ V2
  PROVE  IInv'
<1>1. TypeOK'
  BY DEF IInv, TypeOK
<1>2. OnlyRefusersAreMarked' /\ RefusersOwe'
  BY DEF IInv, OnlyRefusersAreMarked, RefusersOwe
<1>3. QED
  BY <1>1, <1>2 DEF IInv

\* Every step of the task and of the handler keeps it.
LEMMA NextIInv == IInv /\ [Next]_vars => IInv'
<1> SUFFICES ASSUME IInv, [Next]_vars PROVE IInv'
  OBVIOUS
<1>0. TypeOK /\ \A sn \in owed : sn \in Sns /\ Lacks[sn] # {}
  BY DEF IInv, TypeOK, RefusersOwe
<1>1. CASE Start
  <2>1. pending = NoRequest /\ answer = NoReply
    BY <1>1 DEF Start, IInv, HintIsCurrent, NoAnswerYet
  <2>2. TypeOK'
    BY <1>0, <1>1 DEF Start, TypeOK, learnt
  <2>3. HintIsCurrent' /\ AnsweredByAsked' /\ NoAnswerYet'
    BY <1>1, <2>1 DEF Start, HintIsCurrent, AnsweredByAsked, NoAnswerYet, Requesting
  <2>4. OnlyRefusersAreMarked' /\ RefusersOwe'
    BY <1>1 DEF Start, IInv, OnlyRefusersAreMarked, RefusersOwe, learnt
  <2>5. QED
    BY <2>2, <2>3, <2>4 DEF IInv
<1>2. CASE Wake
  <2>1. /\ GoOn(0, <<>>) /\ UNCHANGED <<link, answer, learnt>>
        /\ answer = NoReply /\ link \in BOOLEAN
    BY <1>0, <1>2 DEF Wake, IInv, NoAnswerYet, TypeOK
  <2>2. <<>> \in Seq(Requests)
    BY EmptySeq
  <2>3. QED
    BY <2>1, <2>2, GoOnFacts, TaskStepIInv
<1>3. CASE Timeout
  <2>1. /\ task = "waiting" /\ task' = "settled" /\ answer = NoReply
        /\ pending # NoRequest /\ at \in Sections
        /\ UNCHANGED <<link, at, plan, pending, answer, learnt, owed>>
    BY <1>3 DEF Timeout, IInv, NoAnswerYet, HintIsCurrent, Requesting
  <2>2. TypeOK'
    BY <1>0, <2>1 DEF TypeOK, learnt
  <2>3. HintIsCurrent' /\ AnsweredByAsked' /\ NoAnswerYet'
    BY <2>1 DEF HintIsCurrent, AnsweredByAsked, NoAnswerYet, Requesting
  <2>4. OnlyRefusersAreMarked' /\ RefusersOwe'
    BY <2>1 DEF IInv, OnlyRefusersAreMarked, RefusersOwe, learnt
  <2>5. QED
    BY <2>2, <2>3, <2>4 DEF IInv
<1>4. CASE Resume
  <2>1. /\ GoOn(at, plan) /\ answer' = NoReply /\ UNCHANGED <<link, learnt>>
        /\ at \in Sections /\ plan \in Seq(Requests) /\ link \in BOOLEAN
    BY <1>0, <1>4 DEF Resume, IInv, HintIsCurrent, Requesting, TypeOK
  <2>2. at # 0
    BY <2>1 DEF Sections
  <2>3. QED
    BY <2>1, <2>2, GoOnFacts, TaskStepIInv
<1>5. CASE Cleanup
  <2>1. task' = "cancelled" /\ link' = FALSE
        /\ UNCHANGED <<at, plan, pending, answer, learnt, owed>>
    BY <1>5 DEF Cleanup
  <2>2. TypeOK'
    BY <1>0, <2>1 DEF TypeOK, learnt
  <2>3. HintIsCurrent' /\ AnsweredByAsked' /\ NoAnswerYet'
    BY <2>1 DEF HintIsCurrent, AnsweredByAsked, NoAnswerYet, Requesting
  <2>4. OnlyRefusersAreMarked' /\ RefusersOwe'
    BY <2>1 DEF IInv, OnlyRefusersAreMarked, RefusersOwe, learnt
  <2>5. QED
    BY <2>2, <2>3, <2>4 DEF IInv
<1>6. CASE TaskEnds
  <2>1. /\ task' = "off" /\ at' = 0 /\ plan' = <<>> /\ pending' = NoRequest
        /\ answer' = NoReply /\ UNCHANGED <<owed, link, learnt>> /\ link \in BOOLEAN
    BY <1>0, <1>6 DEF TaskEnds, Sleep, TypeOK
  <2>2. plan' \in Seq(Requests)
    BY <2>1, EmptySeq
  <2>3. QED
    BY <1>0, <2>1, <2>2, TaskStepIInv
<1>7. CASE LinkChanges
  <2>1. link' \in BOOLEAN /\ UNCHANGED <<task, at, plan, pending, answer, learnt, owed>>
    BY <1>0, <1>7 DEF LinkChanges, TypeOK
  <2>2. TypeOK'
    BY <1>0, <2>1 DEF TypeOK, learnt
  <2>3. HintIsCurrent' /\ AnsweredByAsked' /\ NoAnswerYet'
    BY <2>1 DEF IInv, HintIsCurrent, AnsweredByAsked, NoAnswerYet, Requesting, DeviceAt
  <2>4. OnlyRefusersAreMarked' /\ RefusersOwe'
    BY <2>1 DEF IInv, OnlyRefusersAreMarked, RefusersOwe, learnt
  <2>5. QED
    BY <2>2, <2>3, <2>4 DEF IInv
<1>8. ASSUME NEW sn \in Sns, NEW r \in Has(sn), ReadReply(sn, r)
      PROVE  IInv'
  <2>1. PICK block \in Recognised(r.register) :
            /\ CountLearnt(Reply(sn, r.slave, block))
            /\ Deliver(Reply(sn, r.slave, block))
            /\ UNCHANGED <<unsupported, streaming, fc16>>
    BY <1>8 DEF ReadReply
  <2>2. Reply(sn, r.slave, block) \in Replies
    BY HasType, ReplyType DEF Recognised
  <2>3. packs' \in [Sns -> Seq(Nat)] /\ \A d \in Sns : packs'[d] \in PackLists[d]
    BY <1>0, <2>1, <2>2, CountType
  <2>4. QED
    BY <1>0, <2>1, <2>2, <2>3, DeliverFacts, FrameStepIInv DEF TypeOK
<1>9. ASSUME NEW sn \in Sns, NEW r \in Has(sn), Push(sn, r)
      PROVE  IInv'
  <2> DEFINE f == Reply(sn, r.slave, r.register)
  <2>1. f \in Replies
    BY HasType, ReplyType
  <2>2. packs' \in [Sns -> Seq(Nat)] /\ \A d \in Sns : packs'[d] \in PackLists[d]
    BY <1>0, <1>9, <2>1, CountType DEF Push
  <2>3. streaming' \subseteq V2 /\ fc16' \subseteq Sns \ V2 /\ unsupported' = unsupported
    BY <1>0, <1>9 DEF Push, TypeOK
  <2>4. CASE Deliver(f)
    BY <2>1, <2>2, <2>3, <2>4, DeliverFacts, FrameStepIInv
  <2>5. CASE UNCHANGED <<task, link, at, plan, pending, answer, owed>>
    <3>1. HintIsCurrent' /\ AnsweredByAsked' /\ NoAnswerYet'
      BY <2>5 DEF IInv, HintIsCurrent, AnsweredByAsked, NoAnswerYet, Requesting, DeviceAt
    <3>2. QED
      BY <1>0, <2>2, <2>3, <2>5, <3>1, FrameStepIInv DEF TypeOK
  <2>6. QED
    BY <1>9, <2>4, <2>5 DEF Push
<1>10. ASSUME NEW sn \in Sns, NodeReply(sn)
       PROVE  IInv'
  <2>1. PICK l \in PackLists[sn] : packs' = [packs EXCEPT ![sn] = l]
    BY <1>10 DEF NodeReply
  <2>2. Deliver(Reply(sn, 0, "NODE_INFO")) /\ UNCHANGED <<unsupported, streaming, fc16>>
    BY <1>10 DEF NodeReply
  <2>3. Reply(sn, 0, "NODE_INFO") \in Replies
    BY ReplyType DEF Blocks, Slaves
  <2>4. packs' \in [Sns -> Seq(Nat)] /\ \A d \in Sns : packs'[d] \in PackLists[d]
    BY <1>0, <2>1, PacksType
  <2>5. QED
    BY <1>0, <2>2, <2>3, <2>4, DeliverFacts, FrameStepIInv DEF TypeOK
<1>11. ASSUME NEW sn \in Sns, Refusal(sn)
       PROVE  IInv'
  <2>1. /\ sn \in owed /\ Lacks[sn] # {} /\ owed' \subseteq owed
        /\ UNCHANGED <<link, at, plan, pending, answer, packs, streaming, fc16>>
    BY <1>0, <1>11 DEF Refusal
  <2>2. CASE UNCHANGED <<task, unsupported>>
    <3>1. HintIsCurrent' /\ AnsweredByAsked' /\ NoAnswerYet'
      BY <2>1, <2>2 DEF IInv, HintIsCurrent, AnsweredByAsked, NoAnswerYet, Requesting, DeviceAt
    <3>2. TypeOK' /\ OnlyRefusersAreMarked' /\ RefusersOwe'
      BY <1>0, <2>1, <2>2 DEF IInv, TypeOK, OnlyRefusersAreMarked, RefusersOwe
    <3>3. QED
      BY <3>1, <3>2 DEF IInv
  <2>3. CASE /\ pending # NoRequest /\ unsupported' = Marked(sn)
             /\ task' = IF task = "waiting" /\ sn = DeviceAt(at) THEN "settled" ELSE task
    <3>1. /\ unsupported' = [unsupported EXCEPT ![sn] = @ \cup {pending}]
          /\ pending \in Requests /\ unsupported \in [Sns -> SUBSET Requests]
      BY <1>0, <2>3 DEF Marked, TypeOK
    <3>2. unsupported' \in [Sns -> SUBSET Requests]
      BY <3>1
    <3>3. TypeOK'
      BY <1>0, <2>1, <2>3, <3>2 DEF TypeOK
    <3>4. OnlyRefusersAreMarked' /\ RefusersOwe'
      BY <2>1, <3>1 DEF IInv, OnlyRefusersAreMarked, RefusersOwe
    <3>5. HintIsCurrent' /\ AnsweredByAsked' /\ NoAnswerYet'
      BY <2>1, <2>3 DEF IInv, HintIsCurrent, AnsweredByAsked, NoAnswerYet, Requesting, DeviceAt
    <3>6. QED
      BY <3>3, <3>4, <3>5 DEF IInv
  <2>4. QED
    BY <1>11, <2>2, <2>3 DEF Refusal
<1>12. ASSUME NEW sn \in Sns, StreamEnds(sn)
       PROVE  IInv'
  <2>1. /\ streaming' \subseteq V2
        /\ UNCHANGED <<task, link, at, plan, pending, answer, unsupported, packs, fc16, owed>>
    BY <1>0, <1>12 DEF StreamEnds, TypeOK
  <2>2. HintIsCurrent' /\ AnsweredByAsked' /\ NoAnswerYet'
    BY <2>1 DEF IInv, HintIsCurrent, AnsweredByAsked, NoAnswerYet, Requesting, DeviceAt
  <2>3. QED
    BY <1>0, <2>1, <2>2, FrameStepIInv DEF TypeOK
<1>13. CASE UNCHANGED vars
  <2>1. UNCHANGED <<task, link, at, plan, pending, answer, unsupported, packs, streaming,
                    fc16, owed>>
    BY <1>13 DEF vars
  <2>2. HintIsCurrent' /\ AnsweredByAsked' /\ NoAnswerYet'
    BY <2>1 DEF IInv, HintIsCurrent, AnsweredByAsked, NoAnswerYet, Requesting, DeviceAt
  <2>3. QED
    BY <1>0, <2>1, <2>2, FrameStepIInv DEF TypeOK
<1>14. QED
  BY <1>1, <1>2, <1>3, <1>4, <1>5, <1>6, <1>7, <1>8, <1>9, <1>10, <1>11, <1>12, <1>13
     DEF Next

------------------------------------------------------------------------------
(* Theorems.                                                                 *)

\* The inductive invariant of the polling task and the message handler.
THEOREM PollingInvariant == Spec => []IInv
  BY InitIInv, NextIInv, PTL DEF Spec

\* Every variable keeps its type, the reads laid out for a section included.
THEOREM PollingTypes == Spec => []TypeOK
<1>1. IInv => TypeOK
  BY DEF IInv
<1>2. QED
  BY <1>1, PollingInvariant, PTL

\* _pending_request is set exactly while a request is under way: a frame of no
\* recognisable block that comes between cycles is not parsed as an old one.
THEOREM HintsAreCurrent == Spec => []HintIsCurrent
<1>1. IInv => HintIsCurrent
  BY DEF IInv
<1>2. QED
  BY <1>1, PollingInvariant, PTL

\* However many devices share the connection, a request is answered by the device
\* and the address it was made to.
THEOREM AskedDeviceAnswers == Spec => []AnsweredByAsked
<1>1. IInv => AnsweredByAsked
  BY DEF IInv
<1>2. QED
  BY <1>1, PollingInvariant, PTL

\* A device that refuses nothing never loses a read to the refusals of others.
THEOREM RefusalsStayHome == Spec => []OnlyRefusersAreMarked
<1>1. IInv => OnlyRefusersAreMarked
  BY DEF IInv
<1>2. QED
  BY <1>1, PollingInvariant, PTL

\* One step of RefusedNotAskedAgain.
AskStep ==
    pending' \notin {pending, NoRequest} /\ pending'.register # "NODE_INFO"
        => pending' \notin unsupported[DeviceAt(at')]

\* Only the task's steps make a request, and they look at what was refused so far.
LEMMA StepAsks == IInv /\ [Next]_vars => AskStep
<1> SUFFICES ASSUME IInv, [Next]_vars, pending' # pending, pending' # NoRequest
             PROVE  pending'.register = "NODE_INFO"
                    \/ pending' \notin unsupported[DeviceAt(at')]
  BY DEF AskStep
<1>1. CASE Wake
  <2>1. <<>> \in Seq(Requests) /\ GoOn(0, <<>>)
    BY <1>1, EmptySeq DEF Wake
  <2>2. QED
    BY <2>1, GoOnFacts
<1>2. CASE Resume
  <2>1. at \in Sections /\ at # 0 /\ plan \in Seq(Requests) /\ GoOn(at, plan)
    BY <1>2 DEF Resume, IInv, HintIsCurrent, Requesting, TypeOK, Sections
  <2>2. QED
    BY <2>1, GoOnFacts
<1>3. CASE TaskEnds
  BY <1>3 DEF TaskEnds, Sleep
<1>4. CASE ~Wake /\ ~Resume /\ ~TaskEnds
  <2>1. pending' = pending
    BY <1>4 DEF Next, vars, Start, Timeout, Cleanup, LinkChanges, ReadReply, Push,
                NodeReply, Refusal, StreamEnds, Deliver
  <2>2. QED
    BY <2>1
<1>5. QED
  BY <1>1, <1>2, <1>3, <1>4

\* What a device's refusals have marked is not asked again, not even in a cycle that
\* was laid out before the refusal came.
THEOREM RefusalsAreHeeded == Spec => RefusedNotAskedAgain
<1>1. IInv /\ [Next]_vars => [AskStep]_vars
  BY StepAsks
<1>2. QED
  BY <1>1, PollingInvariant, PTL DEF Spec, RefusedNotAskedAgain, AskStep

==============================================================================
