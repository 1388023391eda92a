-------------------------------- MODULE Polling --------------------------------
(***************************************************************************)
(* The polling loop of mqtt_manager.py and the message handler that runs   *)
(* between its awaits.  One task asks the devices for one register block   *)
(* after another; frames of any device may arrive at any time, answers,    *)
(* pushes and refusals alike, whoever they were meant for.  What the       *)
(* handler learns (registers refused, packs found, devices that push)      *)
(* changes what the task asks next.                                        *)
(*                                                                         *)
(* The loop makes one request at a time, so the transport of the device    *)
(* being polled has at most one entry and every other has none: Transport  *)
(* is seen here as its abstract specification RequestReply.                *)
(*                                                                         *)
(* The devices are those that are pollable: on the mqtt+rest data path,    *)
(* with a model and a sub_sn.  A cycle goes through sections: what a       *)
(* device is asked first, then the packs it has by then, then the next     *)
(* device.                                                                 *)
(***************************************************************************)
EXTENDS Naturals, Sequences, FiniteSets

CONSTANTS Devices,    \* the pollable devices, in the order of coordinator.data
          V2,         \* those that speak the second protocol, with expansions
          PackLists,  \* device -> lists of pack addresses it may report
          Lacks,      \* device -> requests it refuses
          NoBlock,    \* a reply of a size that identifies nothing
          NoRequest,  \* _pending_request is None
          NoReply,    \* the request made last has no reply
          MaxMarked   \* bound: requests marked as unsupported, all devices together

Sns == {Devices[i] : i \in 1..Len(Devices)}

Telemetry == {"HOME_DATA", "INV_BASE_SETTINGS", "INV_ADV_SETTINGS", "PACK_MAIN_INFO"}
PackBlocks == {"PACK_ITEM_INFO", "PACK_CELL_INFO"}
Blocks == Telemetry \cup PackBlocks \cup {"NODE_INFO"}

\* Modbus addresses: the main unit's, the one a V1 device answers to, the packs'.
Slaves == {0, 1} \cup UNION {{l[i] : i \in 1..Len(l)} : l \in UNION {PackLists[sn] : sn \in Sns}}

Requests == [register : Blocks, slave : Slaves]

\* Reply, with the device whose topic it arrived on.
Replies == [from : Sns, slave : Slaves, block : Blocks \cup {NoBlock}]

ASSUME PollingAssumption ==
    /\ Devices \in Seq(Sns) /\ Len(Devices) > 0
    /\ \A i, j \in 1..Len(Devices) : Devices[i] = Devices[j] => i = j
    /\ V2 \subseteq Sns
    /\ PackLists \in [Sns -> SUBSET Seq(Nat)]
    /\ \A sn \in Sns : <<>> \in PackLists[sn]
    /\ Lacks \in [Sns -> SUBSET Requests]
    /\ NoBlock \notin Blocks /\ NoRequest \notin Requests /\ NoReply \notin Replies
    /\ MaxMarked \in Nat

VARIABLES task,         \* _poll_task and what it waits for
          link,         \* the MQTT client can publish
          at,           \* section of the cycle, 0 when none is under way
          plan,         \* requests of this section after the present one
          pending,      \* manager._pending_request
          answer,       \* what the future of the present request was settled with
          unsupported,  \* manager._unsupported_registers
          packs,        \* device -> its packs: _pack_counts, or get_nodes
          streaming,    \* V2 devices that pushed within PUSH_ACTIVE_WINDOW
          fc16,         \* manager._fc16_devices
          owed          \* devices that have a refusal under way

vars == <<task, link, at, plan, pending, answer, unsupported, packs, streaming, fc16, owed>>
learnt == <<unsupported, packs, streaming, fc16>>

Request(register, slave) == [register |-> register, slave |-> slave]
Reply(sn, slave, block) == [from |-> sn, slave |-> slave, block |-> block]

\* Two sections to each device.
Sections == 1..2 * Len(Devices)
DeviceAt(section) == Devices[(section + 1) \div 2]
PacksOf(section) == section % 2 = 0

\* The task is inside request(), for which DeviceAt(at) is being polled.
Requesting == task \in {"waiting", "settled"}

------------------------------------------------------------------------------
(* Mutated forms, each standing for a plausible bug in the operator it       *)
(* replaces when the mutation runs are made.                                 *)

Unfiltered(sn, reads) == DOMAIN reads
PacksButLast(sn) == [i \in 1..Len(packs[sn]) - 1 |-> packs[sn][i]]
NothingWhenStreaming(sn) == IF sn \in streaming THEN <<>> ELSE <<Request("NODE_INFO", 0)>>
ByBlockAlone(f) == task = "waiting" /\ f.block \in {NoBlock, pending.register}
MarkedForPolled(sn) == [unsupported EXCEPT ![DeviceAt(at)] = @ \cup {pending}]

------------------------------------------------------------------------------
(* What is asked.                                                            *)

\* The packs known when the section is reached.
KnownPacks(sn) == packs[sn]

\* Asked in every cycle, streaming or not.
Discovery(sn) == <<Request("NODE_INFO", 0)>>

\* _poll_cycle_for, _poll_once: what a device is asked first.  A device that sends
\* FC=16 by itself under the first protocol is asked nothing.
Opening(sn) ==
    CASE sn \in fc16 -> <<>>
      [] sn \in V2 \ fc16 ->
            (IF sn \in streaming THEN <<>>
             ELSE <<Request("HOME_DATA", 0), Request("INV_BASE_SETTINGS", 0),
                    Request("INV_ADV_SETTINGS", 0)>>) \o Discovery(sn)
      [] OTHER -> <<Request("HOME_DATA", 1), Request("PACK_MAIN_INFO", 1)>>

\* _poll_battery_nodes, or the loop over the pack count: two reads to each pack of a
\* V2 device, one to each of another.
PackReads(sn) ==
    LET known == KnownPacks(sn)
    IN IF sn \in V2
       THEN [i \in 1..2 * Len(known) |->
                Request(IF i % 2 = 1 THEN "PACK_ITEM_INFO" ELSE "PACK_CELL_INFO",
                        known[(i + 1) \div 2])]
       ELSE [i \in 1..Len(known) |-> Request("PACK_ITEM_INFO", known[i])]

\* _poll_register leaves out what the device has refused; NODE_INFO is not so tested.
\* The places in reads of those that are asked.
Wanted(sn, reads) ==
    {k \in DOMAIN reads : reads[k].register = "NODE_INFO" \/ reads[k] \notin unsupported[sn]}

\* The reads of section s, as seen from section p: a device in _fc16_devices is
\* passed over when its turn comes, and not once its turn has begun.
Ahead(p, s) ==
    LET sn == DeviceAt(s)
    IN IF PacksOf(s)
       THEN IF sn \in fc16 /\ s # p + 1 THEN <<>> ELSE PackReads(sn)
       ELSE Opening(sn)

\* None of these reads of section s is asked.
NothingWanted(s, reads) == Wanted(DeviceAt(s), reads) = {}

\* The request of section s whose turn it is: the first that is asked of those left.
Ask(s, reads) ==
    LET sn == DeviceAt(s)
    IN \E k \in Wanted(sn, reads) :
          /\ \A j \in Wanted(sn, reads) : k <= j
          /\ task' = "waiting"
          /\ at' = s /\ pending' = reads[k] /\ plan' = SubSeq(reads, k + 1, Len(reads))
          /\ owed' = IF reads[k] \in Lacks[sn] THEN owed \cup {sn} ELSE owed

Sleep(state) ==
    /\ task' = state
    /\ at' = 0 /\ plan' = <<>> /\ pending' = NoRequest
    /\ UNCHANGED owed

\* The task runs until its next await: the next request that is asked, in section p
\* where rest is left or in a later one.  Without a connection nothing is asked.
GoOn(p, rest) ==
    \/ /\ link
       /\ Ask(p, rest)
    \/ /\ link /\ NothingWanted(p, rest)
       /\ \E s \in Sections :
             /\ s > p
             /\ \A t \in p + 1..s - 1 : NothingWanted(t, Ahead(p, t))
             /\ Ask(s, Ahead(p, s))
    \/ /\ \/ ~link
          \/ /\ NothingWanted(p, rest)
             /\ \A s \in Sections : s > p => NothingWanted(s, Ahead(p, s))
       /\ Sleep("sleeping")

------------------------------------------------------------------------------
Init ==
    /\ task = "off" /\ link = FALSE
    /\ at = 0 /\ plan = <<>> /\ pending = NoRequest /\ answer = NoReply
    /\ unsupported = [sn \in Sns |-> {}]
    /\ packs = [sn \in Sns |-> <<>>]
    /\ streaming = {} /\ fc16 = {} /\ owed = {}

(* The task.                                                                 *)

\* async_start: connected, and _start_polling.  The new task asks at once.
Start ==
    /\ task = "off"
    /\ task' = "sleeping" /\ link' = TRUE
    /\ UNCHANGED <<at, plan, pending, answer, learnt, owed>>

\* A cycle begins.
Wake ==
    /\ task = "sleeping" /\ link
    /\ GoOn(0, <<>>)
    /\ UNCHANGED <<link, answer, learnt>>

\* No reply came within MQTT_REQUEST_TIMEOUT.
Timeout ==
    /\ task = "waiting"
    /\ task' = "settled"
    /\ UNCHANGED <<link, at, plan, pending, answer, learnt, owed>>

\* The request ended: _pending_request is cleared and the task goes on to the next.
Resume ==
    /\ task = "settled"
    /\ answer' = NoReply
    /\ GoOn(at, plan)
    /\ UNCHANGED <<link, learnt>>

\* _cleanup_mqtt_client: the task is cancelled, the client dropped.
Cleanup ==
    /\ task \notin {"off", "cancelled"}
    /\ task' = "cancelled" /\ link' = FALSE
    /\ UNCHANGED <<at, plan, pending, answer, learnt, owed>>

\* The cancelled task runs its finally clauses and ends.
TaskEnds ==
    /\ task = "cancelled"
    /\ answer' = NoReply
    /\ Sleep("off")
    /\ UNCHANGED <<link, learnt>>

\* The link is lost, and paho brings it back by itself.
LinkChanges ==
    /\ task \notin {"off", "cancelled"}
    /\ link' = ~link
    /\ UNCHANGED <<task, at, plan, pending, answer, learnt, owed>>

(* The message handler.  Frames already queued on the event loop are handled *)
(* after the client was dropped, too.                                        *)

\* The frame answers the request that the sender's transport has open.
Answers(f) ==
    /\ task = "waiting" /\ f.from = DeviceAt(at)
    /\ f.slave = pending.slave /\ f.block \in {NoBlock, pending.register}

\* _deliver_reply.
Deliver(f) ==
    /\ IF Answers(f) THEN task' = "settled" /\ answer' = f ELSE UNCHANGED <<task, answer>>
    /\ UNCHANGED <<link, at, plan, pending, owed>>

\* The block a frame is parsed as: what its size or start address tells, or else
\* what was asked for last, of whichever device.
Routed(f) ==
    CASE f.block # NoBlock -> f.block
      [] f.block = NoBlock /\ pending # NoRequest -> pending.register
      [] OTHER -> NoBlock

\* PackMainInfo of a V1 device brings its pack count; a count of none is ignored.
CountLearnt(f) ==
    IF Routed(f) = "PACK_MAIN_INFO" /\ f.from \notin V2
    THEN \E l \in PackLists[f.from] \ {<<>>} : packs' = [packs EXCEPT ![f.from] = l]
    ELSE UNCHANGED packs

\* The blocks a device has, and the addresses it answers at.
Has(sn) ==
    LET known == UNION {{l[i] : i \in 1..Len(l)} : l \in PackLists[sn]}
    IN (IF sn \in V2
        THEN [register : Telemetry \ {"PACK_MAIN_INFO"}, slave : {0}]
             \cup [register : PackBlocks, slave : known]
        ELSE [register : {"HOME_DATA", "PACK_MAIN_INFO"}, slave : {1}]
             \cup [register : {"PACK_ITEM_INFO"}, slave : known]) \ Lacks[sn]

\* Pack records come in more than one size.
Recognised(register) ==
    IF register = "PACK_ITEM_INFO" THEN {register, NoBlock} ELSE {register}

\* An FC=03 frame: an answer, in time or late, to this client or to another.
ReadReply(sn, r) ==
    \E block \in Recognised(r.register) :
        LET f == Reply(sn, r.slave, block)
        IN /\ CountLearnt(f)
           /\ Deliver(f)
           /\ UNCHANGED <<unsupported, streaming, fc16>>

\* The answer to a NODE_INFO query: the expansions there are now.
NodeReply(sn) ==
    /\ sn \in V2
    /\ \E l \in PackLists[sn] : packs' = [packs EXCEPT ![sn] = l]
    /\ Deliver(Reply(sn, 0, "NODE_INFO"))
    /\ UNCHANGED <<unsupported, streaming, fc16>>

\* An FC=16 push.  A V2 device is streaming, another is one that needs no polling if
\* the push holds registers of the AC300 map.
Push(sn, r) ==
    LET f == Reply(sn, r.slave, r.register)
    IN /\ CountLearnt(f)
       /\ IF sn \in V2
          THEN streaming' = streaming \cup {sn} /\ UNCHANGED fc16
          ELSE fc16' \in {fc16, fc16 \cup {sn}} /\ UNCHANGED streaming
       /\ IF pending # NoRequest /\ pending.register = r.register
          THEN Deliver(f)
          ELSE UNCHANGED <<task, link, at, plan, pending, answer, owed>>
       /\ UNCHANGED unsupported

\* What an error reply of sn marks: the request pending, whoever it was made to.
Marked(sn) == [unsupported EXCEPT ![sn] = @ \cup {pending}]

\* _handle_error_response, for the refusal of any request made before.  The broker
\* delivers at least once.
Refusal(sn) ==
    /\ sn \in owed
    /\ owed' \in {owed, owed \ {sn}}
    /\ IF pending = NoRequest
       THEN UNCHANGED <<task, unsupported>>
       ELSE /\ Cardinality({m \in Sns \X Requests : m[2] \in unsupported[m[1]]}) < MaxMarked
            /\ unsupported' = Marked(sn)
            /\ task' = IF task = "waiting" /\ sn = DeviceAt(at) THEN "settled" ELSE task
    /\ UNCHANGED <<link, at, plan, pending, answer, packs, streaming, fc16>>

\* No push for PUSH_ACTIVE_WINDOW.
StreamEnds(sn) ==
    /\ sn \in streaming
    /\ streaming' = streaming \ {sn}
    /\ UNCHANGED <<task, link, at, plan, pending, answer, unsupported, packs, fc16, owed>>

------------------------------------------------------------------------------
Next ==
    \/ Start \/ Wake \/ Timeout \/ Resume \/ Cleanup \/ TaskEnds \/ LinkChanges
    \/ \E sn \in Sns :
          \/ \E r \in Has(sn) : ReadReply(sn, r) \/ Push(sn, r)
          \/ NodeReply(sn) \/ Refusal(sn) \/ StreamEnds(sn)

Spec == Init /\ [][Next]_vars

\* Sleeps and deadlines end and the event loop runs what is ready.  Nothing is
\* assumed of the devices, nor of what brings the connection up.
FairSpec == Spec /\ WF_vars(Wake) /\ WF_vars(Timeout) /\ WF_vars(Resume) /\ WF_vars(TaskEnds)

------------------------------------------------------------------------------
(* Properties.                                                               *)

\* Type correctness.
TypeOK ==
    /\ task \in {"off", "sleeping", "waiting", "settled", "cancelled"}
    /\ link \in BOOLEAN
    /\ at \in Sections \cup {0}
    /\ plan \in Seq(Requests)
    /\ pending \in Requests \cup {NoRequest}
    /\ answer \in Replies \cup {NoReply}
    /\ unsupported \in [Sns -> SUBSET Requests]
    /\ packs \in [Sns -> Seq(Nat)] /\ \A sn \in Sns : packs[sn] \in PackLists[sn]
    /\ streaming \subseteq V2 /\ fc16 \subseteq Sns \ V2 /\ owed \subseteq Sns

\* _pending_request never outlives its request, however that one ends: a frame that
\* arrives between cycles or after a restart is not parsed as a block asked before.
HintIsCurrent ==
    /\ task \in {"off", "sleeping"} => pending = NoRequest
    /\ Requesting => pending # NoRequest /\ at \in Sections

\* A request ends with a frame only if the device it was made to sent that frame,
\* from the address asked, with several devices on the one connection.
AnsweredByAsked ==
    task = "settled" /\ answer # NoReply
        => /\ answer.from = DeviceAt(at)
           /\ answer.slave = pending.slave
           /\ answer.block \in {NoBlock, pending.register}

\* A device that refuses nothing keeps being asked everything: the refusals of
\* another device are not held against it.
OnlyRefusersAreMarked == \A sn \in Sns : unsupported[sn] # {} => Lacks[sn] # {}

\* What has been marked is not asked again, not even in the cycle under way, whose
\* requests were laid out before the refusal came.
RefusedNotAskedAgain ==
    [][pending' \notin {pending, NoRequest} /\ pending'.register # "NODE_INFO"
            => pending' \notin unsupported[DeviceAt(at')]]_vars

\* As long as polling runs on a live connection, a V2 device is asked for its
\* expansions again and again: streaming, refusals, silent devices and the other
\* devices on the connection do not end discovery.
Down == task \in {"off", "cancelled"} \/ ~link
ExpansionsAskedForEver ==
    \A sn \in V2 :
        []<>(Down \/ (Requesting /\ DeviceAt(at) = sn /\ pending.register = "NODE_INFO"))

\* Each pack of a device is read again and again while it is known, unless the read
\* has been refused or the device turned out to need no polling.
PacksReadForEver ==
    \A sn \in Sns : \A slave \in Slaves :
        LET item == Request("PACK_ITEM_INFO", slave)
        IN []<>(\/ Down \/ sn \in fc16 \/ item \in unsupported[sn]
                \/ \A i \in 1..Len(packs[sn]) : packs[sn][i] # slave
                \/ Requesting /\ DeviceAt(at) = sn /\ pending = item)

\* The inductive invariant: a request under way has no answer yet, and only a device
\* that refuses something owes a refusal.
NoAnswerYet == task \in {"off", "sleeping", "waiting"} => answer = NoReply
RefusersOwe == \A sn \in owed : Lacks[sn] # {}
IInv ==
    /\ TypeOK /\ HintIsCurrent /\ AnsweredByAsked /\ OnlyRefusersAreMarked
    /\ NoAnswerYet /\ RefusersOwe

(* A statement of the repository that the code does not meet.                *)

\* mqtt_manager.py: "Registers this device has already refused aren't worth asking
\* again."
OnlyRefusedAreSkipped ==
    \A sn \in Sns : \A r \in unsupported[sn] : r.register = "NODE_INFO" \/ r \in Lacks[sn]

==============================================================================
