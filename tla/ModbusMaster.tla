----------------------------- MODULE ModbusMaster -----------------------------
(***************************************************************************)
(* g_modbus_master of iot_edge_agent/src/modbus.c: one ModbusMaster of     *)
(* liblightmodbus for the whole agent, without a lock.  The main thread    *)
(* builds the requests of a new instance in it (modbus_init) and ends it   *)
(* with every instance it destroys (modbus_destroy); every acquisition     *)
(* thread decodes its meter's answers in it (mosbus_response_parse).       *)
(*                                                                         *)
(* A step is one access to the shared structure or to the heap.  The heap  *)
(* is a few blocks, handed out lowest first; a block is Free, or holds a   *)
(* request or the registers of an answer, each told apart only by the      *)
(* instance it belongs to.  Where C leaves the behaviour undefined the     *)
(* model stops with the reason in fault.  An instance has a request for    *)
(* each group of its model, and one thread, which is joined before the     *)
(* instance is destroyed (ChannelMap).  Lengths are right.                 *)
(***************************************************************************)
EXTENDS Integers, FiniteSets

CONSTANTS
    Instances,      \* Modbus instances, 1 .. n; their meters have different addresses
    MaxInits,       \* bound: calls of modbus_init
    MaxGroups,      \* bound: groups of registers in a model
    MaxBlocks       \* bound: blocks in the heap

ASSUME MasterAssumption ==
    /\ Instances \subseteq Nat \ {0}
    /\ MaxInits \in Nat /\ MaxGroups \in Nat /\ MaxBlocks \in Nat

VARIABLES
    request,        \* g_modbus_master.request.frame
    response,       \* g_modbus_master.response.frame: whose answer, or NULL
    data,           \* g_modbus_master.data.regs (and .coils, the same block)
    memory,         \* what each block of the heap holds
    stage,          \* of each instance: "none", "creating", "live"
    frames,         \* the data_request->data of its list, NULL for a refused one
    pc,             \* of its thread in mosbus_response_parse
    parser, res,    \* local variables of the thread: the answer; the registers
    mainPc,         \* of the main thread in modbus_init or modbus_destroy: the step, the
                    \* instance and the groups it has built
    inits,
    \* history
    fault, misread, \* undefined behaviour; a value published for another meter
    abandoned,      \* requests in the lists of models that failed
    parsesOverlap,  \* two threads have been decoding at once
    mainOverlaps    \* the main thread was in a call while a thread was decoding

masterVars == <<request, response, data>>
instanceVars == <<stage, frames>>
threadVars == <<pc, parser, res>>
overlapVars == <<parsesOverlap, mainOverlaps>>
countVars == <<inits, abandoned>>
vars == <<masterVars, memory, instanceVars, threadVars, mainPc, countVars, fault, misread,
          overlapVars>>

NULL == 0
Free == 0
Empty == -1
Blocks == 1 .. MaxBlocks
Pointers == Blocks \cup {NULL}

-----------------------------------------------------------------------------
Running == fault = "none"

\* free for each of the pointers
FreeBlocks(pointers) ==
    IF \E b \in pointers : b # NULL /\ memory[b] = Free
    THEN fault' = "freed twice" /\ UNCHANGED memory
    ELSE /\ memory' = [b \in Blocks |-> IF b \in pointers THEN Free ELSE memory[b]]
         /\ UNCHANGED fault
FreeBlock(block) == FreeBlocks({block})

\* calloc: the lowest free block.
FirstFree(block) ==
    /\ memory[block] = Free
    /\ \A b \in Blocks : b < block => memory[b] # Free

HeapFull == \A b \in Blocks : memory[b] # Free

\* A call overlaps with the calls that are in progress when it begins.
Decoding == {t \in Instances : pc[t] # "idle"}
ParseOverlaps ==
    /\ parsesOverlap' = (parsesOverlap \/ Decoding # {})
    /\ mainOverlaps' = (mainOverlaps \/ mainPc.step # "idle")
MainOverlaps ==
    /\ mainOverlaps' = (mainOverlaps \/ Decoding # {})
    /\ UNCHANGED parsesOverlap

-----------------------------------------------------------------------------
(***************************************************************************)
(* mosbus_response_parse in the thread of instance t                       *)
(***************************************************************************)
At(t, step) == Running /\ pc[t] = step
GoTo(t, step) == pc' = [pc EXCEPT ![t] = step]

\* The request is put into the master.
ParseBegin(t) ==
    /\ At(t, "idle")
    /\ stage[t] = "live"
    /\ request' \in frames[t]
    /\ GoTo(t, "response")
    /\ ParseOverlaps
    /\ UNCHANGED <<response, data, memory, instanceVars, parser, res, mainPc, countVars, fault,
                   misread>>

\* Then the answer.
SetResponse(t) ==
    /\ At(t, "response")
    /\ response' = t
    /\ GoTo(t, "free")
    /\ UNCHANGED <<request, data, memory, instanceVars, parser, res, mainPc, countVars, fault,
                   misread, overlapVars>>

\* modbusParseResponse frees the registers of the answer before,
FreeData(t) ==
    /\ At(t, "free")
    /\ FreeBlock(data)
    /\ GoTo(t, "clear")
    /\ UNCHANGED <<masterVars, instanceVars, parser, res, mainPc, countVars, misread, overlapVars>>

\* and only then forgets them.
ClearData(t) ==
    /\ At(t, "clear")
    /\ data' = NULL
    /\ GoTo(t, "check")
    /\ UNCHANGED <<request, response, memory, instanceVars, parser, res, mainPc, countVars, fault,
                   misread, overlapVars>>

\* What the master holds cannot be read: the request has been freed, or the answer
\* is in the buffer of a callback that has returned.
Unreadable ==
    \/ request # NULL /\ memory[request] = Free
    \/ response # NULL /\ pc[response] = "idle"

\* The addresses of answer and request are compared.
Matches == request # NULL /\ response # NULL /\ memory[request] = response

CheckUnreadable(t) ==
    /\ At(t, "check")
    /\ Unreadable
    /\ fault' = "read after free"
    /\ UNCHANGED <<masterVars, memory, instanceVars, threadVars, mainPc, countVars, misread,
                   overlapVars>>

\* The addresses differ, the checksum is wrong, or the meter answers with an
\* exception: nothing is published.
CheckFails(t) ==
    /\ At(t, "check")
    /\ ~Unreadable
    /\ GoTo(t, "idle")
    /\ UNCHANGED <<masterVars, memory, instanceVars, parser, res, mainPc, countVars, fault,
                   misread, overlapVars>>

CheckPasses(t) ==
    /\ At(t, "check")
    /\ ~Unreadable /\ Matches
    /\ parser' = [parser EXCEPT ![t] = response]
    /\ GoTo(t, "alloc")
    /\ UNCHANGED <<masterVars, memory, instanceVars, res, mainPc, countVars, fault, misread,
                   overlapVars>>

\* modbusParseResponse0304 gets no memory: MODBUS_ERROR_ALLOC.
AllocDataFails(t) ==
    /\ At(t, "alloc")
    /\ HeapFull
    /\ data' = NULL
    /\ GoTo(t, "idle")
    /\ UNCHANGED <<request, response, memory, instanceVars, parser, res, mainPc, countVars, fault,
                   misread, overlapVars>>

\* It gets memory for the registers,
AllocData(t) ==
    /\ At(t, "alloc")
    /\ \E block \in Blocks :
          /\ FirstFree(block)
          /\ memory' = [memory EXCEPT ![block] = Empty]
          /\ data' = block
    /\ GoTo(t, "copy")
    /\ UNCHANGED <<request, response, instanceVars, parser, res, mainPc, countVars, fault,
                   misread, overlapVars>>

\* and copies them to wherever data.regs points by then.
CopyData(t) ==
    /\ At(t, "copy")
    /\ IF data = NULL \/ (data # NULL /\ memory[data] = Free)
       THEN fault' = "written after free" /\ UNCHANGED memory
       ELSE memory' = [memory EXCEPT ![data] = parser[t]] /\ UNCHANGED fault
    /\ GoTo(t, "take")
    /\ UNCHANGED <<masterVars, instanceVars, parser, res, mainPc, countVars, misread, overlapVars>>

TakeRegs(t) ==
    /\ At(t, "take")
    /\ res' = [res EXCEPT ![t] = data]
    /\ GoTo(t, "payload")
    /\ UNCHANGED <<masterVars, memory, instanceVars, parser, mainPc, countVars, fault, misread,
                   overlapVars>>

\* construct_payload_by_model; the payload is published.
Payload(t) ==
    /\ At(t, "payload")
    /\ IF res[t] = NULL \/ (res[t] # NULL /\ memory[res[t]] = Free)
       THEN fault' = "read after free" /\ UNCHANGED misread
       ELSE misread' = (misread \/ memory[res[t]] # t) /\ UNCHANGED fault
    /\ parser' = [parser EXCEPT ![t] = NULL]
    /\ res' = [res EXCEPT ![t] = NULL]
    /\ GoTo(t, "idle")
    /\ UNCHANGED <<masterVars, memory, instanceVars, mainPc, countVars, overlapVars>>

-----------------------------------------------------------------------------
(***************************************************************************)
(* modbus_init in the main thread                                          *)
(***************************************************************************)
MainAt(step) == Running /\ mainPc.step = step
Building == {"build", "alloc", "take", "disown"}
MainGoTo(step) == mainPc' = [mainPc EXCEPT !.step = step]

\* A bug it could have: the request is left in the master.
InitBeginKeepsRequest(i) ==
    /\ MainAt("idle")
    /\ stage[i] = "none"
    /\ inits < MaxInits
    /\ inits' = inits + 1
    /\ response' = NULL /\ data' = NULL
    /\ stage' = [stage EXCEPT ![i] = "creating"]
    /\ mainPc' = [step |-> "build", instance |-> i, groups |-> 0]
    /\ MainOverlaps
    /\ UNCHANGED <<request, memory, frames, threadVars, abandoned, fault, misread>>

\* modbusMasterInit: whatever the master points to is forgotten.
InitBegin(i) ==
    /\ MainAt("idle")
    /\ stage[i] = "none"
    /\ inits < MaxInits
    /\ inits' = inits + 1
    /\ request' = NULL /\ response' = NULL /\ data' = NULL
    /\ stage' = [stage EXCEPT ![i] = "creating"]
    /\ mainPc' = [step |-> "build", instance |-> i, groups |-> 0]
    /\ MainOverlaps
    /\ UNCHANGED <<memory, frames, threadVars, abandoned, fault, misread>>

\* A group that cannot be read, or no memory for it: the list, with the requests of
\* the groups before it, is dropped, and modbus_destroy is called with a list that
\* was never assigned.  If the memory happens to be zero, only the master is ended.
InitFails ==
    /\ MainAt("build")
    /\ \/ /\ mainPc' = [mainPc EXCEPT !.step = "unset", !.groups = 0]
          /\ UNCHANGED fault
       \/ /\ fault' = "uninitialised list"
          /\ UNCHANGED mainPc
    /\ stage' = [stage EXCEPT ![mainPc.instance] = "none"]
    /\ frames' = [frames EXCEPT ![mainPc.instance] = {}]
    /\ abandoned' = abandoned + Cardinality(frames[mainPc.instance] \ {NULL})
    /\ UNCHANGED <<masterVars, memory, threadVars, inits, misread, overlapVars>>

\* All groups are in the list: the instance has it, and its thread is created.
InitDone ==
    /\ MainAt("build")
    /\ stage' = [stage EXCEPT ![mainPc.instance] = "live"]
    /\ mainPc' = [mainPc EXCEPT !.step = "idle", !.groups = 0]
    /\ UNCHANGED <<masterVars, memory, frames, threadVars, countVars, fault, misread,
                   overlapVars>>

\* modbus_data_info_create for the next group.
NextGroup == MainAt("build") /\ mainPc.groups < MaxGroups

\* modbusBuildRequest0304 refuses an address or a count, or is not called for the
\* function: request.frame stays as it is.
BuildRefused ==
    /\ NextGroup
    /\ MainGoTo("take")
    /\ UNCHANGED <<masterVars, memory, instanceVars, threadVars, countVars, fault, misread,
                   overlapVars>>

\* It frees whatever request.frame is,
BuildFree ==
    /\ NextGroup
    /\ FreeBlock(request)
    /\ MainGoTo("alloc")
    /\ UNCHANGED <<masterVars, instanceVars, threadVars, countVars, misread, overlapVars>>

\* and gets memory for the new request, or none.
BuildAlloc ==
    /\ MainAt("alloc")
    /\ IF HeapFull
       THEN request' = NULL /\ UNCHANGED memory
       ELSE \E block \in Blocks :
               /\ FirstFree(block)
               /\ memory' = [memory EXCEPT ![block] = mainPc.instance]
               /\ request' = block
    /\ MainGoTo("take")
    /\ UNCHANGED <<response, data, instanceVars, threadVars, countVars, fault, misread,
                   overlapVars>>

\* modbus_data_info_create takes the frame over,
TakeFrame ==
    /\ MainAt("take")
    /\ frames' = [frames EXCEPT ![mainPc.instance] = @ \cup {request}]
    /\ mainPc' = [mainPc EXCEPT !.step = "disown", !.groups = @ + 1]
    /\ UNCHANGED <<masterVars, memory, stage, threadVars, countVars, fault, misread,
                   overlapVars>>

\* and the master forgets it.
DisownFrame ==
    /\ MainAt("disown")
    /\ request' = NULL
    /\ MainGoTo("build")
    /\ UNCHANGED <<response, data, memory, instanceVars, threadVars, countVars, fault,
                   misread, overlapVars>>

-----------------------------------------------------------------------------
(***************************************************************************)
(* modbus_destroy in the main thread, when the thread has been joined      *)
(***************************************************************************)
\* A bug its caller could have: the thread is not joined.
DestroyBeginUnjoined(i) ==
    /\ MainAt("idle")
    /\ stage[i] = "live"
    /\ FreeBlocks(frames[i])
    /\ frames' = [frames EXCEPT ![i] = {}]
    /\ stage' = [stage EXCEPT ![i] = "none"]
    /\ mainPc' = [step |-> "unset", instance |-> i, groups |-> 0]
    /\ MainOverlaps
    /\ UNCHANGED <<masterVars, threadVars, countVars, misread>>

\* The requests of the instance go with it.
DestroyBegin(i) ==
    /\ MainAt("idle")
    /\ stage[i] = "live" /\ pc[i] = "idle"
    /\ FreeBlocks(frames[i])
    /\ frames' = [frames EXCEPT ![i] = {}]
    /\ stage' = [stage EXCEPT ![i] = "none"]
    /\ mainPc' = [step |-> "unset", instance |-> i, groups |-> 0]
    /\ MainOverlaps
    /\ UNCHANGED <<masterVars, threadVars, countVars, misread>>

\* A bug it could have: the request of the last answer stays in the master.
UnsetRequestNot ==
    /\ MainAt("unset")
    /\ MainGoTo("end request")
    /\ UNCHANGED <<masterVars, memory, instanceVars, threadVars, countVars, fault, misread,
                   overlapVars>>

\* The master's request is one of an instance, or none: it is not to be freed again.
UnsetRequest ==
    /\ MainAt("unset")
    /\ request' = NULL
    /\ MainGoTo("end request")
    /\ UNCHANGED <<response, data, memory, instanceVars, threadVars, countVars, fault, misread,
                   overlapVars>>

\* modbusMasterEnd
EndRequest ==
    /\ MainAt("end request")
    /\ FreeBlock(request)
    /\ request' = NULL
    /\ MainGoTo("end data")
    /\ UNCHANGED <<response, data, instanceVars, threadVars, countVars, misread, overlapVars>>

\* A bug it could have: the registers are forgotten without being freed.
EndDataKept ==
    /\ MainAt("end data")
    /\ data' = NULL
    /\ MainGoTo("idle")
    /\ UNCHANGED <<request, response, memory, instanceVars, threadVars, countVars, fault, misread,
                   overlapVars>>

EndData ==
    /\ MainAt("end data")
    /\ FreeBlock(data)
    /\ data' = NULL
    /\ MainGoTo("idle")
    /\ UNCHANGED <<request, response, instanceVars, threadVars, countVars, misread, overlapVars>>

-----------------------------------------------------------------------------
Init ==
    /\ request = NULL /\ response = NULL /\ data = NULL
    /\ memory = [b \in Blocks |-> Free]
    /\ stage = [i \in Instances |-> "none"]
    /\ frames = [i \in Instances |-> {}]
    /\ pc = [i \in Instances |-> "idle"]
    /\ parser = [i \in Instances |-> NULL]
    /\ res = [i \in Instances |-> NULL]
    /\ mainPc = [step |-> "idle", instance |-> 0, groups |-> 0]
    /\ inits = 0 /\ abandoned = 0
    /\ fault = "none" /\ misread = FALSE
    /\ parsesOverlap = FALSE /\ mainOverlaps = FALSE

Parse(t) ==
    \/ ParseBegin(t) \/ SetResponse(t) \/ FreeData(t) \/ ClearData(t)
    \/ CheckUnreadable(t) \/ CheckFails(t) \/ CheckPasses(t)
    \/ AllocData(t) \/ AllocDataFails(t) \/ CopyData(t) \/ TakeRegs(t) \/ Payload(t)

Main ==
    \/ \E i \in Instances : InitBegin(i) \/ DestroyBegin(i)
    \/ InitFails \/ InitDone
    \/ BuildRefused \/ BuildFree \/ BuildAlloc \/ TakeFrame \/ DisownFrame
    \/ UnsetRequest \/ EndRequest \/ EndData

\* Nothing can be said after a fault.
Undefined == ~Running /\ UNCHANGED vars

\* The bound on models is reached and the last instance is gone.
Finished ==
    /\ inits = MaxInits /\ mainPc.step = "idle"
    /\ \A i \in Instances : stage[i] = "none"
    /\ UNCHANGED vars

Next == (\E t \in Instances : Parse(t)) \/ Main \/ Undefined \/ Finished

Spec == Init /\ [][Next]_vars

-----------------------------------------------------------------------------
\* Pointers point to blocks, blocks hold requests or answers of instances, only the
\* thread of an instance that exists decodes, and what the main thread builds is not
\* an instance yet.
TypeOK ==
    /\ request \in Pointers /\ data \in Pointers
    /\ response \in Instances \cup {NULL}
    /\ memory \in [Blocks -> Instances \cup {Free, Empty}]
    /\ stage \in [Instances -> {"none", "creating", "live"}]
    /\ frames \in [Instances -> SUBSET Pointers]
    /\ pc \in [Instances -> {"idle", "response", "free", "clear", "check", "alloc", "copy",
                             "take", "payload"}]
    /\ parser \in [Instances -> Instances \cup {NULL}]
    /\ res \in [Instances -> Pointers]
    /\ mainPc \in [step : Building \cup {"idle", "unset", "end request", "end data"},
                   instance : Instances \cup {0}, groups : Nat]
    /\ inits \in 0 .. MaxInits /\ abandoned \in Nat
    /\ misread \in BOOLEAN /\ parsesOverlap \in BOOLEAN /\ mainOverlaps \in BOOLEAN
    /\ \A i \in Instances : pc[i] # "idle" => stage[i] = "live"
    /\ mainPc.step \in Building /\ Running =>
          mainPc.instance \in Instances /\ stage[mainPc.instance] = "creating"

\* As long as no two calls overlap, any sequence of models, answers and removals uses
\* only memory that is allocated, frees it once, and publishes for every meter what
\* it answered; except for a model with a group that cannot be read, whose list is
\* never assigned.
SafeIfSerial ==
    ~parsesOverlap /\ ~mainOverlaps =>
        /\ fault \in {"none", "uninitialised list"}
        /\ ~misread

\* Threads that decode at once may mix up or free each other's registers, but only
\* the main thread, by building or ending while one of them decodes, can take away a
\* request: until then every instance has its own.
RequestsKept ==
    ~mainOverlaps =>
        \A i \in Instances :
            stage[i] = "live" => \A f \in frames[i] \ {NULL} : memory[f] = i

\* Blocks nobody points to any more.
Lost ==
    {b \in Blocks : /\ memory[b] # Free
                    /\ b # request /\ b # data
                    /\ \A i \in Instances : b \notin frames[i] /\ b # res[i]}

\* As long as no two calls overlap, memory is lost by modbus_init alone: it forgets
\* the registers of the last answer, one block for each model received, and where a
\* group cannot be read also the requests of the groups before it.  Answers, however
\* many, and removals lose nothing.
LostByInitAlone ==
    ~parsesOverlap /\ ~mainOverlaps => Cardinality(Lost) <= inits + abandoned

=============================================================================
