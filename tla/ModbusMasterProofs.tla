------------------------- MODULE ModbusMasterProofs -------------------------
(***************************************************************************)
(* What TLAPS proves of ModbusMaster, for any number of instances, models, *)
(* answers and blocks of the heap.                                         *)
(***************************************************************************)
EXTENDS ModbusMaster, FiniteSetTheorems, TLAPS

Allocated(pointer) == pointer # NULL /\ memory[pointer] # Free

\* What holds until the main thread builds or ends while a thread decodes, however
\* the threads interleave: a request in a list is its instance's own and is never the
\* block of the registers; and the registers are freed only on the way to being
\* forgotten, so that the block of a new request is never theirs.
OwnRequests ==
    \A i \in Instances : \A f \in frames[i] \ {NULL} : memory[f] = i /\ f # data

RegsForgotten ==
    data # NULL /\ memory[data] = Free => \E t \in Instances : pc[t] = "clear"

Parsers == \A t \in Instances : pc[t] \in {"alloc", "copy"} => parser[t] \in Instances

\* The main thread in a call: no thread decodes, and the request it builds, if there
\* is one, is the new instance's.
MainInv ==
    mainPc.step # "idle" =>
        /\ \A t \in Instances : pc[t] = "idle"
        /\ mainPc.step \in {"build", "alloc", "end request"} => request = NULL
        /\ mainPc.step \in {"take", "disown"} /\ request # NULL =>
              memory[request] = mainPc.instance /\ request # data
        /\ mainPc.step = "disown" => request \in frames[mainPc.instance]

RequestParts == OwnRequests /\ RegsForgotten /\ Parsers /\ MainInv

RequestInv == ~mainOverlaps => RequestParts

-----------------------------------------------------------------------------
\* No two calls have overlapped.
Serial == ~parsesOverlap /\ ~mainOverlaps

\* Then there is no undefined behaviour but one, and no value is another meter's.
SafeNow == fault \in {"none", "uninitialised list"} /\ ~misread

\* Where a thread is with its call when it is alone: which request, answer and
\* registers it has to do with, and that it keeps no pointer between two calls.
DecodeInv(t) ==
    /\ pc[t] # "idle" => request \in frames[t]
    /\ pc[t] \notin {"idle", "response"} => response = t
    /\ pc[t] = "clear" => ~Allocated(data)
    /\ pc[t] \in {"check", "alloc"} => data = NULL
    /\ pc[t] \in {"alloc", "copy"} => parser[t] = t
    /\ pc[t] \in {"copy", "take", "payload"} => Allocated(data)
    /\ pc[t] \in {"take", "payload"} => memory[data] = t
    /\ res[t] = IF pc[t] = "payload" THEN data ELSE NULL

OneDecodes == \A t, u \in Instances : pc[t] # "idle" /\ pc[u] # "idle" => t = u

\* The request in the master is in the list of an instance, unless the main thread has
\* just built it.
OwnedInv ==
    Allocated(request) /\ mainPc.step # "take" => \E i \in Instances : request \in frames[i]

SerialParts ==
    SafeNow /\ OneDecodes /\ OwnedInv /\ (\A t \in Instances : DecodeInv(t))

SerialInv == Serial => SerialParts

-----------------------------------------------------------------------------
\* What free does to the heap: blocks that are allocated, or none, are freed without a
\* fault, and no other block is touched.
LEMMA FreeAllEffect ==
    ASSUME TypeOK, NEW pointers \in SUBSET Pointers, FreeBlocks(pointers)
    PROVE  /\ memory' \in [Blocks -> Instances \cup {Free, Empty}]
           /\ \A b \in Blocks : b \notin pointers => memory'[b] = memory[b]
           /\ (\A b \in pointers : b = NULL \/ memory[b] # Free) =>
                 /\ fault' = fault
                 /\ \A b \in pointers : b # NULL => memory'[b] = Free
           /\ fault' \in {fault, "freed twice"}
  <1>1. memory \in [Blocks -> Instances \cup {Free, Empty}]
    BY DEF TypeOK
  <1>2. CASE \E b \in pointers : b # NULL /\ memory[b] = Free
    BY <1>1, <1>2 DEF FreeBlocks
  <1>3. CASE ~(\E b \in pointers : b # NULL /\ memory[b] = Free)
    <2>1. /\ memory' = [b \in Blocks |-> IF b \in pointers THEN Free ELSE memory[b]]
          /\ fault' = fault
      BY <1>3 DEF FreeBlocks
    <2>2. QED
      BY <1>1, <2>1 DEF Pointers
  <1>4. QED
    BY <1>2, <1>3

LEMMA FreeEffect ==
    ASSUME TypeOK, NEW block \in Pointers, FreeBlock(block)
    PROVE  /\ memory' \in [Blocks -> Instances \cup {Free, Empty}]
           /\ \A b \in Blocks : b # block => memory'[b] = memory[b]
           /\ block = NULL \/ memory[block] # Free =>
                 fault' = fault /\ (block # NULL => memory'[block] = Free)
           /\ fault' \in {fault, "freed twice"}
  <1>1. {block} \in SUBSET Pointers /\ FreeBlocks({block})
    BY DEF FreeBlock
  <1>2. /\ memory' \in [Blocks -> Instances \cup {Free, Empty}]
        /\ \A b \in Blocks : b \notin {block} => memory'[b] = memory[b]
        /\ (\A b \in {block} : b = NULL \/ memory[b] # Free) =>
              /\ fault' = fault
              /\ \A b \in {block} : b # NULL => memory'[b] = Free
        /\ fault' \in {fault, "freed twice"}
    BY <1>1, FreeAllEffect, Zenon
  <1>3. QED
    BY <1>2, Zenon

\* The steps of a thread keep the types.
LEMMA ParseTypes ==
    ASSUME TypeOK, NEW t \in Instances, Parse(t)
    PROVE  TypeOK'
  <1> USE DEF TypeOK, At, GoTo, masterVars, instanceVars, threadVars, countVars, overlapVars,
          Running
  <1>1. CASE ParseBegin(t)
    <2>1. parsesOverlap' \in BOOLEAN /\ mainOverlaps' \in BOOLEAN
      BY <1>1 DEF ParseBegin, ParseOverlaps
    <2>2. QED
      BY <1>1, <2>1 DEF ParseBegin
  <1>2. CASE SetResponse(t)
    BY <1>2 DEF SetResponse
  <1>3. CASE FreeData(t)
    <2>1. memory' \in [Blocks -> Instances \cup {Free, Empty}]
          /\ (fault' = fault \/ fault' = "freed twice")
      BY <1>3, FreeEffect DEF FreeData
    <2>2. QED
      BY <1>3, <2>1 DEF FreeData
  <1>4. CASE ClearData(t)
    BY <1>4 DEF ClearData, Pointers
  <1>5. CASE CheckUnreadable(t)
    BY <1>5 DEF CheckUnreadable
  <1>6. CASE CheckFails(t)
    BY <1>6 DEF CheckFails
  <1>7. CASE CheckPasses(t)
    BY <1>7 DEF CheckPasses
  <1>8. CASE AllocData(t)
    BY <1>8 DEF AllocData, Pointers
  <1>9. CASE AllocDataFails(t)
    BY <1>9 DEF AllocDataFails, Pointers
  <1>10. CASE CopyData(t)
    <2>1. memory' \in [Blocks -> Instances \cup {Free, Empty}]
      <3>1. parser[t] \in Instances \cup {Free, Empty}
        BY DEF NULL, Free
      <3>2. memory' = memory \/ memory' = [memory EXCEPT ![data] = parser[t]]
        BY <1>10 DEF CopyData
      <3>3. QED
        BY <3>1, <3>2
    <2>2. QED
      BY <1>10, <2>1 DEF CopyData
  <1>11. CASE TakeRegs(t)
    BY <1>11 DEF TakeRegs
  <1>12. CASE Payload(t)
    <2>1. misread' \in BOOLEAN
      BY <1>12 DEF Payload
    <2>2. QED
      BY <1>12, <2>1 DEF Payload, Pointers
  <1>13. QED
    BY <1>1, <1>2, <1>3, <1>4, <1>5, <1>6, <1>7, <1>8, <1>9, <1>10, <1>11, <1>12 DEF Parse

\* A call of modbus_init below the bound is counted within it.
LEMMA CallCounted ==
    ASSUME NEW n \in 0 .. MaxInits, n < MaxInits
    PROVE  n + 1 \in 0 .. MaxInits
  BY MasterAssumption

\* The counters stay natural numbers.
LEMMA NaturalSum == \A m, n \in Nat : m + n \in Nat
  OBVIOUS

\* The requests in a list are finitely many.
LEMMA ListFinite ==
    ASSUME TypeOK, NEW i \in Instances
    PROVE  /\ IsFiniteSet(frames[i] \ {NULL})
           /\ Cardinality(frames[i] \ {NULL}) \in Nat
  <1>1. IsFiniteSet(Blocks)
    BY MasterAssumption, FS_Interval DEF Blocks
  <1>2. frames[i] \ {NULL} \subseteq Blocks
    BY DEF TypeOK, Pointers
  <1>3. IsFiniteSet(frames[i] \ {NULL})
    BY <1>1, <1>2, FS_Subset
  <1>4. QED
    BY <1>3, FS_CardinalityType

\* The steps of the main thread keep the types.
LEMMA MainTypes ==
    ASSUME TypeOK, Main
    PROVE  TypeOK'
  <1> USE MasterAssumption DEF TypeOK, MainAt, MainGoTo, Building, masterVars, instanceVars,
          threadVars, countVars, overlapVars, Running
  <1>1. ASSUME NEW i \in Instances, InitBegin(i)
        PROVE  TypeOK'
    <2>1. parsesOverlap' \in BOOLEAN /\ mainOverlaps' \in BOOLEAN
      BY <1>1 DEF InitBegin, MainOverlaps
    <2>2. QED
      <3>1. inits' \in 0 .. MaxInits
        BY <1>1, CallCounted DEF InitBegin
      <3>2. /\ stage' \in [Instances -> {"none", "creating", "live"}]
            /\ stage'[i] = "creating"
            /\ \A j \in Instances : pc'[j] # "idle" => stage'[j] = "live"
        BY <1>1 DEF InitBegin
      <3>3. /\ mainPc' = [step |-> "build", instance |-> i, groups |-> 0]
            /\ request' = NULL /\ response' = NULL /\ data' = NULL
        BY <1>1 DEF InitBegin
      <3>4. UNCHANGED <<memory, frames, threadVars, abandoned, fault, misread>>
        BY <1>1 DEF InitBegin
      <3>5. QED
        BY <2>1, <3>1, <3>2, <3>3, <3>4 DEF Pointers
  <1>2. ASSUME NEW i \in Instances, DestroyBegin(i)
        PROVE  TypeOK'
    <2>1. parsesOverlap' \in BOOLEAN /\ mainOverlaps' \in BOOLEAN
      BY <1>2 DEF DestroyBegin, MainOverlaps
    <2>2. memory' \in [Blocks -> Instances \cup {Free, Empty}]
      BY <1>2, FreeAllEffect DEF DestroyBegin
    <2>3. QED
      BY <1>2, <2>1, <2>2 DEF DestroyBegin, Pointers
  <1>3. CASE InitFails
    <2>1. abandoned' \in Nat
      <3>1. /\ abandoned' = abandoned + Cardinality(frames[mainPc.instance] \ {NULL})
            /\ mainPc.instance \in Instances
        BY <1>3 DEF InitFails
      <3>2. Cardinality(frames[mainPc.instance] \ {NULL}) \in Nat
        BY <3>1, ListFinite
      <3>3. QED
        BY <3>1, <3>2, NaturalSum, Zenon
    <2>2. frames' \in [Instances -> SUBSET Pointers]
      BY <1>3 DEF InitFails
    <2>3. /\ stage' \in [Instances -> {"none", "creating", "live"}]
          /\ \A j \in Instances : pc'[j] # "idle" => stage'[j] = "live"
      BY <1>3 DEF InitFails
    <2>4. /\ mainPc' \in [step : Building \cup {"idle", "unset", "end request", "end data"},
                          instance : Instances \cup {0}, groups : Nat]
          /\ ~(mainPc'.step \in Building /\ fault' = "none")
      <3>1. CASE mainPc' = mainPc /\ fault' = "uninitialised list"
        BY <3>1
      <3>2. CASE mainPc' = [mainPc EXCEPT !.step = "unset", !.groups = 0]
        BY <3>2
      <3>3. QED
        BY <1>3, <3>1, <3>2 DEF InitFails
    <2>5. QED
      BY <1>3, <2>1, <2>2, <2>3, <2>4 DEF InitFails
  <1>3a. CASE InitDone
    BY <1>3a DEF InitDone
  <1>4. CASE BuildRefused
    BY <1>4 DEF BuildRefused, NextGroup
  <1>5. CASE BuildFree
    <2>1. memory' \in [Blocks -> Instances \cup {Free, Empty}]
      BY <1>5, FreeEffect DEF BuildFree
    <2>2. QED
      BY <1>5, <2>1 DEF BuildFree, NextGroup
  <1>6. CASE BuildAlloc
    BY <1>6 DEF BuildAlloc, Pointers
  <1>7. CASE TakeFrame
    <2>1. frames' \in [Instances -> SUBSET Pointers]
      BY <1>7 DEF TakeFrame
    <2>2. /\ mainPc' \in [step : Building \cup {"idle", "unset", "end request", "end data"},
                          instance : Instances \cup {0}, groups : Nat]
          /\ mainPc'.instance = mainPc.instance
      <3>1. mainPc.groups + 1 \in Nat
        <4>1. mainPc.groups \in Nat /\ 1 \in Nat
          OBVIOUS
        <4>2. QED
          BY <4>1, NaturalSum, Zenon
      <3>2. mainPc' = [mainPc EXCEPT !.step = "disown", !.groups = mainPc.groups + 1]
        BY <1>7 DEF TakeFrame
      <3>3. QED
        BY <3>1, <3>2
    <2>3. QED
      BY <1>7, <2>1, <2>2 DEF TakeFrame
  <1>8. CASE DisownFrame
    BY <1>8 DEF DisownFrame, Pointers
  <1>9. CASE UnsetRequest
    BY <1>9 DEF UnsetRequest, Pointers
  <1>10. CASE EndRequest
    <2>1. memory' \in [Blocks -> Instances \cup {Free, Empty}]
      BY <1>10, FreeEffect DEF EndRequest
    <2>2. QED
      BY <1>10, <2>1 DEF EndRequest, Pointers
  <1>11. CASE EndData
    <2>1. memory' \in [Blocks -> Instances \cup {Free, Empty}]
      BY <1>11, FreeEffect DEF EndData
    <2>2. QED
      BY <1>11, <2>1 DEF EndData, Pointers
  <1>12. QED
    BY <1>1, <1>2, <1>3, <1>3a, <1>4, <1>5, <1>6, <1>7, <1>8, <1>9, <1>10, <1>11 DEF Main

\* The pointers of the master, of the instances and of the threads point to blocks or
\* nowhere, and only the thread of a live instance decodes, however they interleave.
THEOREM MasterTypeCorrect == Spec => []TypeOK
  <1>1. Init => TypeOK
    <2> SUFFICES ASSUME Init PROVE TypeOK
      OBVIOUS
    <2>1. misread \in BOOLEAN /\ parsesOverlap \in BOOLEAN /\ mainOverlaps \in BOOLEAN
      BY Zenon DEF Init
    <2>2. QED
      BY <2>1, MasterAssumption DEF Init, TypeOK, Pointers, Building
  <1>2. ASSUME TypeOK, [Next]_vars
        PROVE  TypeOK'
    <2>1. CASE UNCHANGED vars
      BY <1>2, <2>1 DEF TypeOK, vars, masterVars, instanceVars, threadVars, countVars,
         overlapVars, Running
    <2>2. QED
      BY <1>2, <2>1, ParseTypes, MainTypes DEF Next, Undefined, Finished
  <1>3. QED
    BY <1>1, <1>2, PTL DEF Spec

-----------------------------------------------------------------------------
\* No instance and no answer is Free or NULL.
LEMMA InstanceNotNull == \A i \in Instances : i # NULL /\ i # Free /\ i # Empty
  BY MasterAssumption DEF NULL, Free, Empty

\* The part of TypeOK that the proofs about the heap use.
HeapTypes ==
    /\ request \in Pointers /\ data \in Pointers
    /\ memory \in [Blocks -> Instances \cup {Free, Empty}]
    /\ frames \in [Instances -> SUBSET Pointers]
    /\ DOMAIN pc = Instances /\ DOMAIN parser = Instances /\ DOMAIN stage = Instances
    /\ \A b \in Blocks : b # NULL
    /\ \A p \in Pointers : p = NULL \/ p \in Blocks

LEMMA HeapTyped == TypeOK => HeapTypes
  <1>1. \A b \in Blocks : b # NULL
    BY MasterAssumption DEF NULL, Blocks
  <1>2. \A p \in Pointers : p = NULL \/ p \in Blocks
    BY DEF Pointers
  <1>3. TypeOK => DOMAIN pc = Instances /\ DOMAIN parser = Instances /\ DOMAIN stage = Instances
    BY DEF TypeOK
  <1>4. QED
    BY <1>1, <1>2, <1>3 DEF TypeOK, HeapTypes

\* What no step of a thread does: it leaves the main thread and the instances alone,
\* and only the first step of a call is noticed by the history.
LEMMA ParseEffect ==
    ASSUME NEW t \in Instances, Parse(t)
    PROVE  /\ mainPc' = mainPc /\ stage' = stage /\ frames' = frames
           /\ inits' = inits /\ abandoned' = abandoned
           /\ ParseBegin(t) \/ (pc[t] # "idle" /\ UNCHANGED overlapVars)
  <1> USE DEF At, instanceVars, countVars
  <1>1. CASE ParseBegin(t)
    BY <1>1 DEF ParseBegin
  <1>2. CASE SetResponse(t) \/ FreeData(t) \/ ClearData(t) \/ CheckUnreadable(t)
    BY <1>2, Zenon DEF SetResponse, FreeData, ClearData, CheckUnreadable
  <1>3. CASE CheckFails(t) \/ CheckPasses(t) \/ AllocData(t) \/ AllocDataFails(t)
    BY <1>3, Zenon DEF CheckFails, CheckPasses, AllocData, AllocDataFails
  <1>4. CASE CopyData(t) \/ TakeRegs(t) \/ Payload(t)
    BY <1>4, Zenon DEF CopyData, TakeRegs, Payload
  <1>5. QED
    BY <1>1, <1>2, <1>3, <1>4 DEF Parse

\* A step of a thread, while the main thread is in no call.
LEMMA ParseKeepsRequests ==
    ASSUME TypeOK, RequestInv, NEW t \in Instances, Parse(t), ~mainOverlaps'
    PROVE  RequestParts'
  <1>1. ~mainOverlaps /\ mainPc.step = "idle"
    <2>1. CASE ParseBegin(t)
      BY <2>1 DEF ParseBegin, ParseOverlaps
    <2>2. CASE ~ParseBegin(t)
      <3>1. pc[t] # "idle" /\ ~mainOverlaps
        BY <2>2, ParseEffect DEF overlapVars
      <3>2. QED
        BY <3>1 DEF RequestInv, RequestParts, MainInv
    <2>3. QED
      BY <2>1, <2>2
  <1>2. /\ OwnRequests /\ RegsForgotten /\ Parsers /\ HeapTypes
        /\ stage' = stage /\ frames' = frames /\ mainPc' = mainPc
    BY <1>1, ParseEffect, HeapTyped DEF RequestInv, RequestParts
  <1>3. MainInv'
    BY <1>1, <1>2 DEF MainInv
  <1>4. SUFFICES OwnRequests' /\ RegsForgotten' /\ Parsers'
    BY <1>3 DEF RequestParts
  <1> HIDE DEF NULL, Free, Empty, Blocks, Pointers
  <1> USE DEF OwnRequests, RegsForgotten, Parsers, HeapTypes, At, GoTo
  <1>5. ASSUME data' = data, memory' = memory,
               \A u \in Instances :
                  /\ pc[u] = "clear" => pc'[u] = "clear"
                  /\ pc'[u] \in {"alloc", "copy"} => pc'[u] = pc[u] /\ parser'[u] = parser[u]
        PROVE  OwnRequests' /\ RegsForgotten' /\ Parsers'
    BY <1>2, <1>5
  <1>6. CASE ParseBegin(t) \/ SetResponse(t) \/ CheckFails(t)
    BY <1>2, <1>5, <1>6 DEF ParseBegin, SetResponse, CheckFails, masterVars
  <1>7. CASE TakeRegs(t) \/ Payload(t) \/ CheckUnreadable(t)
    <2>1. CASE TakeRegs(t)
      BY <1>2, <1>5, <2>1 DEF TakeRegs, masterVars
    <2>2. CASE Payload(t)
      BY <1>2, <1>5, <2>2 DEF Payload, masterVars
    <2>3. CASE CheckUnreadable(t)
      BY <1>2, <1>5, <2>3 DEF CheckUnreadable, masterVars, threadVars
    <2>4. QED
      BY <1>7, <2>1, <2>2, <2>3
  <1>8. CASE FreeData(t)
    <2>1. /\ data' = data
          /\ \A b \in Blocks : b # data => memory'[b] = memory[b]
          /\ pc' = [pc EXCEPT ![t] = "clear"] /\ parser' = parser
      BY <1>2, <1>8, FreeEffect DEF FreeData, masterVars
    <2>2. QED
      BY <1>2, <2>1
  <1>9. CASE ClearData(t)
    BY <1>2, <1>9 DEF ClearData
  <1>10. CASE CheckPasses(t)
    <2>1. response \in Instances
      BY <1>10 DEF CheckPasses, Matches, TypeOK
    <2>2. QED
      BY <1>2, <1>10, <2>1 DEF CheckPasses, masterVars
  <1>11. CASE AllocData(t)
    <2>1. PICK block \in Blocks : /\ memory[block] = Free
                                  /\ memory' = [memory EXCEPT ![block] = Empty]
                                  /\ data' = block
      BY <1>11 DEF AllocData, FirstFree
    <2>2. \A i \in Instances : block \notin frames[i]
      BY <1>2, <2>1, InstanceNotNull
    <2>3. OwnRequests'
      BY <1>2, <2>1, <2>2
    <2>4. Empty # Free
      BY DEF Free, Empty
    <2>5. RegsForgotten'
      BY <1>2, <2>1, <2>4
    <2>6. Parsers'
      BY <1>2, <1>11 DEF AllocData
    <2>7. QED
      BY <2>3, <2>5, <2>6
  <1>12. CASE AllocDataFails(t)
    BY <1>2, <1>12 DEF AllocDataFails
  <1>13. CASE CopyData(t)
    <2>1. /\ data' = data /\ parser' = parser /\ pc' = [pc EXCEPT ![t] = "take"]
          /\ pc[t] = "copy" /\ parser[t] \in Instances
      BY <1>2, <1>13 DEF CopyData, masterVars
    <2>2. \/ memory' = memory
          \/ data # NULL /\ memory' = [memory EXCEPT ![data] = parser[t]]
      BY <1>13 DEF CopyData
    <2>3. OwnRequests'
      BY <1>2, <2>1, <2>2
    <2>4. RegsForgotten'
      BY <1>2, <2>1, <2>2, InstanceNotNull
    <2>5. Parsers'
      BY <1>2, <2>1
    <2>6. QED
      BY <2>3, <2>4, <2>5
  <1>14. QED
    BY <1>6, <1>7, <1>8, <1>9, <1>10, <1>11, <1>12, <1>13 DEF Parse

\* What no step of the main thread does: it leaves the threads alone, and the history
\* notices a call when it begins.
LEMMA MainEffect ==
    ASSUME Main
    PROVE  /\ Running /\ UNCHANGED <<pc, parser, res>>
           /\ \/ Decoding = {} \/ mainOverlaps'
              \/ mainPc.step # "idle" /\ UNCHANGED overlapVars
           /\ mainOverlaps => mainOverlaps'
           /\ UNCHANGED parsesOverlap
  <1> USE DEF MainAt, threadVars, overlapVars
  <1>1. CASE \E i \in Instances : InitBegin(i) \/ DestroyBegin(i)
    BY <1>1 DEF InitBegin, DestroyBegin, MainOverlaps
  <1>2. ASSUME Running, mainPc.step # "idle", UNCHANGED threadVars, UNCHANGED overlapVars
        PROVE  /\ Running /\ UNCHANGED <<pc, parser, res>>
               /\ \/ Decoding = {} \/ mainOverlaps'
                  \/ mainPc.step # "idle" /\ UNCHANGED overlapVars
               /\ mainOverlaps => mainOverlaps'
               /\ UNCHANGED parsesOverlap
    BY <1>2
  <1>3. ASSUME InitFails \/ InitDone \/ BuildRefused \/ BuildFree \/ BuildAlloc
        PROVE  Running /\ mainPc.step # "idle" /\ UNCHANGED threadVars /\ UNCHANGED overlapVars
    BY <1>3 DEF InitFails, InitDone, NextGroup, BuildRefused, BuildFree, BuildAlloc
  <1>4. ASSUME TakeFrame \/ DisownFrame \/ UnsetRequest \/ EndRequest \/ EndData
        PROVE  Running /\ mainPc.step # "idle" /\ UNCHANGED threadVars /\ UNCHANGED overlapVars
    BY <1>4 DEF TakeFrame, DisownFrame, UnsetRequest, EndRequest, EndData
  <1>5. QED
    BY <1>1, <1>2, <1>3, <1>4 DEF Main

\* Freeing nothing changes nothing.
LEMMA FreeNothing ==
    ASSUME HeapTypes, FreeBlock(NULL)
    PROVE  memory' = memory /\ fault' = fault
  <1>1. memory' = [b \in Blocks |-> IF b \in {NULL} THEN Free ELSE memory[b]] /\ fault' = fault
    BY DEF FreeBlock, FreeBlocks
  <1>2. memory' = [b \in Blocks |-> memory[b]]
    BY <1>1, Zenon DEF HeapTypes
  <1>3. QED
    BY <1>1, <1>2 DEF HeapTypes

\* A step of the main thread, while no thread decodes.
LEMMA MainKeepsRequests ==
    ASSUME TypeOK, RequestInv, Main, ~mainOverlaps'
    PROVE  RequestParts'
  <1>1. /\ Running /\ pc' = pc /\ parser' = parser /\ ~mainOverlaps
        /\ OwnRequests /\ RegsForgotten /\ Parsers /\ MainInv
    BY MainEffect DEF RequestInv, RequestParts
  <1>2. \A t \in Instances : pc[t] = "idle" /\ pc'[t] = "idle"
    BY <1>1, MainEffect DEF MainInv, Decoding
  <1>3. ~(data # NULL /\ memory[data] = Free) /\ HeapTypes
    BY <1>1, <1>2, HeapTyped DEF RegsForgotten
  <1>4. Parsers'
    BY <1>2 DEF Parsers
  <1>5. SUFFICES OwnRequests' /\ RegsForgotten' /\ MainInv'
    BY <1>4 DEF RequestParts
  <1>6. mainPc.step \in Building => mainPc.instance \in Instances
                                    /\ stage[mainPc.instance] = "creating"
    BY <1>1 DEF TypeOK
  <1>7. DOMAIN mainPc = {"step", "instance", "groups"}
    BY DEF TypeOK
  <1> HIDE DEF NULL, Free, Empty, Blocks, Pointers
  <1> USE DEF OwnRequests, RegsForgotten, MainInv, HeapTypes, MainAt, MainGoTo
  <1>8. ASSUME NEW i \in Instances, InitBegin(i)
        PROVE  OwnRequests' /\ RegsForgotten' /\ MainInv'
    BY <1>1, <1>2, <1>3, <1>8 DEF InitBegin
  <1>9. ASSUME NEW i \in Instances, DestroyBegin(i)
        PROVE  OwnRequests' /\ RegsForgotten' /\ MainInv'
    <2>1. /\ frames' = [frames EXCEPT ![i] = {}]
          /\ UNCHANGED <<request, data>> /\ FreeBlocks(frames[i])
          /\ mainPc' = [step |-> "unset", instance |-> i, groups |-> 0]
      BY <1>9 DEF DestroyBegin, masterVars
    <2>2. \A b \in Blocks : b \notin frames[i] => memory'[b] = memory[b]
      BY <1>3, <2>1, FreeAllEffect
    <2>3. \A j \in Instances : \A f \in frames[j] \ {NULL} : j # i => f \notin frames[i]
      <3> SUFFICES ASSUME NEW j \in Instances, NEW f \in frames[j] \ {NULL}, f \in frames[i]
                   PROVE  j = i
        OBVIOUS
      <3>1. memory[f] = j /\ memory[f] = i
        BY <1>1, <1>9 DEF OwnRequests
      <3>2. QED
        BY <3>1
    <2>4. OwnRequests'
      <3> SUFFICES ASSUME NEW j \in Instances, NEW f \in frames'[j], f # NULL
                   PROVE  memory'[f] = j /\ f # data'
        OBVIOUS
      <3>1. j # i /\ f \in frames[j] /\ f \in Blocks
        BY <1>3, <2>1
      <3>2. QED
        BY <1>1, <2>1, <2>2, <2>3, <3>1
    <2>5. data # NULL => data \notin frames[i]
      BY <1>1, <2>1
    <2>6. RegsForgotten'
      BY <1>3, <2>1, <2>2, <2>5
    <2>7. MainInv'
      BY <1>2, <2>1
    <2>8. QED
      BY <2>4, <2>6, <2>7
  <1>10. CASE InitFails
    <2>1. /\ UNCHANGED <<request, data, memory>>
          /\ frames' = [frames EXCEPT ![mainPc.instance] = {}]
          /\ mainPc' = mainPc \/ mainPc' = [mainPc EXCEPT !.step = "unset", !.groups = 0]
          /\ mainPc.step = "build"
      BY <1>10 DEF InitFails, masterVars
    <2>2. MainInv'
      BY <1>1, <1>2, <1>7, <2>1
    <2>3. \A j \in Instances : frames'[j] \subseteq frames[j]
      BY <1>3, <2>1
    <2>4. OwnRequests' /\ RegsForgotten'
      BY <1>1, <1>3, <2>1, <2>3
    <2>5. QED
      BY <2>2, <2>4
  <1>10a. CASE InitDone
    <2>1. /\ UNCHANGED <<request, data, memory, frames>>
          /\ mainPc' = [mainPc EXCEPT !.step = "idle", !.groups = 0]
      BY <1>10a DEF InitDone, masterVars
    <2>2. QED
      BY <1>1, <1>3, <1>7, <2>1
  <1>11. CASE BuildRefused
    BY <1>1, <1>2, <1>3, <1>7, <1>11 DEF BuildRefused, NextGroup, masterVars, instanceVars
  <1>12. CASE BuildFree
    <2>1. request = NULL /\ memory' = memory
      BY <1>1, <1>3, <1>12, FreeNothing DEF BuildFree, NextGroup
    <2>2. QED
      BY <1>1, <1>2, <1>3, <1>7, <1>12, <2>1 DEF BuildFree, NextGroup, masterVars, instanceVars
  <1>13. CASE BuildAlloc
    <2>1. /\ data' = data /\ stage' = stage /\ frames' = frames
          /\ mainPc.step = "alloc" /\ mainPc' = [mainPc EXCEPT !.step = "take"]
      BY <1>13 DEF BuildAlloc, instanceVars
    <2>2. mainPc.instance \in Instances
      BY <1>6, <2>1 DEF Building
    <2>3. CASE HeapFull
      BY <1>1, <1>2, <1>3, <1>7, <1>13, <2>1, <2>3 DEF BuildAlloc
    <2>4. CASE ~HeapFull
      <3>1. PICK block \in Blocks : /\ memory[block] = Free
                                    /\ memory' = [memory EXCEPT ![block] = mainPc.instance]
                                    /\ request' = block
        BY <1>13, <2>4 DEF BuildAlloc, FirstFree
      <3>2. block # data
        BY <1>3, <3>1
      <3>3. \A j \in Instances : block \notin frames[j]
        BY <1>1, <1>3, <3>1, InstanceNotNull
      <3>4. OwnRequests'
        BY <1>1, <1>3, <2>1, <3>1, <3>2, <3>3
      <3>5. RegsForgotten'
        BY <1>3, <2>1, <3>1, <3>2
      <3>6. MainInv'
        BY <1>2, <1>3, <1>7, <2>1, <3>1, <3>2
      <3>7. QED
        BY <3>4, <3>5, <3>6
    <2>5. QED
      BY <2>3, <2>4
  <1>14. CASE TakeFrame
    <2>1. /\ UNCHANGED <<request, data, memory>>
          /\ frames' = [frames EXCEPT ![mainPc.instance] = @ \cup {request}]
          /\ mainPc.step = "take"
          /\ mainPc' = [mainPc EXCEPT !.step = "disown", !.groups = @ + 1]
      BY <1>14 DEF TakeFrame, masterVars
    <2>2. mainPc.instance \in Instances
      BY <1>6, <2>1 DEF Building
    <2>3. mainPc'.step = "disown" /\ mainPc'.instance = mainPc.instance
      BY <1>7, <2>1
    <2>4. /\ request \in frames'[mainPc.instance]
          /\ \A j \in Instances : \A f \in frames'[j] :
                f \in frames[j] \/ (j = mainPc.instance /\ f = request)
      BY <1>3, <2>1, <2>2
    <2>5. OwnRequests'
      BY <1>1, <2>1, <2>4
    <2>6. RegsForgotten'
      BY <1>3, <2>1
    <2>7. MainInv'
      BY <1>1, <1>2, <2>1, <2>3, <2>4
    <2>8. QED
      BY <2>5, <2>6, <2>7
  <1>15. CASE DisownFrame
    <2>1. /\ UNCHANGED <<data, memory, frames>> /\ request' = NULL
          /\ mainPc.step = "disown" /\ mainPc' = [mainPc EXCEPT !.step = "build"]
      BY <1>15 DEF DisownFrame, instanceVars
    <2>2. QED
      BY <1>1, <1>2, <1>3, <1>7, <2>1
  <1>16. CASE UnsetRequest
    BY <1>1, <1>2, <1>3, <1>7, <1>16 DEF UnsetRequest, instanceVars
  <1>17. CASE EndRequest
    <2>1. request = NULL /\ memory' = memory
      BY <1>1, <1>3, <1>17, FreeNothing DEF EndRequest
    <2>2. QED
      BY <1>1, <1>2, <1>3, <1>7, <1>17, <2>1 DEF EndRequest, instanceVars
  <1>18. CASE EndData
    <2>1. /\ data' = NULL /\ stage' = stage /\ frames' = frames
          /\ mainPc' = [mainPc EXCEPT !.step = "idle"]
          /\ FreeBlock(data)
      BY <1>18 DEF EndData, instanceVars
    <2>2. \A b \in Blocks : b # data => memory'[b] = memory[b]
      BY <1>3, <2>1, FreeEffect
    <2>3. QED
      BY <1>1, <1>3, <1>7, <2>1, <2>2
  <1>19. QED
    BY <1>8, <1>9, <1>10, <1>10a, <1>11, <1>12, <1>13, <1>14, <1>15, <1>16, <1>17, <1>18
    DEF Main

\* Until the main thread builds or ends while a thread decodes, RequestParts holds.
LEMMA RequestInvariant == Spec => [](TypeOK /\ RequestInv)
  <1>1. Init => RequestInv
    BY DEF Init, RequestInv, RequestParts, OwnRequests, RegsForgotten, Parsers, MainInv
  <1>2. ASSUME TypeOK, TypeOK', RequestInv, [Next]_vars
        PROVE  RequestInv'
    <2>1. CASE UNCHANGED vars
      BY <1>2, <2>1 DEF RequestInv, RequestParts, OwnRequests, RegsForgotten, Parsers,
         MainInv, vars, masterVars, instanceVars, threadVars, overlapVars
    <2>2. CASE Main
      BY <1>2, <2>2, MainKeepsRequests DEF RequestInv
    <2>3. ASSUME NEW t \in Instances, Parse(t)
          PROVE  RequestInv'
      BY <1>2, <2>3, ParseKeepsRequests DEF RequestInv
    <2>4. QED
      BY <1>2, <2>1, <2>2, <2>3 DEF Next, Undefined, Finished
  <1>3. QED
    BY <1>1, <1>2, MasterTypeCorrect, PTL DEF Spec

\* Threads may decode at once in any order: as long as the main thread leaves the
\* master alone meanwhile, every live instance keeps the request that was built for it.
THEOREM RequestsStay == Spec => []RequestsKept
  <1>1. TypeOK /\ RequestInv => RequestsKept
    BY DEF RequestInv, RequestParts, OwnRequests, RequestsKept
  <1>2. QED
    BY <1>1, RequestInvariant, PTL

-----------------------------------------------------------------------------
\* The part of TypeOK that the proofs about a single decoding thread use beside
\* HeapTypes.
ThreadTypes ==
    /\ DOMAIN res = Instances
    /\ \A t \in Instances : res[t] \in Pointers
    /\ \A t \in Instances : pc[t] # "idle" => stage[t] = "live"

LEMMA ThreadTyped == TypeOK => ThreadTypes
  BY DEF TypeOK, ThreadTypes

\* A step of a thread that is alone: nothing goes wrong and no block is lost.
LEMMA ParseSerial ==
    ASSUME TypeOK, RequestInv, SerialInv, NEW t \in Instances, Parse(t), Serial'
    PROVE  SerialParts' /\ Lost' \subseteq Lost
  <1>1. /\ Serial /\ mainPc.step = "idle"
        /\ \A u \in Instances : u # t => pc[u] = "idle"
    <2>1. CASE ParseBegin(t)
      <3>1. pc[t] = "idle" /\ Decoding = {} /\ ~parsesOverlap /\ ~mainOverlaps
            /\ mainPc.step = "idle"
        BY <2>1 DEF Serial, ParseBegin, ParseOverlaps, At
      <3>2. QED
        BY <3>1 DEF Serial, Decoding
    <2>2. CASE ~ParseBegin(t)
      <3>1. pc[t] # "idle" /\ UNCHANGED overlapVars
        BY <2>2, ParseEffect
      <3>2. Serial
        BY <3>1 DEF Serial, overlapVars
      <3>3. QED
        BY <3>1, <3>2 DEF Serial, RequestInv, RequestParts, MainInv, SerialInv, SerialParts,
           OneDecodes
    <2>3. QED
      BY <2>1, <2>2
  <1>2. /\ stage' = stage /\ frames' = frames /\ mainPc' = mainPc
        /\ HeapTypes /\ ThreadTypes /\ RegsForgotten /\ OwnRequests
        /\ SafeNow /\ OwnedInv /\ \A u \in Instances : DecodeInv(u)
    BY <1>1, ParseEffect, HeapTyped, ThreadTyped DEF Serial, RequestInv, RequestParts,
       SerialInv, SerialParts
  <1>3. Running
    BY DEF Parse, ParseBegin, SetResponse, FreeData, ClearData, CheckUnreadable, CheckFails,
       CheckPasses, AllocData, AllocDataFails, CopyData, TakeRegs, Payload, At
  <1> HIDE DEF NULL, Free, Empty, Blocks, Pointers
  <1> USE DEF HeapTypes, ThreadTypes, At, GoTo, Allocated
  <1>4. ASSUME SafeNow', DecodeInv(t)', request' \in frames[t],
               \A u \in Instances : u # t => pc'[u] = pc[u] /\ res'[u] = res[u]
        PROVE  SerialParts'
    <2>1. \A u \in Instances : u # t => DecodeInv(u)'
      BY <1>1, <1>2, <1>4 DEF DecodeInv
    <2>2. OneDecodes'
      BY <1>1, <1>4 DEF OneDecodes
    <2>3. OwnedInv'
      BY <1>2, <1>4 DEF OwnedInv
    <2>4. QED
      BY <1>4, <2>1, <2>2, <2>3 DEF SerialParts
  <1>5. ASSUME NEW step, pc' = [pc EXCEPT ![t] = step]
        PROVE  pc'[t] = step /\ \A u \in Instances : u # t => pc'[u] = pc[u]
    BY <1>2, <1>5
  <1>6. CASE ParseBegin(t)
    <2>1. /\ pc[t] = "idle" /\ pc' = [pc EXCEPT ![t] = "response"] /\ request' \in frames[t]
          /\ UNCHANGED <<data, memory, parser, res, fault, misread>>
      BY <1>6 DEF ParseBegin
    <2>2. SafeNow' /\ DecodeInv(t)'
      BY <1>2, <1>5, <2>1 DEF SafeNow, DecodeInv
    <2>3. Lost' \subseteq Lost
      BY <1>1, <1>2, <2>1 DEF Lost, OwnedInv
    <2>4. QED
      BY <1>4, <1>5, <2>1, <2>2, <2>3
  <1>7. CASE SetResponse(t)
    <2>1. /\ pc[t] = "response" /\ pc' = [pc EXCEPT ![t] = "free"] /\ response' = t
          /\ UNCHANGED <<request, data, memory, parser, res, fault, misread>>
      BY <1>7 DEF SetResponse
    <2>2. SafeNow' /\ DecodeInv(t)'
      BY <1>2, <1>5, <2>1 DEF SafeNow, DecodeInv
    <2>3. Lost' \subseteq Lost
      BY <1>2, <2>1 DEF Lost
    <2>4. request' \in frames[t]
      BY <1>2, <2>1 DEF DecodeInv
    <2>5. QED
      BY <1>4, <1>5, <2>1, <2>2, <2>3, <2>4
  <1>8. CASE FreeData(t)
    <2>1. /\ pc[t] = "free" /\ pc' = [pc EXCEPT ![t] = "clear"] /\ FreeBlock(data)
          /\ UNCHANGED <<request, response, data, parser, res, misread>>
      BY <1>8 DEF FreeData, masterVars
    <2>2. data = NULL \/ memory[data] # Free
      BY <1>1, <1>2, <2>1 DEF RegsForgotten
    <2>3. /\ fault' = fault /\ \A b \in Blocks : b # data => memory'[b] = memory[b]
          /\ data # NULL => memory'[data] = Free
      BY <1>2, <2>1, <2>2, FreeEffect
    <2>4. SafeNow' /\ DecodeInv(t)'
      BY <1>2, <1>5, <2>1, <2>3 DEF SafeNow, DecodeInv
    <2>5. Lost' \subseteq Lost
      BY <1>2, <2>1, <2>3 DEF Lost
    <2>6. request' \in frames[t]
      BY <1>2, <2>1 DEF DecodeInv
    <2>7. QED
      BY <1>4, <1>5, <2>1, <2>4, <2>5, <2>6
  <1>9. CASE ClearData(t)
    <2>1. /\ pc[t] = "clear" /\ pc' = [pc EXCEPT ![t] = "check"] /\ data' = NULL
          /\ UNCHANGED <<request, response, memory, parser, res, fault, misread>>
      BY <1>9 DEF ClearData
    <2>2. SafeNow' /\ DecodeInv(t)'
      BY <1>2, <1>5, <2>1 DEF SafeNow, DecodeInv
    <2>3. Lost' \subseteq Lost
      BY <1>2, <2>1 DEF Lost, DecodeInv
    <2>4. request' \in frames[t]
      BY <1>2, <2>1 DEF DecodeInv
    <2>5. QED
      BY <1>4, <1>5, <2>1, <2>2, <2>3, <2>4
  <1>10. CASE CheckUnreadable(t)
    <2>1. pc[t] = "check" /\ Unreadable
      BY <1>10 DEF CheckUnreadable
    <2>2. request \in frames[t] /\ response = t
      BY <1>2, <2>1 DEF DecodeInv
    <2>3. request # NULL => memory[request] # Free
      BY <1>2, <2>2, InstanceNotNull DEF OwnRequests
    <2>4. QED
      BY <2>1, <2>2, <2>3 DEF Unreadable
  <1>11. CASE CheckFails(t)
    <2>1. /\ pc[t] = "check" /\ pc' = [pc EXCEPT ![t] = "idle"]
          /\ UNCHANGED <<request, response, data, memory, parser, res, fault, misread>>
      BY <1>11 DEF CheckFails, masterVars
    <2>2. SafeNow' /\ DecodeInv(t)'
      BY <1>2, <1>5, <2>1 DEF SafeNow, DecodeInv
    <2>3. Lost' \subseteq Lost
      BY <1>2, <2>1 DEF Lost
    <2>4. request' \in frames[t]
      BY <1>2, <2>1 DEF DecodeInv
    <2>5. QED
      BY <1>4, <1>5, <2>1, <2>2, <2>3, <2>4
  <1>12. CASE CheckPasses(t)
    <2>1. /\ pc[t] = "check" /\ pc' = [pc EXCEPT ![t] = "alloc"]
          /\ parser' = [parser EXCEPT ![t] = response]
          /\ UNCHANGED <<request, response, data, memory, res, fault, misread>>
      BY <1>12 DEF CheckPasses, masterVars
    <2>2. SafeNow' /\ DecodeInv(t)'
      BY <1>2, <1>5, <2>1 DEF SafeNow, DecodeInv
    <2>3. Lost' \subseteq Lost
      BY <1>2, <2>1 DEF Lost
    <2>4. request' \in frames[t]
      BY <1>2, <2>1 DEF DecodeInv
    <2>5. QED
      BY <1>4, <1>5, <2>1, <2>2, <2>3, <2>4
  <1>13. CASE AllocData(t)
    <2>1. /\ pc[t] = "alloc" /\ pc' = [pc EXCEPT ![t] = "copy"]
          /\ UNCHANGED <<request, response, parser, res, fault, misread>>
      BY <1>13 DEF AllocData
    <2>2. PICK block \in Blocks : /\ memory[block] = Free
                                  /\ memory' = [memory EXCEPT ![block] = Empty]
                                  /\ data' = block
      BY <1>13 DEF AllocData, FirstFree
    <2>3. Empty # Free
      BY DEF Empty, Free
    <2>4. SafeNow' /\ DecodeInv(t)'
      BY <1>2, <1>5, <2>1, <2>2, <2>3 DEF SafeNow, DecodeInv
    <2>5. Lost' \subseteq Lost
      BY <1>2, <2>1, <2>2 DEF Lost, DecodeInv
    <2>6. request' \in frames[t]
      BY <1>2, <2>1 DEF DecodeInv
    <2>7. QED
      BY <1>4, <1>5, <2>1, <2>4, <2>5, <2>6
  <1>14. CASE AllocDataFails(t)
    <2>1. /\ pc[t] = "alloc" /\ pc' = [pc EXCEPT ![t] = "idle"] /\ data' = NULL
          /\ UNCHANGED <<request, response, memory, parser, res, fault, misread>>
      BY <1>14 DEF AllocDataFails
    <2>2. SafeNow' /\ DecodeInv(t)'
      BY <1>2, <1>5, <2>1 DEF SafeNow, DecodeInv
    <2>3. Lost' \subseteq Lost
      BY <1>2, <2>1 DEF Lost, DecodeInv
    <2>4. request' \in frames[t]
      BY <1>2, <2>1 DEF DecodeInv
    <2>5. QED
      BY <1>4, <1>5, <2>1, <2>2, <2>3, <2>4
  <1>15. CASE CopyData(t)
    <2>1. /\ pc[t] = "copy" /\ pc' = [pc EXCEPT ![t] = "take"]
          /\ UNCHANGED <<request, response, data, parser, res, misread>>
      BY <1>15 DEF CopyData, masterVars
    <2>2. Allocated(data) /\ parser[t] = t
      BY <1>2, <2>1 DEF DecodeInv
    <2>3. memory' = [memory EXCEPT ![data] = t] /\ fault' = fault
      BY <1>15, <2>2 DEF CopyData
    <2>4. t # Free /\ data \in Blocks
      BY <1>2, <2>2, InstanceNotNull
    <2>5. SafeNow' /\ DecodeInv(t)'
      BY <1>2, <1>5, <2>1, <2>2, <2>3, <2>4 DEF SafeNow, DecodeInv
    <2>6. Lost' \subseteq Lost
      BY <1>2, <2>1, <2>3 DEF Lost
    <2>7. request' \in frames[t]
      BY <1>2, <2>1 DEF DecodeInv
    <2>8. QED
      BY <1>4, <1>5, <2>1, <2>5, <2>6, <2>7
  <1>16. CASE TakeRegs(t)
    <2>1. /\ pc[t] = "take" /\ pc' = [pc EXCEPT ![t] = "payload"]
          /\ res' = [res EXCEPT ![t] = data]
          /\ UNCHANGED <<request, response, data, memory, parser, fault, misread>>
      BY <1>16 DEF TakeRegs, masterVars
    <2>2. SafeNow' /\ DecodeInv(t)'
      BY <1>2, <1>5, <2>1 DEF SafeNow, DecodeInv
    <2>3. Lost' \subseteq Lost
      BY <1>2, <2>1 DEF Lost, DecodeInv
    <2>4. request' \in frames[t] /\ \A u \in Instances : u # t => res'[u] = res[u]
      BY <1>2, <2>1 DEF DecodeInv
    <2>5. QED
      BY <1>4, <1>5, <2>1, <2>2, <2>3, <2>4
  <1>17. CASE Payload(t)
    <2>1. /\ pc[t] = "payload" /\ pc' = [pc EXCEPT ![t] = "idle"]
          /\ res' = [res EXCEPT ![t] = NULL]
          /\ UNCHANGED <<request, response, data, memory>>
      BY <1>17 DEF Payload, masterVars
    <2>2. res[t] = data /\ Allocated(data) /\ memory[data] = t
      BY <1>2, <2>1 DEF DecodeInv
    <2>3. SafeNow'
      BY <1>2, <1>17, <2>2 DEF SafeNow, Payload
    <2>4. DecodeInv(t)'
      BY <1>2, <1>5, <2>1 DEF DecodeInv
    <2>5. Lost' \subseteq Lost
      BY <1>2, <2>1, <2>2 DEF Lost
    <2>6. request' \in frames[t] /\ \A u \in Instances : u # t => res'[u] = res[u]
      BY <1>2, <2>1 DEF DecodeInv
    <2>7. QED
      BY <1>4, <1>5, <2>1, <2>3, <2>4, <2>5, <2>6
  <1>18. QED
    BY <1>6, <1>7, <1>8, <1>9, <1>10, <1>11, <1>12, <1>13, <1>14, <1>15, <1>16, <1>17
    DEF Parse

\* A step of the main thread while no thread decodes: nothing goes wrong but the list
\* that was never assigned, and modbus_init alone loses blocks: the registers' when it
\* begins, and the requests built so far when it fails.
LEMMA MainSerial ==
    ASSUME TypeOK, RequestInv, SerialInv, Main, Serial'
    PROVE  /\ SerialParts'
           /\ \E more :
                 /\ Lost' \subseteq Lost \cup more /\ IsFiniteSet(more)
                 /\ inits' + abandoned' = inits + abandoned + Cardinality(more)
  <1>1. Serial /\ Running /\ UNCHANGED <<pc, parser, res>>
    BY MainEffect DEF Serial
  <1>2. /\ HeapTypes /\ ThreadTypes /\ RegsForgotten /\ OwnRequests /\ MainInv
        /\ SafeNow /\ OwnedInv /\ \A t \in Instances : DecodeInv(t)
    BY <1>1, HeapTyped, ThreadTyped DEF Serial, RequestInv, RequestParts, SerialInv,
       SerialParts
  <1>3. \A t \in Instances : pc[t] = "idle" /\ res[t] = NULL /\ res'[t] = NULL
    BY <1>1, <1>2, MainEffect DEF Serial, MainInv, Decoding, DecodeInv
  <1>4. data = NULL \/ memory[data] # Free
    BY <1>2, <1>3 DEF RegsForgotten
  <1>5. mainPc.step \in Building => mainPc.instance \in Instances
                                    /\ stage[mainPc.instance] = "creating"
    BY <1>1 DEF TypeOK
  <1>6. DOMAIN mainPc = {"step", "instance", "groups"}
    BY DEF TypeOK
  <1>7. OneDecodes' /\ \A t \in Instances : DecodeInv(t)'
    BY <1>1, <1>3 DEF OneDecodes, DecodeInv
  <1>8. SUFFICES /\ SafeNow' /\ OwnedInv'
                 /\ \/ Lost' \subseteq Lost /\ UNCHANGED countVars
                    \/ /\ Lost' \subseteq Lost \cup {data}
                       /\ inits' = inits + 1 /\ abandoned' = abandoned
                    \/ LET list == frames[mainPc.instance] \ {NULL}
                       IN  /\ Lost' \subseteq Lost \cup list /\ IsFiniteSet(list)
                           /\ inits' = inits /\ abandoned' = abandoned + Cardinality(list)
    <2>1. inits \in Nat /\ abandoned \in Nat
      <3>1. inits \in 0 .. MaxInits /\ abandoned \in Nat
        BY DEF TypeOK
      <3>2. QED
        BY <3>1
    <2>2. CASE Lost' \subseteq Lost /\ UNCHANGED countVars
      <3>1. Lost' \subseteq Lost \cup {} /\ IsFiniteSet({}) /\ Cardinality({}) = 0
        BY <2>2, FS_EmptySet
      <3>2. inits' + abandoned' = inits + abandoned + Cardinality({})
        BY <2>1, <2>2, <3>1 DEF countVars
      <3>3. QED
        BY <1>7, <1>8, <3>1, <3>2, Zenon DEF SerialParts
    <2>3. CASE /\ Lost' \subseteq Lost \cup {data}
               /\ inits' = inits + 1 /\ abandoned' = abandoned
      <3>1. IsFiniteSet({data}) /\ Cardinality({data}) = 1
        BY FS_Singleton
      <3>2. inits' + abandoned' = inits + abandoned + Cardinality({data})
        BY <2>1, <2>3, <3>1
      <3>3. QED
        BY <1>7, <1>8, <2>3, <3>1, <3>2, Zenon DEF SerialParts
    <2>4. ASSUME NEW list, Lost' \subseteq Lost \cup list, IsFiniteSet(list),
                 inits' = inits, abandoned' = abandoned + Cardinality(list)
          PROVE  \E more :
                    /\ Lost' \subseteq Lost \cup more /\ IsFiniteSet(more)
                    /\ inits' + abandoned' = inits + abandoned + Cardinality(more)
      <3>1. Cardinality(list) \in Nat
        BY <2>4, FS_CardinalityType
      <3>2. inits' + abandoned' = inits + abandoned + Cardinality(list)
        BY <2>1, <2>4, <3>1
      <3>3. QED
        BY <2>4, <3>2, Zenon
    <2>5. QED
      BY <1>7, <1>8, <2>2, <2>3, <2>4, Zenon DEF SerialParts
  <1> HIDE DEF NULL, Free, Empty, Blocks, Pointers
  <1> USE DEF HeapTypes, MainAt, MainGoTo, Allocated, SafeNow, OwnedInv
  <1>9. ASSUME NEW i \in Instances, InitBegin(i)
        PROVE  /\ SafeNow' /\ OwnedInv'
               /\ Lost' \subseteq Lost \cup {data}
               /\ inits' = inits + 1 /\ abandoned' = abandoned
    <2>1. /\ mainPc.step = "idle" /\ stage[i] = "none" /\ inits' = inits + 1
          /\ request' = NULL /\ data' = NULL
          /\ stage' = [stage EXCEPT ![i] = "creating"]
          /\ mainPc' = [step |-> "build", instance |-> i, groups |-> 0]
          /\ UNCHANGED <<memory, frames, abandoned, fault, misread>>
      BY <1>9 DEF InitBegin
    <2>2. SafeNow' /\ OwnedInv'
      BY <1>2, <2>1
    <2>3. Lost' \subseteq Lost \cup {data}
      BY <1>1, <1>2, <2>1 DEF Lost
    <2>4. QED
      BY <2>1, <2>2, <2>3
  <1>10. ASSUME NEW i \in Instances, DestroyBegin(i)
         PROVE  SafeNow' /\ OwnedInv' /\ Lost' \subseteq Lost /\ UNCHANGED countVars
    <2>1. /\ mainPc.step = "idle" /\ FreeBlocks(frames[i])
          /\ frames' = [frames EXCEPT ![i] = {}]
          /\ mainPc' = [step |-> "unset", instance |-> i, groups |-> 0]
          /\ UNCHANGED <<request, data, countVars, misread>>
      BY <1>10 DEF DestroyBegin, masterVars
    <2>2. frames[i] \in SUBSET Pointers /\ \A b \in frames[i] : b = NULL \/ memory[b] # Free
      BY <1>2, InstanceNotNull DEF OwnRequests
    <2>3. /\ fault' = fault /\ \A b \in Blocks : b \notin frames[i] => memory'[b] = memory[b]
          /\ \A b \in frames[i] : b # NULL => memory'[b] = Free
      BY <2>1, <2>2, FreeAllEffect
    <2>4. SafeNow'
      BY <1>2, <2>1, <2>3
    <2>5. OwnedInv'
      BY <1>2, <2>1, <2>3
    <2>6. Lost' \subseteq Lost
      <3> SUFFICES ASSUME NEW b \in Lost'  PROVE b \in Lost
        OBVIOUS
      <3>1. /\ b \in Blocks /\ memory'[b] # Free /\ b # request /\ b # data
            /\ \A j \in Instances : b \notin frames'[j]
            /\ \A j \in Instances : b # res[j]
        <4>1. UNCHANGED res
          BY <1>10 DEF DestroyBegin, threadVars
        <4> QED  BY <2>1, <4>1 DEF Lost
      <3>2. b \notin frames[i] /\ memory[b] # Free
        BY <1>2, <2>3, <3>1
      <3>3. \A j \in Instances : b \notin frames[j]
        BY <1>2, <2>1, <3>1, <3>2
      <3> QED  BY <3>1, <3>2, <3>3 DEF Lost
    <2>7. QED
      BY <2>1, <2>4, <2>5, <2>6
  <1>11. CASE InitFails
    <2>1. /\ mainPc.step = "build"
          /\ \/ mainPc' = [mainPc EXCEPT !.step = "unset", !.groups = 0] /\ fault' = fault
             \/ mainPc' = mainPc /\ fault' = "uninitialised list"
          /\ frames' = [frames EXCEPT ![mainPc.instance] = {}]
          /\ abandoned' = abandoned + Cardinality(frames[mainPc.instance] \ {NULL})
          /\ UNCHANGED <<request, data, memory, inits, misread>>
      BY <1>11 DEF InitFails, masterVars
    <2>2. mainPc.instance \in Instances /\ request = NULL
      BY <1>2, <1>5, <2>1 DEF Building, MainInv
    <2>3. SafeNow' /\ OwnedInv'
      BY <1>2, <2>1, <2>2
    <2>4. Lost' \subseteq Lost \cup (frames[mainPc.instance] \ {NULL})
      BY <1>1, <1>2, <2>1, <2>2 DEF Lost
    <2>5. IsFiniteSet(frames[mainPc.instance] \ {NULL})
      BY <2>2, ListFinite
    <2>6. QED
      BY <2>1, <2>3, <2>4, <2>5
  <1>11a. CASE InitDone
    <2>1. /\ mainPc.step = "build" /\ mainPc' = [mainPc EXCEPT !.step = "idle", !.groups = 0]
          /\ UNCHANGED <<request, data, memory, frames, countVars, fault, misread>>
      BY <1>11a DEF InitDone, masterVars
    <2>2. SafeNow' /\ OwnedInv'
      BY <1>2, <1>6, <2>1
    <2>3. Lost' \subseteq Lost
      BY <1>1, <2>1 DEF Lost
    <2>4. QED
      BY <2>1, <2>2, <2>3
  <1>12. CASE BuildRefused
    <2>1. /\ mainPc.step = "build" /\ mainPc' = [mainPc EXCEPT !.step = "take"]
          /\ UNCHANGED <<request, data, memory, stage, frames, countVars, fault, misread>>
      BY <1>12 DEF BuildRefused, NextGroup, masterVars, instanceVars
    <2>2. SafeNow' /\ OwnedInv'
      BY <1>2, <1>6, <2>1
    <2>3. Lost' \subseteq Lost
      BY <1>1, <2>1 DEF Lost
    <2>4. QED
      BY <2>1, <2>2, <2>3
  <1>13. CASE BuildFree
    <2>1. /\ mainPc.step = "build" /\ mainPc' = [mainPc EXCEPT !.step = "alloc"]
          /\ FreeBlock(request)
          /\ UNCHANGED <<request, data, stage, frames, countVars, misread>>
      BY <1>13 DEF BuildFree, NextGroup, masterVars, instanceVars
    <2>2. memory' = memory /\ fault' = fault /\ request = NULL
      BY <1>2, <2>1, FreeNothing DEF MainInv
    <2>3. SafeNow' /\ OwnedInv'
      BY <1>2, <1>6, <2>1, <2>2
    <2>4. Lost' \subseteq Lost
      BY <1>1, <2>1, <2>2 DEF Lost
    <2>5. QED
      BY <2>1, <2>3, <2>4
  <1>14. CASE BuildAlloc
    <2>1. /\ mainPc.step = "alloc" /\ mainPc' = [mainPc EXCEPT !.step = "take"]
          /\ UNCHANGED <<data, stage, frames, countVars, fault, misread>>
      BY <1>14 DEF BuildAlloc, instanceVars
    <2>2. request = NULL
      BY <1>2, <2>1 DEF MainInv
    <2>3. SafeNow' /\ OwnedInv'
      BY <1>2, <1>6, <2>1
    <2>4. \/ memory' = memory /\ request' = NULL
          \/ \E block \in Blocks : /\ memory' = [memory EXCEPT ![block] = mainPc.instance]
                                   /\ request' = block
      BY <1>14 DEF BuildAlloc
    <2>5. Lost' \subseteq Lost
      BY <1>1, <1>2, <2>1, <2>2, <2>4 DEF Lost
    <2>6. QED
      BY <2>1, <2>3, <2>5
  <1>15. CASE TakeFrame
    <2>1. /\ mainPc.step = "take"
          /\ frames' = [frames EXCEPT ![mainPc.instance] = @ \cup {request}]
          /\ UNCHANGED <<request, data, memory, countVars, fault, misread>>
      BY <1>15 DEF TakeFrame, masterVars
    <2>2. mainPc.instance \in Instances
      BY <1>5, <2>1 DEF Building
    <2>3. \A i \in Instances : frames[i] \subseteq frames'[i]
      BY <1>2, <2>1
    <2>4. SafeNow' /\ OwnedInv'
      BY <1>2, <2>1, <2>2
    <2>5. Lost' \subseteq Lost
      BY <1>1, <2>1, <2>3 DEF Lost
    <2>6. QED
      BY <2>1, <2>4, <2>5
  <1>16. CASE DisownFrame
    <2>1. /\ mainPc.step = "disown" /\ request' = NULL
          /\ UNCHANGED <<data, memory, frames, countVars, fault, misread>>
      BY <1>16 DEF DisownFrame, instanceVars
    <2>2. mainPc.instance \in Instances /\ request \in frames[mainPc.instance]
      BY <1>2, <1>5, <2>1 DEF Building, MainInv
    <2>3. SafeNow' /\ OwnedInv'
      BY <1>2, <2>1
    <2>4. Lost' \subseteq Lost
      BY <1>1, <1>2, <2>1, <2>2 DEF Lost
    <2>5. QED
      BY <2>1, <2>3, <2>4
  <1>17. CASE UnsetRequest
    <2>1. /\ mainPc.step = "unset" /\ mainPc' = [mainPc EXCEPT !.step = "end request"]
          /\ request' = NULL
          /\ UNCHANGED <<data, memory, stage, frames, countVars, fault, misread>>
      BY <1>17 DEF UnsetRequest, instanceVars
    <2>2. SafeNow' /\ OwnedInv'
      BY <1>2, <1>6, <2>1
    <2>3. Lost' \subseteq Lost
      BY <1>1, <1>2, <2>1 DEF Lost
    <2>4. QED
      BY <2>1, <2>2, <2>3
  <1>18. CASE EndRequest
    <2>1. /\ mainPc.step = "end request" /\ mainPc' = [mainPc EXCEPT !.step = "end data"]
          /\ FreeBlock(request) /\ request' = NULL
          /\ UNCHANGED <<data, stage, frames, countVars, misread>>
      BY <1>18 DEF EndRequest, instanceVars
    <2>2. memory' = memory /\ fault' = fault /\ request = NULL
      BY <1>2, <2>1, FreeNothing DEF MainInv
    <2>3. SafeNow' /\ OwnedInv'
      BY <1>2, <1>6, <2>1, <2>2
    <2>4. Lost' \subseteq Lost
      BY <1>1, <2>1, <2>2 DEF Lost
    <2>5. QED
      BY <2>1, <2>3, <2>4
  <1>19. CASE EndData
    <2>1. /\ mainPc.step = "end data" /\ mainPc' = [mainPc EXCEPT !.step = "idle"]
          /\ FreeBlock(data) /\ data' = NULL
          /\ UNCHANGED <<request, stage, frames, countVars, misread>>
      BY <1>19 DEF EndData, instanceVars
    <2>2. /\ fault' = fault /\ \A b \in Blocks : b # data => memory'[b] = memory[b]
          /\ data # NULL => memory'[data] = Free
      BY <1>2, <1>4, <2>1, FreeEffect
    <2>3. SafeNow'
      BY <1>2, <2>1, <2>2
    <2>4. OwnedInv'
      BY <1>2, <1>6, <2>1, <2>2
    <2>5. Lost' \subseteq Lost
      BY <1>1, <2>1, <2>2 DEF Lost
    <2>6. QED
      BY <2>1, <2>3, <2>4, <2>5
  <1>20. QED
    BY <1>9, <1>10, <1>11, <1>11a, <1>12, <1>13, <1>14, <1>15, <1>16, <1>17, <1>18, <1>19
    DEF Main

\* Until two calls overlap, SerialParts holds, and the blocks that are lost are no more
\* than the calls of modbus_init and the requests it has dropped.
MasterInv == TypeOK /\ RequestInv /\ SerialInv /\ LostByInitAlone

LEMMA MasterInvariant == Spec => []MasterInv
  <1>1. Init => SerialInv /\ LostByInitAlone
    <2> SUFFICES ASSUME Init PROVE SerialInv /\ LostByInitAlone
      OBVIOUS
    <2>1. SerialInv
      BY DEF Init, SerialInv, SerialParts, SafeNow, OneDecodes, OwnedInv, Allocated, DecodeInv
    <2>2. Lost = {}
      BY DEF Init, Lost
    <2>3. QED
      BY <2>1, <2>2, FS_EmptySet DEF Init, LostByInitAlone
  <1>2. ASSUME MasterInv, TypeOK', RequestInv', [Next]_vars
        PROVE  SerialInv' /\ LostByInitAlone'
    <2>1. CASE UNCHANGED vars
      <3>1. SerialInv'
        BY <1>2, <2>1 DEF MasterInv, SerialInv, SerialParts, SafeNow, OneDecodes, OwnedInv,
           Allocated, DecodeInv, Serial, vars, masterVars, instanceVars, threadVars,
           countVars, overlapVars
      <3>2. LostByInitAlone'
        BY <1>2, <2>1 DEF MasterInv, LostByInitAlone, Lost, vars, masterVars, instanceVars,
           threadVars, countVars, overlapVars
      <3>3. QED
        BY <3>1, <3>2
    <2>2. ASSUME Serial, NEW more, Lost' \subseteq Lost \cup more, IsFiniteSet(more),
                 inits' + abandoned' = inits + abandoned + Cardinality(more)
          PROVE  Cardinality(Lost)' <= inits' + abandoned'
      <3>1. IsFiniteSet(Blocks)
        BY MasterAssumption, FS_Interval DEF Blocks
      <3>2. IsFiniteSet(Lost)
        BY <3>1, FS_Subset DEF Lost
      <3>3. /\ IsFiniteSet(Lost \cup more) /\ IsFiniteSet(Lost \cap more)
            /\ Cardinality(Lost \cup more) =
                  Cardinality(Lost) + Cardinality(more) - Cardinality(Lost \cap more)
        BY <2>2, <3>2, FS_Union, FS_Intersection
      <3>4. IsFiniteSet(Lost') /\ Cardinality(Lost') <= Cardinality(Lost \cup more)
        BY <2>2, <3>3, FS_Subset
      <3>5. Cardinality(Lost) <= inits + abandoned
        BY <1>2, <2>2 DEF MasterInv, LostByInitAlone, Serial
      <3>6. /\ Cardinality(Lost) \in Nat /\ Cardinality(Lost') \in Nat
            /\ Cardinality(more) \in Nat /\ Cardinality(Lost \cap more) \in Nat
        BY <2>2, <3>2, <3>3, <3>4, FS_CardinalityType
      <3>7. inits \in Nat /\ abandoned \in Nat
        <4>1. inits \in 0 .. MaxInits /\ abandoned \in Nat
          BY <1>2 DEF MasterInv, TypeOK
        <4>2. QED
          BY <4>1
      <3>8. QED
        BY <2>2, <3>3, <3>4, <3>5, <3>6, <3>7
    <2>3. CASE Main
      <3>1. ASSUME Serial'
            PROVE  SerialParts' /\ Cardinality(Lost)' <= inits' + abandoned'
        <4>1. Serial
          BY <2>3, <3>1, MainEffect DEF Serial
        <4>2. /\ SerialParts'
              /\ \E more :
                    /\ Lost' \subseteq Lost \cup more /\ IsFiniteSet(more)
                    /\ inits' + abandoned' = inits + abandoned + Cardinality(more)
          BY <1>2, <2>3, <3>1, MainSerial DEF MasterInv
        <4>3. QED
          BY <2>2, <4>1, <4>2, Zenon
      <3>2. QED
        BY <3>1 DEF SerialInv, LostByInitAlone, Serial
    <2>4. ASSUME NEW t \in Instances, Parse(t)
          PROVE  SerialInv' /\ LostByInitAlone'
      <3>1. ASSUME Serial'
            PROVE  SerialParts' /\ Cardinality(Lost)' <= inits' + abandoned'
        <4>1. Serial
          BY <2>4, <3>1, ParseEffect DEF Serial, overlapVars, ParseBegin, ParseOverlaps
        <4>2. SerialParts' /\ Lost' \subseteq Lost \cup {}
          BY <1>2, <2>4, <3>1, ParseSerial DEF MasterInv
        <4>3. IsFiniteSet({}) /\ Cardinality({}) = 0
          BY FS_EmptySet
        <4>4. inits' + abandoned' = inits + abandoned + Cardinality({})
          <5>1. inits \in 0 .. MaxInits /\ abandoned \in Nat
            BY <1>2 DEF MasterInv, TypeOK
          <5>2. inits' = inits /\ abandoned' = abandoned
            BY <2>4, ParseEffect
          <5>3. QED
            BY <4>3, <5>1, <5>2
        <4>5. QED
          BY <2>2, <4>1, <4>2, <4>3, <4>4
      <3>2. QED
        BY <3>1 DEF SerialInv, LostByInitAlone, Serial
    <2>5. QED
      BY <1>2, <2>1, <2>3, <2>4 DEF Next, Undefined, Finished
  <1>3. QED
    BY <1>1, <1>2, RequestInvariant, PTL DEF Spec, MasterInv

\* As long as no two calls overlap, no sequence of models, answers and removals frees
\* a block twice, uses one that is freed, or publishes another meter's registers.
THEOREM SerialIsSafe == Spec => []SafeIfSerial
  <1>1. MasterInv => SafeIfSerial
    BY DEF MasterInv, SerialInv, SerialParts, SafeNow, Serial, SafeIfSerial
  <1>2. QED
    BY <1>1, MasterInvariant, PTL

\* As long as no two calls overlap, no answer and no removal loses memory: a model costs
\* the registers of the answer before it, and one that cannot be read to its end also
\* the requests of its groups that could.
THEOREM SerialLosesByInitAlone == Spec => []LostByInitAlone
  <1>1. MasterInv => LostByInitAlone
    BY DEF MasterInv
  <1>2. QED
    BY <1>1, MasterInvariant, PTL

=============================================================================
