-------------------------- MODULE ChannelMapProofs --------------------------
(***************************************************************************)
(* What TLAPS proves of ChannelMap, for lists of channels and models of    *)
(* any length and for any number of messages from the broker, and of       *)
(* AcquisitionTask, what one thread of the table does, for any requests,   *)
(* intervals and timeouts.                                                 *)
(***************************************************************************)
EXTENDS ChannelMap, AcquisitionTask, FiniteSetTheorems, SequenceTheorems, TLAPS

\* What the table itself promises: it is as long as a list may be, its channels
\* are open and its own, its instances are alive, and two channels have one
\* instance only if they have one name.
TableInv ==
    /\ Len(g_pm_map_list) <= MaxLength
    /\ \A i \in Indices : /\ g_pm_map_list[i].xio_handle \in open
                          /\ g_pm_map_list[i].pm_handle \notin destroyed
    /\ \A i, j \in Indices :
          /\ g_pm_map_list[i].xio_handle = g_pm_map_list[j].xio_handle => i = j
          /\ g_pm_map_list[i].pm_handle # 0
                /\ g_pm_map_list[i].pm_handle = g_pm_map_list[j].pm_handle
             => g_pm_map_list[i].key_word = g_pm_map_list[j].key_word

\* Every running thread has the channel and the instance of one entry, and no
\* entry has two.
ThreadInv ==
    /\ \A t \in threads : \E i \in Indices :
          /\ g_pm_map_list[i].xio_handle = t.xio_handle
          /\ g_pm_map_list[i].pm_handle = t.pm_handle
    /\ \A t, u \in threads : t.xio_handle = u.xio_handle => t = u

OpenInv == ~g_channel_parse_error => open = ChannelsOf(Indices)

MapInv == TypeOK /\ TableInv /\ ThreadInv /\ OpenInv /\ SafeUnlessShared

-----------------------------------------------------------------------------
\* When every entry's thread has been joined no thread is left.
LEMMA AllJoined ==
    ASSUME ThreadInv
    PROVE  Joined(Indices) = {}
  BY DEF ThreadInv, Joined, ChannelsOf

\* The entries are those that the type of the table says.
LEMMA Entries ==
    ASSUME TypeOK
    PROVE  /\ Indices = 1 .. Len(g_pm_map_list)
           /\ Len(g_pm_map_list) \in Nat
           /\ \A i \in Indices :
                /\ g_pm_map_list[i].xio_handle \in 1 .. channels
                /\ g_pm_map_list[i].pm_handle \in 0 .. instances
                /\ g_pm_map_list[i].task_thread \in {"NULL", "valid", "joined"}
                /\ g_pm_map_list[i].key_word \in Names
                /\ g_pm_map_list[i] \in PmChannelMaps
  <1>1. Len(g_pm_map_list) \in Nat /\ Indices = 1 .. Len(g_pm_map_list)
        /\ g_pm_map_list \in [1 .. Len(g_pm_map_list) -> PmChannelMaps]
    BY LenProperties DEF TypeOK, Indices
  <1>2. QED
    BY <1>1 DEF PmChannelMaps

\* The channels and instances of some entries have been created.
LEMMA Created ==
    ASSUME TypeOK, NEW maps \in SUBSET Indices
    PROVE  /\ ChannelsOf(maps) \subseteq 1 .. channels
           /\ InstancesOf(maps) \subseteq 1 .. instances
  <1>1. ASSUME NEW i \in maps
        PROVE  /\ g_pm_map_list[i].xio_handle \in 1 .. channels
               /\ g_pm_map_list[i].pm_handle \in 0 .. instances
    BY Entries
  <1>2. instances \in Nat
    BY DEF TypeOK
  <1>3. QED
    BY <1>1, <1>2 DEF ChannelsOf, InstancesOf

\* A table that is destroyed and replaced by none leaves nothing behind.
LEMMA Emptied ==
    ASSUME MapInv, MapListDestroy({}), g_pm_map_list' = <<>>,
           UNCHANGED <<channels, instances, g_channel_parse_error>>
    PROVE  /\ g_pm_map_list' \in Seq(PmChannelMaps')
           /\ open' \subseteq 1 .. channels'
           /\ destroyed' \subseteq 1 .. instances'
           /\ threads' = {}
           /\ TableInv' /\ ThreadInv' /\ OpenInv'
  <1>1. threads' = {}
    BY AllJoined DEF MapInv, MapListDestroy
  <1>2. destroyed' \subseteq 1 .. instances'
    BY Created DEF MapInv, TypeOK, MapListDestroy
  <1>3. open' \subseteq 1 .. channels'
    BY DEF MapInv, TypeOK, MapListDestroy
  <1>4. OpenInv'
    BY DEF MapInv, OpenInv, MapListDestroy, ChannelsOf, Indices
  <1>5. ThreadInv'
    BY <1>1 DEF ThreadInv
  <1>6. TableInv'
    BY MapAssumption DEF TableInv, Indices
  <1>7. QED
    BY <1>1, <1>2, <1>3, <1>4, <1>5, <1>6

\* A list of channels that arrives.
LEMMA ChannelsKeep ==
    ASSUME MapInv, NEW names \in Lists(Names), NEW opened \in 0 .. Len(names),
           ReceiveChannels(names, opened)
    PROVE  MapInv'
  <1> USE MapAssumption
  <1>1. Len(names) \in 0 .. MaxLength /\ names \in [1 .. Len(names) -> Names]
        /\ DOMAIN names = 1 .. Len(names)
    <2>1. PICK n \in 0 .. MaxLength : names \in [1 .. n -> Names]
      BY DEF Lists
    <2>2. names \in Seq(Names) /\ Len(names) = n
      BY <2>1
    <2>3. QED
      BY <2>1, <2>2
  <1>2. channels \in Nat /\ channels' = channels + opened /\ instances' = instances
        /\ instances \in Nat
    BY DEF MapInv, TypeOK, ReceiveChannels
  <1>3. threads' = {}
    BY AllJoined DEF MapInv, MapListDestroy, ReceiveChannels
  <1>4. destroyed' \subseteq 1 .. instances'
    <2>1. destroyed' = destroyed \cup InstancesOf(Indices)
      BY DEF ReceiveChannels, MapListDestroy
    <2>2. QED
      BY <1>2, <2>1, Created DEF MapInv, TypeOK
  <1>5. open' \subseteq 1 .. channels'
    <2>1. open' = (open \ ChannelsOf(Indices)) \cup (channels + 1) .. (channels + opened)
      BY DEF ReceiveChannels, MapListDestroy, OpenedChannels
    <2>2. open \subseteq 1 .. channels
      BY DEF MapInv, TypeOK
    <2>3. opened \in Nat
      BY <1>1
    <2>4. ASSUME NEW c \in open'
          PROVE  c \in 1 .. channels'
      <3>1. c \in 1 .. channels \/ c \in (channels + 1) .. (channels + opened)
        BY <2>1, <2>2
      <3>2. QED
        BY <1>2, <2>3, <3>1
    <2>5. QED
      BY <2>4
  <1>6. g_channel_parse_error' \in BOOLEAN /\ listed' \in BOOLEAN
    BY DEF ReceiveChannels
  <1>7. CASE ~listed'
    <2>1. g_pm_map_list' = <<>> /\ g_channel_parse_error'
      BY <1>6, <1>7 DEF ReceiveChannels
    <2>2. g_pm_map_list' \in Seq(PmChannelMaps')
      BY <2>1
    <2>3. TypeOK'
      BY <1>2, <1>3, <1>4, <1>5, <1>6, <2>2 DEF TypeOK, ReceiveChannels, Receiving, MapInv
    <2>4. TableInv' /\ ThreadInv' /\ OpenInv'
      BY <1>3, <2>1 DEF TableInv, ThreadInv, OpenInv, Indices
    <2>5. QED
      BY <2>3, <2>4 DEF MapInv, SafeUnlessShared, ReceiveChannels, Receiving
  <1>8. CASE listed'
    <2>1. /\ g_pm_map_list' = [k \in 1 .. Len(names) |-> NewMap(names[k], k)]
          /\ opened = Len(names) /\ ~g_channel_parse_error' /\ ~g_channel_parse_error
      <3>1. g_pm_map_list' = [k \in DOMAIN names |-> NewMap(names[k], k)]
        BY <1>8 DEF ReceiveChannels
      <3>2. ~g_channel_parse_error'
        BY <1>6, <1>8 DEF ReceiveChannels
      <3>3. ~g_channel_parse_error /\ ~(opened < Len(names))
        BY <3>2 DEF ReceiveChannels
      <3>4. opened = Len(names)
        <4>1. ASSUME NEW n \in Nat, NEW k \in 0 .. n, ~(k < n)
              PROVE  k = n
          BY <4>1
        <4>2. Len(names) \in Nat
          BY <1>1
        <4>3. QED
          BY <3>3, <4>1, <4>2
      <3>5. g_pm_map_list' = [k \in 1 .. Len(names) |-> NewMap(names[k], k)]
        BY <1>1, <3>1, Zenon
      <3>6. QED
        BY <3>2, <3>3, <3>4, <3>5
    <2>2. /\ Indices' = 1 .. Len(names)
          /\ \A k \in 1 .. Len(names) : 
                /\ g_pm_map_list'[k].xio_handle = channels + k
                /\ g_pm_map_list'[k].pm_handle = 0
                /\ g_pm_map_list'[k].key_word = names[k]
                /\ g_pm_map_list'[k] \in PmChannelMaps'
      BY <1>1, <1>2, <2>1 DEF Indices, NewMap, PmChannelMaps
    <2>3. g_pm_map_list' \in Seq(PmChannelMaps') /\ Len(g_pm_map_list') = Len(names)
      BY <1>1, <2>1, <2>2
    <2>4. TypeOK'
      BY <1>2, <1>3, <1>4, <1>5, <1>6, <2>3 DEF TypeOK, ReceiveChannels, Receiving, MapInv
    <2>5. open' = (channels + 1) .. (channels + opened)
      BY <2>1 DEF MapInv, OpenInv, ReceiveChannels, MapListDestroy, OpenedChannels
    <2>6. TableInv'
      BY <1>1, <1>2, <1>4, <2>1, <2>2, <2>3, <2>5 DEF TableInv
    <2>7. OpenInv'
      <3>1. ChannelsOf(Indices)' = {channels + k : k \in 1 .. Len(names)}
        BY <2>2 DEF ChannelsOf
      <3>2. {channels + k : k \in 1 .. Len(names)} = (channels + 1) .. (channels + opened)
        <4>1. ASSUME NEW c \in (channels + 1) .. (channels + opened)
              PROVE  c - channels \in 1 .. Len(names) /\ c = channels + (c - channels)
          BY <1>1, <1>2, <2>1
        <4>2. ASSUME NEW k \in 1 .. Len(names)
              PROVE  channels + k \in (channels + 1) .. (channels + opened)
          BY <1>1, <1>2, <2>1
        <4>3. QED
          BY <4>1, <4>2
      <3>3. QED
        BY <2>5, <3>1, <3>2 DEF OpenInv
    <2>8. QED
      BY <1>3, <2>4, <2>6, <2>7 DEF MapInv, ThreadInv, SafeUnlessShared, ReceiveChannels,
         Receiving
  <1>9. QED
    BY <1>7, <1>8

\* A model that is mapped.
LEMMA ModelKeeps ==
    ASSUME MapInv, NEW created \in SUBSET Indices, MapModel(created)
    PROVE  MapInv'
  <1> DEFINE name == Head(todo)
             M == Matching(name)
             R == Replaced(name)
  <1>1. /\ TypeOK /\ TableInv /\ ThreadInv
        /\ channels' = channels /\ open' = open /\ instances' = instances + 1
        /\ channels \in Nat /\ instances \in Nat
        /\ created \subseteq M /\ R \subseteq M /\ M \subseteq Indices
        /\ pc' = pc /\ pc = "models"
    BY DEF MapInv, MapModel, TypeOK, Matching, Replaced
  <1>2. /\ Indices' = Indices
        /\ \A i \in Indices :
              /\ g_pm_map_list'[i].xio_handle = g_pm_map_list[i].xio_handle
              /\ g_pm_map_list'[i].key_word = g_pm_map_list[i].key_word
              /\ g_pm_map_list'[i].pm_handle =
                    IF i \in M THEN instances + 1 ELSE g_pm_map_list[i].pm_handle
              /\ g_pm_map_list'[i] \in PmChannelMaps'
    <2>1. g_pm_map_list' = [i \in Indices |->
                IF i \in M
                THEN [g_pm_map_list[i] EXCEPT
                        !.pm_handle = instances + 1,
                        !.task_thread = ThreadOf(i, created)]
                ELSE g_pm_map_list[i]]
      BY DEF MapModel
    <2>2. Indices' = Indices
      BY <2>1 DEF Indices
    <2>3. ASSUME NEW i \in Indices
          PROVE  /\ g_pm_map_list'[i].xio_handle = g_pm_map_list[i].xio_handle
                 /\ g_pm_map_list'[i].key_word = g_pm_map_list[i].key_word
                 /\ g_pm_map_list'[i].pm_handle =
                       IF i \in M THEN instances + 1 ELSE g_pm_map_list[i].pm_handle
                 /\ g_pm_map_list'[i] \in PmChannelMaps'
      <3>1. /\ g_pm_map_list[i] \in PmChannelMaps
            /\ channels' = channels /\ instances' = instances + 1 /\ instances \in Nat
        BY <1>1, Entries
      <3>2. CASE i \notin M
        <4>1. g_pm_map_list'[i] = g_pm_map_list[i]
          BY <2>1, <3>2
        <4>2. QED
          BY <3>1, <3>2, <4>1 DEF PmChannelMaps
      <3>3. CASE i \in M
        <4>1. g_pm_map_list'[i] = [g_pm_map_list[i] EXCEPT
                                     !.pm_handle = instances + 1,
                                     !.task_thread = ThreadOf(i, created)]
          BY <2>1, <3>3
        <4>2. ThreadOf(i, created) \in {"NULL", "valid", "joined"}
          BY <3>1 DEF PmChannelMaps, ThreadOf
        <4>3. instances + 1 \in 0 .. instances'
          BY <3>1
        <4>4. g_pm_map_list'[i] \in PmChannelMaps'
          BY <3>1, <4>1, <4>2, <4>3 DEF PmChannelMaps
        <4>5. QED
          BY <3>1, <3>3, <4>1, <4>4 DEF PmChannelMaps
      <3>4. QED
        BY <3>2, <3>3
    <2>4. QED
      BY <2>2, <2>3
  <1>3. g_pm_map_list' \in Seq(PmChannelMaps') /\ Len(g_pm_map_list') = Len(g_pm_map_list)
    <2>1. \A i \in 1 .. Len(g_pm_map_list) : g_pm_map_list'[i] \in PmChannelMaps'
      BY <1>1, <1>2, Entries
    <2>2. g_pm_map_list' = [i \in 1 .. Len(g_pm_map_list) |-> g_pm_map_list'[i]]
      <3>1. \E f : g_pm_map_list' = [i \in Indices |-> f[i]]
        <4> WITNESS g_pm_map_list'
        <4> QED
          BY DEF MapModel
      <3>2. Indices = 1 .. Len(g_pm_map_list)
        BY <1>1, Entries
      <3>3. QED
        BY <3>1, <3>2
    <2>3. g_pm_map_list' \in [1 .. Len(g_pm_map_list) -> PmChannelMaps']
      BY <2>1, <2>2
    <2>4. Len(g_pm_map_list) \in Nat
      BY <1>1, Entries
    <2>5. QED
      BY <2>3, <2>4
  <1>4. g_thread_count' \in 0 .. MaxLength
    <2>1. IsFiniteSet(Indices) /\ Cardinality(Indices) = Len(g_pm_map_list)
      BY <1>1, Entries, FS_Interval, SMTT(30)
    <2>2. IsFiniteSet(created) /\ Cardinality(created) <= Cardinality(Indices)
      BY <2>1, FS_Subset
    <2>3. Cardinality(created) \in Nat
      BY <2>2, FS_CardinalityType
    <2>4. Len(g_pm_map_list) <= MaxLength /\ Len(g_pm_map_list) \in Nat
      BY <1>1, Entries DEF TableInv
    <2>5. g_thread_count' = Cardinality(created)
      BY DEF MapModel
    <2>6. QED
      BY <2>1, <2>2, <2>3, <2>4, <2>5, MapAssumption
  <1>5. destroyed' = destroyed \cup InstancesOf(R)
    BY DEF MapModel
  <1>6. destroyed' \subseteq 1 .. instances'
    <2>1. InstancesOf(R) \subseteq 1 .. instances
      BY <1>1, Created
    <2>2. QED
      <3>1. destroyed' \subseteq 1 .. instances
        BY <1>1, <1>5, <2>1 DEF TypeOK
      <3>2. \A h \in 1 .. instances : h \in 1 .. instances'
        BY <1>1
      <3>3. QED
        BY <3>1, <3>2
  <1>7. threads' = Joined(R) \cup {[xio_handle |-> c, pm_handle |-> instances + 1] :
                                      c \in ChannelsOf(created)}
    BY DEF MapModel
  <1>8. threads' \subseteq [xio_handle : 1 .. channels', pm_handle : 1 .. instances']
    BY <1>1, <1>7, Entries DEF Joined, ChannelsOf, TypeOK
  <1>9. todo' \in Seq(Names \cup {Bad})
    BY <1>1, HeadTailProperties DEF MapModel, TypeOK
  <1>10. TypeOK'
    <2>1. listed' = listed /\ g_channel_parse_error' = g_channel_parse_error
          /\ messages' = messages
      BY DEF MapModel
    <2>2. QED
      BY <1>1, <1>3, <1>4, <1>6, <1>8, <1>9, <2>1 DEF TypeOK
  <1>11. TableInv'
    <2>1. \A i \in Indices : g_pm_map_list'[i].pm_handle \notin destroyed'
      <3> SUFFICES ASSUME NEW i \in Indices, g_pm_map_list'[i].pm_handle \in destroyed'
                   PROVE  FALSE
        OBVIOUS
      <3>1. i \notin M
        BY <1>1, <1>2, <1>5, Entries DEF TypeOK, InstancesOf
      <3>2. PICK j \in R : /\ g_pm_map_list[j].pm_handle # 0
                           /\ g_pm_map_list[j].pm_handle = g_pm_map_list[i].pm_handle
        BY <1>1, <1>2, <1>5, <3>1 DEF TableInv, InstancesOf
      <3>3. g_pm_map_list[j].key_word = g_pm_map_list[i].key_word
        BY <1>1, <3>2 DEF TableInv
      <3>4. QED
        BY <3>1, <3>2, <3>3 DEF Replaced, Matching
    <2>2. \A i, j \in Indices :
             g_pm_map_list'[i].pm_handle # 0
                /\ g_pm_map_list'[i].pm_handle = g_pm_map_list'[j].pm_handle
             => g_pm_map_list'[i].key_word = g_pm_map_list'[j].key_word
      BY <1>1, <1>2, Entries DEF TableInv, Matching
    <2>3. QED
      BY <1>1, <1>2, <1>3, <2>1, <2>2 DEF TableInv
  <1>12. ThreadInv'
    <2>1. ASSUME NEW t \in Joined(R)
          PROVE  /\ t \in threads
                 /\ \E i \in Indices : /\ i \notin M
                                       /\ g_pm_map_list[i].xio_handle = t.xio_handle
                                       /\ g_pm_map_list[i].pm_handle = t.pm_handle
      <3>1. t \in threads /\ t.xio_handle \notin ChannelsOf(R)
        BY <2>1 DEF Joined
      <3>2. PICK i \in Indices : /\ g_pm_map_list[i].xio_handle = t.xio_handle
                                 /\ g_pm_map_list[i].pm_handle = t.pm_handle
        BY <1>1, <3>1 DEF ThreadInv
      <3>3. t.pm_handle # 0
        BY <1>1, <3>1 DEF TypeOK
      <3>4. i \notin M
        BY <3>1, <3>2, <3>3 DEF Replaced, ChannelsOf
      <3>5. QED
        BY <3>1, <3>2, <3>4
    <2>2. ASSUME NEW t \in threads', t \notin Joined(R)
          PROVE  \E i \in created : t = [xio_handle |-> g_pm_map_list[i].xio_handle,
                                         pm_handle |-> instances + 1]
      BY <1>7, <2>2 DEF ChannelsOf
    <2>3. ASSUME NEW t \in threads'
          PROVE  \E i \in Indices : /\ g_pm_map_list'[i].xio_handle = t.xio_handle
                                    /\ g_pm_map_list'[i].pm_handle = t.pm_handle
      <3>1. CASE t \in Joined(R)
        BY <1>2, <2>1, <3>1
      <3>2. CASE t \notin Joined(R)
        BY <1>1, <1>2, <2>2, <3>2
      <3>3. QED
        BY <3>1, <3>2
    <2>4. ASSUME NEW t \in threads', NEW u \in threads', t.xio_handle = u.xio_handle
          PROVE  t = u
      <3>1. CASE t \in Joined(R) /\ u \in Joined(R)
        BY <1>1, <2>1, <2>4, <3>1 DEF ThreadInv
      <3>2. CASE t \notin Joined(R) /\ u \notin Joined(R)
        BY <2>2, <2>4, <3>2
      <3>3. ASSUME NEW a \in Joined(R), NEW b \in threads', b \notin Joined(R)
            PROVE  a.xio_handle # b.xio_handle
        <4>1. PICK i \in Indices : i \notin M /\ g_pm_map_list[i].xio_handle = a.xio_handle
          BY <2>1, <3>3
        <4>2. PICK j \in created : b = [xio_handle |-> g_pm_map_list[j].xio_handle,
                                        pm_handle |-> instances + 1]
          BY <2>2, <3>3
        <4>3. i # j /\ j \in Indices
          BY <1>1, <4>1
        <4>4. QED
          BY <1>1, <4>1, <4>2, <4>3 DEF TableInv
      <3>4. QED
        BY <2>4, <3>1, <3>2, <3>3
    <2>5. QED
      BY <1>2, <2>3, <2>4 DEF ThreadInv
  <1>13. OpenInv'
    <2>1. g_channel_parse_error' = g_channel_parse_error
      BY DEF MapModel
    <2>2. ChannelsOf(Indices)' = ChannelsOf(Indices)
      BY <1>2 DEF ChannelsOf
    <2>3. QED
      BY <1>1, <2>1, <2>2 DEF MapInv, OpenInv
  <1>14. QED
    BY <1>1, <1>10, <1>11, <1>12, <1>13 DEF MapInv, SafeUnlessShared

\* What goes wrong has one of the two causes.
LEMMA WrongKeeps ==
    ASSUME MapInv, GoesWrong
    PROVE  MapInv'
  <1>1. PICK maps \in SUBSET Indices : Undefined(maps)
    BY DEF GoesWrong, Replaced, Matching
  <1>2. SafeUnlessShared'
    BY <1>1 DEF MapInv, TableInv, SafeUnlessShared, Undefined, GoesWrong, listVars, Indices
  <1>3. TypeOK'
    BY DEF MapInv, TypeOK, GoesWrong, listVars, PmChannelMaps
  <1>4. QED
    BY <1>2, <1>3 DEF MapInv, TableInv, ThreadInv, OpenInv, GoesWrong, listVars, Indices,
       ChannelsOf

\* The table and its threads stay consistent through every step of the main thread
\* and every exit of a thread.
LEMMA MapInvariant == Spec => []MapInv
  <1>1. Init => MapInv
    <2> SUFFICES ASSUME Init PROVE MapInv
      OBVIOUS
    <2>1. TypeOK
      <3>1. listed \in BOOLEAN /\ g_channel_parse_error \in BOOLEAN
        BY Zenon DEF Init
      <3>2. QED
        BY <3>1, MapAssumption DEF Init, TypeOK
    <2>2. OpenInv
      BY DEF Init, OpenInv, Indices, ChannelsOf
    <2>3. TableInv /\ ThreadInv
      BY MapAssumption DEF Init, TableInv, ThreadInv, Indices
    <2>4. QED
      BY <2>1, <2>2, <2>3 DEF Init, MapInv, SafeUnlessShared
  <1>2. ASSUME MapInv, [Next]_vars
        PROVE  MapInv'
    <2>1. ASSUME NEW names \in Lists(Names), NEW opened \in 0 .. Len(names),
                 ReceiveChannels(names, opened)
          PROVE  MapInv'
      BY <1>2, <2>1, ChannelsKeep
    <2>2. ASSUME NEW created \in SUBSET Indices, MapModel(created)
          PROVE  MapInv'
      BY <1>2, <2>2, ModelKeeps
    <2>3. ASSUME UNCHANGED <<listVars, g_thread_count, g_channel_parse_error, channels,
                             instances, open, destroyed>>,
                 threads' \subseteq threads, TypeOK',
                 pc' # "undefined" \/ UNCHANGED pc
          PROVE  MapInv'
      BY <1>2, <2>3 DEF MapInv, TableInv, ThreadInv, OpenInv, SafeUnlessShared, listVars,
         Indices, ChannelsOf
    <2>4. ASSUME NEW models \in Lists(Names \cup {Bad}), ReceiveModel(models)
          PROVE  MapInv'
      <3>1. models \in Seq(Names \cup {Bad})
        BY MapAssumption DEF Lists
      <3>2. TypeOK'
        BY <1>2, <2>4, <3>1, MapAssumption DEF MapInv, TypeOK, ReceiveModel, Receiving,
           listVars, PmChannelMaps
      <3>3. QED
        BY <2>3, <2>4, <3>2 DEF ReceiveModel, listVars
    <2>5. CASE SkipModel
      <3>1. todo' \in Seq(Names \cup {Bad})
        BY <1>2, <2>5, HeadTailProperties DEF MapInv, TypeOK, SkipModel
      <3>2. TypeOK'
        BY <1>2, <2>5, <3>1 DEF MapInv, TypeOK, SkipModel, listVars, PmChannelMaps
      <3>3. QED
        BY <2>3, <2>5, <3>2 DEF SkipModel, listVars
    <2>6. CASE ModelsMapped
      <3>1. TypeOK'
        BY <1>2, <2>6 DEF MapInv, TypeOK, ModelsMapped, listVars, PmChannelMaps
      <3>2. QED
        BY <2>3, <2>6, <3>1 DEF ModelsMapped, listVars
    <2>7. CASE ThreadExits
      <3>1. TypeOK'
        BY <1>2, <2>7 DEF MapInv, TypeOK, ThreadExits, listVars, PmChannelMaps
      <3>2. QED
        BY <2>3, <2>7, <3>1 DEF ThreadExits, listVars
    <2>8. CASE TakeDown
      <3>1. TypeOK'
        BY <1>2, <2>8, Emptied DEF MapInv, TypeOK, TakeDown
      <3>2. QED
        BY <1>2, <2>8, <3>1, Emptied DEF MapInv, TakeDown, SafeUnlessShared
    <2>9. CASE Stop
      <3>1. TypeOK'
        BY <1>2, <2>9, Emptied DEF MapInv, TypeOK, Stop
      <3>2. QED
        BY <1>2, <2>9, <3>1, Emptied DEF MapInv, Stop, SafeUnlessShared
    <2>10. CASE GoesWrong
      BY <1>2, <2>10, WrongKeeps
    <2>11. CASE UNCHANGED vars
      <3>1. TypeOK'
        BY <1>2, <2>11 DEF MapInv, TypeOK, vars, listVars, PmChannelMaps
      <3>2. QED
        BY <2>3, <2>11, <3>1 DEF vars, listVars
    <2>12. QED
      BY <1>2, <2>1, <2>2, <2>4, <2>5, <2>6, <2>7, <2>8, <2>9, <2>10, <2>11
      DEF Next, Done
  <1>3. QED
    BY <1>1, <1>2, PTL DEF Spec

-----------------------------------------------------------------------------
\* The variables of the table keep their types; in particular g_thread_count counts
\* no more threads than the list of channels is long.
THEOREM MapTypeCorrect == Spec => []TypeOK
  <1>1. MapInv => TypeOK
    BY DEF MapInv
  <1>2. QED
    BY <1>1, MapInvariant, PTL

\* Whatever lists and models arrive and whichever threads exit or cannot be created,
\* a running thread's channel is open, its instance is alive and is the table's, and
\* no channel has two threads.
THEOREM ThreadsOwn == Spec => []ThreadsOwnWhatTheyUse
  <1>1. MapInv => ThreadsOwnWhatTheyUse
    BY DEF MapInv, TableInv, ThreadInv, ThreadsOwnWhatTheyUse, Maps
  <1>2. QED
    BY <1>1, MapInvariant, PTL

\* As long as every channel could be opened, the table's channels are all there are.
THEOREM ChannelsAccounted == Spec => []ChannelsAccountedFor
  <1>1. MapInv => ChannelsAccountedFor
    BY DEF MapInv, OpenInv, ChannelsAccountedFor, ChannelsOf, Maps
  <1>2. QED
    BY <1>1, MapInvariant, PTL

\* A double join or a double destroy has one of two causes: two channels of one list
\* with the same name, or a thread that could not be created again.
THEOREM UndefinedOnlyIfShared == Spec => []SafeUnlessShared
  <1>1. MapInv => SafeUnlessShared
    BY DEF MapInv
  <1>2. QED
    BY <1>1, MapInvariant, PTL

-----------------------------------------------------------------------------
(***************************************************************************)
(* The thread of one channel.                                              *)
(***************************************************************************)
\* The gap before a request, and ages that stop one past their gap.
LEMMA GapType == \A r \in Requests : Gap(r) \in Nat
<1>1. ClockGap \in Nat /\ \A r \in Requests : acqInt[r] \in Nat
  BY TaskAssumption
<1> QED  BY <1>1 DEF Gap

LEMMA CappedAge ==
    ASSUME NEW age \in Nat, NEW gap \in Nat
    PROVE  /\ Capped(age, gap) \in Nat
           /\ age <= gap + 1 => Capped(age, gap) <= gap + 1
  BY DEF Capped

\* The requests a meter has received, when one is sent and when one is answered.
LEMMA SendTypes ==
    ASSUME TaskTypeOK, NEW r \in Requests, SendRequest(r)
    PROVE  /\ curr_data_info' = r
           /\ sincePacket' \in [Requests -> Nat]
           /\ \A q \in Requests : sincePacket'[q] <= Gap(q) + 1
           /\ pending' \in Seq(Requests)
<1>1. curr_data_info' = r /\ sincePacket' = [sincePacket EXCEPT ![r] = 0]
      /\ (pending' = pending \/ pending' = Append(pending, r))
  BY DEF SendRequest
<1>2. /\ sincePacket \in [Requests -> Nat] /\ pending \in Seq(Requests)
      /\ \A q \in Requests : sincePacket[q] <= Gap(q) + 1
  BY DEF TaskTypeOK
<1>3. pending' \in Seq(Requests)
  <2>1. Append(pending, r) \in Seq(Requests)
    BY <1>2
  <2> QED  BY <1>1, <1>2, <2>1
<1>4. sincePacket' \in [Requests -> Nat]
  BY <1>1, <1>2
<1>5. ASSUME NEW q \in Requests  PROVE sincePacket'[q] <= Gap(q) + 1
  <2>1. sincePacket'[q] = sincePacket[q] \/ sincePacket'[q] = 0
    BY <1>1, <1>2
  <2>2. Gap(q) \in Nat /\ sincePacket[q] <= Gap(q) + 1
    BY <1>2, GapType
  <2> QED  BY <2>1, <2>2
<1> QED  BY <1>1, <1>3, <1>4, <1>5

LEMMA AnsweredType ==
    ASSUME TaskTypeOK, pending # <<>>
    PROVE  /\ Head(pending) \in Requests /\ Tail(pending) \in Seq(Requests)
           /\ Len(pending) \in Nat /\ Len(Tail(pending)) = Len(pending) - 1
           /\ Head(pending) = pending[1]
<1>1. pending \in Seq(Requests)
  BY DEF TaskTypeOK
<1> QED  BY <1>1

LEMMA CursorTypes ==
    ASSUME TaskTypeOK, NEW r \in Requests, Polling(r)
    PROVE  /\ prev_data_info' \in Requests /\ next_data_info' \in Requests
           /\ task_pc' = "top" /\ polls' \in Nat
<1>1. polls \in Nat /\ PollsPerTick \in Nat /\ N \in Nat
  BY TaskAssumption DEF TaskTypeOK
<1>2. polls' \in Nat
  BY <1>1, CappedAge DEF Polling
<1>3. Following(r) \in Requests
  BY <1>1 DEF Following, Requests
<1> QED  BY <1>2, <1>3 DEF Polling

\* The thread, its meter and the main thread keep the types.
LEMMA TaskTypesStep ==
    ASSUME TaskTypeOK, [TaskNext]_taskVars
    PROVE  TaskTypeOK'
<1>0. /\ task_stop \in BOOLEAN /\ task_lock \in BOOLEAN
      /\ alive \in BOOLEAN /\ broken \in BOOLEAN /\ overrun \in BOOLEAN
      /\ time_out_count \in Nat /\ next_data_info \in Requests
      /\ prev_data_info \in Requests \cup {0} /\ curr_data_info \in Requests \cup {0}
      /\ freezing \in [Requests -> BOOLEAN]
      /\ sincePacket \in [Requests -> Nat]
      /\ \A r \in Requests : sincePacket[r] <= Gap(r) + 1
      /\ sinceSend \in 0 .. (LockTimeout + 1)
      /\ task_pc \in {"top", "poll", "exited", "undefined"}
      /\ pending \in Seq(Requests)
      /\ polls \in Nat /\ restarts \in Nat /\ pieces \in Nat
      /\ reading \in (Requests \X Requests) \cup {<<>>}
  BY DEF TaskTypeOK
<1>c. time_out_count \in Nat /\ pieces \in Nat
  BY <1>0
<1> USE DEF mapVars, cursorVars, meterVars, boundVars
<1>1. CASE ReadNothing \/ ReadError \/ Exit
  <2>1. /\ task_stop' \in BOOLEAN /\ task_pc' \in {"poll", "exited"}
        /\ UNCHANGED <<task_lock, time_out_count, cursorVars, freezing, sincePacket,
                       sinceSend, polls, meterVars, boundVars, reading>>
    BY <1>0, <1>1 DEF ReadNothing, ReadError, Exit
  <2> QED  BY <1>0, <2>1 DEF TaskTypeOK
<1>2. CASE ReadAnswer
  <2>1. /\ task_pc' \in {"undefined", "poll"} /\ task_lock' = FALSE /\ time_out_count' = 0
        /\ broken' = FALSE /\ pending' = Tail(pending) /\ pending # <<>>
        /\ UNCHANGED <<task_stop, cursorVars, freezing, sincePacket, sinceSend, polls,
                       alive, boundVars>>
    BY <1>2 DEF ReadAnswer
  <2>2. reading' \in (Requests \X Requests) \cup {<<>>}
    <3>1. CASE curr_data_info = 0
      BY <1>0, <1>2, <3>1 DEF ReadAnswer
    <3>2. CASE curr_data_info # 0
      <4>1. reading' = reading \/ reading' = <<Head(pending), curr_data_info>>
        BY <1>2, <3>2 DEF ReadAnswer, Decoded
      <4>2. Head(pending) \in Requests /\ curr_data_info \in Requests
        <5>1. curr_data_info \in Requests \cup {0}
          BY <1>0
        <5> QED  BY <2>1, <3>2, <5>1, AnsweredType
      <4>3. reading \in (Requests \X Requests) \cup {<<>>}
        BY <1>0
      <4> QED  BY <4>1, <4>2, <4>3
    <3> QED  BY <3>1, <3>2
  <2>3. pending' \in Seq(Requests)
    BY <2>1, AnsweredType
  <2> QED  BY <1>0, <2>1, <2>2, <2>3 DEF TaskTypeOK
<1>3. CASE ReadPiece
  <2>1. /\ task_pc' \in {"undefined", "poll"} /\ task_lock' = FALSE /\ time_out_count' = 0
        /\ broken' = TRUE /\ pieces' = pieces + 1
        /\ UNCHANGED <<task_stop, cursorVars, freezing, sincePacket, sinceSend, polls,
                       pending, alive, restarts, overrun, reading>>
    BY <1>3 DEF ReadPiece
  <2>2. pieces' \in Nat /\ time_out_count' \in Nat
    <3>1. pieces' = pieces + 1 /\ time_out_count' = 0
      BY <2>1
    <3> QED  BY <1>c, <3>1
  <2>3. task_lock' \in BOOLEAN /\ broken' \in BOOLEAN
    BY <2>1
  <2> QED  BY <1>0, <2>1, <2>2, <2>3 DEF TaskTypeOK
<1>4. ASSUME NEW r \in Requests, Poll(r)
      PROVE  TaskTypeOK'
  <2>0. Polling(r) /\ UNCHANGED <<alive, broken, restarts, pieces, reading>>
    BY <1>4 DEF Poll, PollRealtimeSend, PollTimeout, PollRealtimeIdle,
                PollFrozen, PollClock
  <2>1. /\ prev_data_info' \in Requests /\ next_data_info' \in Requests
        /\ task_pc' = "top" /\ polls' \in Nat
    BY <2>0, CursorTypes
  <2>2. \/ SendRequest(r)
        \/ UNCHANGED <<curr_data_info, sincePacket, pending>>
    BY <1>4 DEF Poll, PollRealtimeSend, PollTimeout, PollRealtimeIdle,
                PollFrozen, PollClock
  <2>3. /\ curr_data_info' \in Requests \cup {0}
        /\ sincePacket' \in [Requests -> Nat] /\ pending' \in Seq(Requests)
        /\ \A q \in Requests : sincePacket'[q] <= Gap(q) + 1
    BY <1>0, <2>2, SendTypes
  <2>4. /\ task_stop' \in BOOLEAN /\ task_lock' \in BOOLEAN
    BY <1>0, <1>4 DEF Poll, PollRealtimeSend, PollTimeout,
                      PollRealtimeIdle, PollFrozen, PollClock
  <2>5. /\ time_out_count' \in Nat /\ sinceSend' \in 0 .. (LockTimeout + 1)
    <3>1. time_out_count' \in {time_out_count, time_out_count + 1} /\ sinceSend' \in {sinceSend, 0}
      BY <1>4 DEF Poll, PollRealtimeSend, PollTimeout, PollRealtimeIdle,
                  PollFrozen, PollClock
    <3>2. LockTimeout \in Nat
      BY TaskAssumption
    <3>3. time_out_count' \in Nat
      BY <1>c, <3>1
    <3>4. 0 \in 0 .. (LockTimeout + 1)
      BY <3>2
    <3> QED  BY <1>0, <3>1, <3>3, <3>4
  <2>6. freezing' \in [Requests -> BOOLEAN]
    <3>1. freezing' = freezing
             \/ \E frozen \in BOOLEAN : freezing' = [freezing EXCEPT ![r] = frozen]
      BY <1>4 DEF Poll, PollRealtimeSend, PollTimeout, PollRealtimeIdle,
                  PollFrozen, PollClock
    <3> QED  BY <1>0, <3>1
  <2>7. overrun' \in BOOLEAN
    BY <1>0, <1>4 DEF Poll, PollRealtimeSend, PollTimeout, PollRealtimeIdle,
                      PollFrozen, PollClock
  <2> QED  BY <1>0, <2>0, <2>1, <2>3, <2>4, <2>5, <2>6, <2>7 DEF TaskTypeOK
<1>5. CASE Restart
  <2>1. /\ restarts' = restarts + 1 /\ task_stop' = FALSE /\ next_data_info' = 1
        /\ prev_data_info' = 0 /\ curr_data_info' = 0
        /\ freezing' = [r \in Requests |-> FALSE]
        /\ sincePacket' = [r \in Requests |-> 0] /\ task_pc' = "top"
        /\ sinceSend' \in 0 .. (LockTimeout + 1)
        /\ UNCHANGED <<task_lock, time_out_count, polls, meterVars, pieces, overrun,
                       reading>>
    BY <1>5 DEF Restart, UnknownAge
  <2>2. 1 \in Requests
    BY TaskAssumption DEF Requests
  <2>3. sincePacket' \in [Requests -> Nat]
        /\ \A q \in Requests : sincePacket'[q] <= Gap(q) + 1
    BY <2>1, GapType
  <2>4. freezing' \in [Requests -> BOOLEAN] /\ task_stop' \in BOOLEAN
    BY <2>1
  <2>5. restarts' \in Nat
    <3>1. restarts \in Nat /\ restarts' = restarts + 1
      BY <1>5 DEF Restart, TaskTypeOK
    <3> QED  BY <3>1
  <2>6. next_data_info' \in Requests
    BY <2>1, <2>2
  <2> QED  BY <1>0, <2>1, <2>3, <2>4, <2>5, <2>6 DEF TaskTypeOK
<1>6. CASE MeterForgets \/ MeterDies
  <2>1. /\ (pending # <<>> /\ pending' = Tail(pending)) \/ pending' = <<>>
        /\ broken' = FALSE /\ alive' \in {alive, FALSE}
        /\ UNCHANGED <<mapVars, cursorVars, freezing, sincePacket, sinceSend,
                       task_pc, polls, boundVars, reading>>
    BY <1>6 DEF MeterForgets, MeterDies
  <2>2. pending' \in Seq(Requests)
    <3>1. <<>> \in Seq(Requests)
      OBVIOUS
    <3> QED  BY <2>1, <3>1, AnsweredType
  <2> QED  BY <1>0, <2>1, <2>2 DEF TaskTypeOK
<1>7. CASE Tick
  <2>1. /\ polls' = 0 /\ sinceSend' = Capped(sinceSend, LockTimeout)
        /\ sincePacket' = [r \in Requests |-> Capped(sincePacket[r], Gap(r))]
        /\ UNCHANGED <<mapVars, cursorVars, freezing, task_pc, meterVars,
                       boundVars, reading>>
    BY <1>7 DEF Tick
  <2>2. sincePacket' \in [Requests -> Nat]
        /\ \A q \in Requests : sincePacket'[q] <= Gap(q) + 1
    BY <1>0, <2>1, GapType, CappedAge
  <2>3. sinceSend' \in 0 .. (LockTimeout + 1)
    <3>1. LockTimeout \in Nat
      BY TaskAssumption
    <3>2. sinceSend \in Nat /\ sinceSend <= LockTimeout + 1
      BY <1>0, <3>1
    <3> QED  BY <2>1, <3>1, <3>2, CappedAge
  <2> QED  BY <1>0, <2>1, <2>2, <2>3 DEF TaskTypeOK
<1>8. CASE UNCHANGED taskVars
  BY <1>0, <1>8 DEF taskVars, TaskTypeOK
<1> QED  BY <1>1, <1>2, <1>3, <1>4, <1>5, <1>6, <1>7, <1>8 DEF TaskNext, Thread, TaskDone

\* The fields of PM_CHANNEL_MAP, the request cursor and the thread's clocks keep their
\* types, and an age never passes the gap it is compared with by more than one.
THEOREM TaskTypeCorrect == TaskSpec => []TaskTypeOK
<1>1. TaskInit => TaskTypeOK
  <2> SUFFICES ASSUME TaskInit  PROVE TaskTypeOK
    OBVIOUS
  <2>1. 1 \in Requests /\ LockTimeout \in Nat
    BY TaskAssumption DEF Requests
  <2>2. sincePacket \in [Requests -> Nat]
        /\ \A q \in Requests : sincePacket[q] <= Gap(q) + 1
    BY GapType DEF TaskInit
  <2>3. freezing \in [Requests -> BOOLEAN] /\ pending \in Seq(Requests)
    BY DEF TaskInit
  <2> QED  BY <2>1, <2>2, <2>3 DEF TaskInit, TaskTypeOK, UnknownAge
<1>2. TaskTypeOK /\ [TaskNext]_taskVars => TaskTypeOK'
  BY TaskTypesStep
<1> QED  BY <1>1, <1>2, PTL DEF TaskSpec

-----------------------------------------------------------------------------
\* What the lock protects where all requests wait for it, until it times out under an
\* answer, an answer comes in pieces or a model comes: while an answer is awaited the
\* lock is held, and the request awaited is the last one sent.
Undisturbed == AllWait /\ restarts = 0 /\ pieces = 0 /\ ~overrun

LineInv ==
    Undisturbed =>
        /\ ~broken
        /\ reading # <<>> => reading[1] = reading[2]
        /\ Len(pending) <= 1
        /\ pending # <<>> => task_lock /\ pending[1] = curr_data_info

LEMMA LineStep ==
    ASSUME AllWait, TaskTypeOK, LineInv, [TaskNext]_taskVars,
           restarts' = 0, pieces' = 0, ~overrun'
    PROVE  /\ ~broken'
           /\ reading' # <<>> => reading'[1] = reading'[2]
           /\ Len(pending') <= 1
           /\ pending' # <<>> =>
                 task_lock' /\ pending'[1] = curr_data_info'
<1> USE DEF mapVars, cursorVars, meterVars, boundVars
<1>0. pending \in Seq(Requests) /\ restarts \in Nat /\ pieces \in Nat
  BY DEF TaskTypeOK
<1>1. ~Restart /\ ~ReadPiece
  BY <1>0 DEF Restart, ReadPiece
<1>2. restarts = 0 /\ pieces = 0 /\ ~overrun
  <2>1. ASSUME NEW r \in Requests, Poll(r)
        PROVE  restarts' = restarts /\ pieces' = pieces /\ (overrun => overrun')
    <3>1. CASE PollTimeout(r)
      BY <3>1 DEF PollTimeout
    <3>2. CASE ~PollTimeout(r)
      <4>1. UNCHANGED boundVars
        BY <2>1, <3>2 DEF Poll, PollRealtimeSend, PollRealtimeIdle, PollFrozen, PollClock
      <4> QED  BY <4>1
    <3> QED  BY <3>1, <3>2
  <2>2. CASE \/ ReadNothing \/ ReadAnswer \/ ReadError \/ Exit \/ MeterForgets
             \/ MeterDies \/ Tick \/ UNCHANGED taskVars
    BY <2>2 DEF ReadNothing, ReadAnswer, ReadError, Exit, MeterForgets, MeterDies, Tick,
                taskVars
  <2> QED  BY <1>1, <2>1, <2>2 DEF TaskNext, Thread, TaskDone
<1>3. /\ ~broken
      /\ reading # <<>> => reading[1] = reading[2]
      /\ Len(pending) <= 1
      /\ pending # <<>> =>
            task_lock /\ pending[1] = curr_data_info
  BY <1>2 DEF LineInv, Undisturbed
<1>4. CASE ReadNothing \/ ReadError \/ Exit
  BY <1>3, <1>4 DEF ReadNothing, ReadError, Exit
<1>5. CASE ReadAnswer
  <2>1. /\ pending # <<>> /\ pending' = Tail(pending) /\ broken' = FALSE
        /\ reading' = reading \/ reading' = <<Head(pending), curr_data_info>>
    BY <1>5 DEF ReadAnswer, Decoded
  <2>2. pending' = <<>>
    BY <1>0, <1>3, <2>1
  <2>3. Head(pending) = curr_data_info
    BY <1>3, <2>1, AnsweredType
  <2> QED  BY <1>3, <2>1, <2>2, <2>3
<1>6. ASSUME NEW r \in Requests, Poll(r)
      PROVE  /\ ~broken'
             /\ reading' # <<>> => reading'[1] = reading'[2]
             /\ Len(pending') <= 1
             /\ pending' # <<>> =>
                   task_lock' /\ pending'[1] = curr_data_info'
  <2>1. acqMode[r] = "realtime"
    BY DEF AllWait
  <2>2. PollRealtimeSend(r) \/ PollTimeout(r) \/ PollRealtimeIdle(r)
    BY <1>6, <2>1 DEF Poll, PollFrozen, PollClock
  <2>3. CASE PollRealtimeSend(r)
    <3>1. /\ ~task_lock /\ task_lock' = TRUE /\ curr_data_info' = r
          /\ broken' = broken /\ reading' = reading
          /\ pending' = pending \/ pending' = Append(pending, r)
      BY <2>3 DEF PollRealtimeSend, SendRequest
    <3>2. pending = <<>>
      BY <1>3, <3>1
    <3>3. Len(pending') <= 1 /\ (pending' # <<>> => pending'[1] = r)
      <4>1. /\ Len(pending) = 0 /\ Len(Append(pending, r)) = Len(pending) + 1
            /\ Append(pending, r)[Len(pending) + 1] = r
        BY <1>0, <3>2
      <4>2. CASE pending' = pending
        BY <3>2, <4>1, <4>2
      <4>3. CASE pending' = Append(pending, r)
        BY <4>1, <4>3
      <4> QED  BY <3>1, <4>2, <4>3
    <3> QED  BY <1>0, <1>3, <3>1, <3>3
  <2>4. CASE PollTimeout(r)
    <3>1. broken' = broken /\ reading' = reading /\ pending' = pending
      BY <2>4 DEF PollTimeout
    <3>2. pending = <<>>
      BY <2>4 DEF PollTimeout
    <3> QED  BY <1>3, <3>1, <3>2
  <2>5. CASE PollRealtimeIdle(r)
    BY <1>3, <2>5 DEF PollRealtimeIdle
  <2> QED  BY <2>2, <2>3, <2>4, <2>5
<1>7. CASE MeterForgets \/ MeterDies
  <2>1. /\ (pending # <<>> /\ pending' = Tail(pending)) \/ pending' = <<>>
        /\ broken' = FALSE /\ reading' = reading
    BY <1>7 DEF MeterForgets, MeterDies
  <2>2. pending' = <<>>
    BY <1>0, <1>3, <2>1
  <2> QED  BY <1>3, <2>1, <2>2
<1>8. CASE Tick
  <2>1. UNCHANGED <<mapVars, cursorVars, meterVars, reading>>
    BY <1>8 DEF Tick
  <2> QED  BY <1>3, <2>1
<1>9. CASE UNCHANGED taskVars
  BY <1>3, <1>9 DEF taskVars
<1> QED  BY <1>1, <1>4, <1>5, <1>6, <1>7, <1>8, <1>9 DEF TaskNext, Thread, TaskDone

\* Where all requests wait for the lock, no answer is decoded as the answer to another
\* request before a late answer, one in pieces or a new model, whatever the intervals,
\* the timeout and the number of requests, and however the thread, the meter and the
\* clock interleave.
THEOREM ReadingsAttributedAlways == TaskSpec => []ReadingsAttributed
<1>1. TaskInit => LineInv
  BY DEF TaskInit, LineInv
<1>2. TaskTypeOK /\ LineInv /\ [TaskNext]_taskVars => LineInv'
  <2> SUFFICES ASSUME TaskTypeOK, LineInv, [TaskNext]_taskVars, Undisturbed'
               PROVE  /\ ~broken'
                      /\ reading' # <<>> => reading'[1] = reading'[2]
                      /\ Len(pending') <= 1
                      /\ pending' # <<>> => task_lock' /\ pending'[1] = curr_data_info'
    BY DEF LineInv
  <2>1. AllWait /\ restarts' = 0 /\ pieces' = 0 /\ ~overrun'
    BY DEF Undisturbed, AllWait
  <2> QED  BY <2>1, LineStep
<1>3. TaskTypeOK /\ LineInv => ReadingsAttributed
  <2>1. TaskTypeOK => (pieces = 0 \/ pieces > 0) /\ (restarts = 0 \/ restarts > 0)
    BY DEF TaskTypeOK
  <2> QED  BY <2>1 DEF LineInv, Undisturbed, ReadingsAttributed
<1> QED  BY <1>1, <1>2, <1>3, TaskTypeCorrect, PTL DEF TaskSpec

-----------------------------------------------------------------------------
\* The meter answers nothing that the thread's instance has not sent.
AskedInv == restarts = 0 => (pending # <<>> => curr_data_info # 0) /\ task_pc # "undefined"

LEMMA AskedStep ==
    ASSUME TaskTypeOK, AskedInv, [TaskNext]_taskVars, restarts' = 0
    PROVE  (pending' # <<>> => curr_data_info' # 0) /\ task_pc' # "undefined"
<1> USE DEF mapVars, cursorVars, meterVars, boundVars
<1>1. restarts \in Nat /\ pending \in Seq(Requests)
  BY DEF TaskTypeOK
<1>2. ~Restart
  BY <1>1 DEF Restart
<1>3. restarts = 0
  BY <1>2 DEF TaskNext, Thread, ReadNothing, ReadAnswer, ReadPiece,
              ReadError, Exit, Poll, PollRealtimeSend, PollTimeout,
              PollRealtimeIdle, PollFrozen, PollClock, MeterForgets,
              MeterDies, Tick, TaskDone, taskVars
<1>4. (pending # <<>> => curr_data_info # 0) /\ task_pc # "undefined"
  BY <1>3 DEF AskedInv
<1>5. CASE ReadNothing \/ ReadError \/ Exit
  BY <1>4, <1>5 DEF ReadNothing, ReadError, Exit
<1>6. CASE ReadAnswer \/ ReadPiece
  <2>1. pending # <<>> /\ curr_data_info' = curr_data_info
    BY <1>6 DEF ReadAnswer, ReadPiece
  <2>2. task_pc' = "poll"
    BY <1>4, <1>6, <2>1 DEF ReadAnswer, ReadPiece
  <2> QED  BY <1>4, <2>1, <2>2
<1>7. ASSUME NEW r \in Requests, Poll(r)
      PROVE  (pending' # <<>> => curr_data_info' # 0) /\ task_pc' # "undefined"
  <2>1. Polling(r)
        /\ (SendRequest(r) \/ UNCHANGED <<curr_data_info, pending>>)
    BY <1>7 DEF Poll, PollRealtimeSend, PollTimeout, PollRealtimeIdle,
                PollFrozen, PollClock
  <2>2. task_pc' = "top"
    BY <2>1 DEF Polling
  <2>3. r # 0
    BY TaskAssumption DEF Requests
  <2> QED  BY <1>4, <2>1, <2>2, <2>3 DEF SendRequest
<1>8. CASE MeterForgets \/ MeterDies
  <2>1. /\ pending' # <<>> => pending # <<>>
        /\ task_pc' = task_pc /\ curr_data_info' = curr_data_info
    BY <1>8 DEF MeterForgets, MeterDies
  <2> QED  BY <1>4, <2>1
<1>9. CASE Tick \/ UNCHANGED taskVars
  BY <1>4, <1>9 DEF Tick, taskVars
<1> QED  BY <1>2, <1>5, <1>6, <1>7, <1>8, <1>9 DEF TaskNext, Thread, TaskDone

\* data_response_parse never dereferences a NULL curr_data_info as long as no new model
\* replaces the instance under the thread, for any mix of modes, any meter and any way
\* its answers are cut into pieces.
THEOREM AnswerHasRequestAlways == TaskSpec => []AnswerHasRequest
<1>1. TaskInit => AskedInv
  BY DEF TaskInit, AskedInv
<1>2. TaskTypeOK /\ AskedInv /\ [TaskNext]_taskVars => AskedInv'
  BY AskedStep DEF AskedInv
<1>3. TaskTypeOK /\ AskedInv => AnswerHasRequest
  BY DEF AskedInv, AnswerHasRequest, TaskTypeOK
<1> QED  BY <1>1, <1>2, <1>3, TaskTypeCorrect, PTL DEF TaskSpec

=============================================================================
