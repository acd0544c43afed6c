----------------------------- MODULE ChannelMap -----------------------------
(***************************************************************************)
(* The agent's table of channels, g_pm_map_list of                         *)
(* iot_edge_agent/src/iot_main.c: which channel (xio) is open, which       *)
(* protocol instance (PM_INSTANCE) it carries and which acquisition thread *)
(* works on it.  The main thread rebuilds it when the broker sends a list  *)
(* of channels (channel_instance_construct) or a model                     *)
(* (thing_instance_construct), and takes it down at the end.  What a       *)
(* thread does meanwhile is AcquisitionTask.                               *)
(*                                                                         *)
(* Channels and instances are numbered in the order they are created.      *)
(* Memory is always there; opening a channel and creating a thread may     *)
(* fail.  Joining a thread twice and destroying an instance twice are      *)
(* undefined, and nothing is said of what follows (pc = "undefined").      *)
(***************************************************************************)
EXTENDS Integers, Sequences, FiniteSets

CONSTANTS
    Names,          \* names that channels and models may have
    MaxLength,      \* bound: channels in a list, models in a message
    MaxMessages     \* bound: messages from the broker

ASSUME MapAssumption == MaxLength \in Nat /\ MaxMessages \in Nat

VARIABLES
    g_pm_map_list,           \* the PM_CHANNEL_MAPs: <<>> also stands for NULL
    listed,                  \* g_pm_map_list # NULL
    g_thread_count, g_channel_parse_error,
    todo,                    \* models of the message that are left to map
    pc,                      \* "idle", "models", "stopped" or "undefined"
    channels, instances,     \* how many have been created
    open,                    \* channels that are open
    destroyed,               \* instances that have been destroyed
    threads,                 \* the threads that run: their channel and instance
    messages                 \* messages received

listVars == <<g_pm_map_list, listed>>
vars == <<listVars, g_thread_count, g_channel_parse_error, todo, pc, channels,
          instances, open, destroyed, threads, messages>>

\* What a model can be: one that protocol_init constructs, with its name, or not.
Bad == "bad"
Lists(S) == UNION {[1 .. n -> S] : n \in 0 .. MaxLength}
Indices == DOMAIN g_pm_map_list
Maps == {g_pm_map_list[i] : i \in Indices}

-----------------------------------------------------------------------------
(***************************************************************************)
(* What happens to a set of maps that are given a new instance or destroyed *)
(***************************************************************************)
\* The thread of a map is joined if there is one, then its instance is
\* destroyed.  Two maps that share an instance destroy it twice; a map whose
\* last thread was joined and could not be replaced joins it again.
Undefined(maps) ==
    \/ \E i, j \in maps : /\ i # j
                          /\ g_pm_map_list[i].pm_handle # 0
                          /\ g_pm_map_list[i].pm_handle = g_pm_map_list[j].pm_handle
    \/ \E i \in maps : g_pm_map_list[i].task_thread = "joined"

ChannelsOf(maps) == {g_pm_map_list[i].xio_handle : i \in maps}
InstancesOf(maps) == {g_pm_map_list[i].pm_handle : i \in maps} \ {0}

\* A bug the replacement could have: the old threads are not joined.
JoinedNone(maps) == threads

\* The threads that are left when those of the maps have been joined.
Joined(maps) == {t \in threads : t.xio_handle \notin ChannelsOf(maps)}

\* A bug map_list_destroy could have: the channels stay open.
DestroyKeepsChannels(opened) ==
    /\ threads' = Joined(Indices)
    /\ destroyed' = destroyed \cup InstancesOf(Indices)
    /\ open' = open \cup opened

\* map_list_destroy: threads, instances and channels all go, and the caller may
\* open other channels next.
MapListDestroy(opened) ==
    /\ threads' = Joined(Indices)
    /\ destroyed' = destroyed \cup InstancesOf(Indices)
    /\ open' = (open \ ChannelsOf(Indices)) \cup opened

-----------------------------------------------------------------------------
(***************************************************************************)
(* channel_instance_construct                                              *)
(***************************************************************************)
\* A bug channel_init_by_list could have: the map keeps the channel before its own.
NewMapOffByOne(name, k) ==
    [xio_handle |-> channels + k - 1, pm_handle |-> 0, task_thread |-> "NULL", key_word |-> name]

NewMap(name, k) ==
    [xio_handle |-> channels + k, pm_handle |-> 0, task_thread |-> "NULL", key_word |-> name]

\* channel_init_by_list for as many channels of the list as can be opened.
OpenedChannels(opened) == (channels + 1) .. (channels + opened)

Receiving ==
    /\ pc = "idle"
    /\ messages < MaxMessages
    /\ messages' = messages + 1

\* The channels of the list are opened one by one; one that cannot be opened
\* ends this, and g_channel_parse_error stays set for good.  The list is then
\* dropped and its channels stay open.
ReceiveChannels(names, opened) ==
    /\ Receiving
    /\ ~Undefined(Indices)
    /\ MapListDestroy(OpenedChannels(opened))
    /\ channels' = channels + opened
    /\ g_thread_count' = IF listed THEN 0 ELSE g_thread_count
    /\ g_channel_parse_error' = (g_channel_parse_error \/ opened < Len(names))
    /\ listed' = ~g_channel_parse_error'
    /\ g_pm_map_list' = IF listed' THEN [k \in DOMAIN names |-> NewMap(names[k], k)] ELSE <<>>
    /\ UNCHANGED <<todo, pc, instances>>

-----------------------------------------------------------------------------
(***************************************************************************)
(* thing_instance_construct                                                *)
(***************************************************************************)
\* Without a list of channels a model is refused; one without a body maps nothing.
ReceiveModel(models) ==
    /\ Receiving
    /\ listed
    /\ todo' = models
    /\ pc' = "models"
    /\ UNCHANGED <<listVars, g_thread_count, g_channel_parse_error, channels, instances,
                   open, destroyed, threads>>

\* A bug map_channel_and_model could have: the names are not compared.
MatchingAll(name) == Indices

Matching(name) == {i \in Indices : g_pm_map_list[i].key_word = name}
Replaced(name) == {i \in Matching(name) : g_pm_map_list[i].pm_handle # 0}

\* protocol_init fails: the model is skipped.
SkipModel ==
    /\ pc = "models" /\ todo # <<>>
    /\ Head(todo) = Bad
    /\ todo' = Tail(todo)
    /\ UNCHANGED <<listVars, g_thread_count, g_channel_parse_error, pc, channels,
                   instances, open, destroyed, threads, messages>>

\* What is left in task_thread: the new thread, or the one that has been joined.
ThreadOf(i, created) ==
    CASE i \in created -> "valid"
      [] i \notin created /\ g_pm_map_list[i].task_thread = "valid" -> "joined"
      [] OTHER -> g_pm_map_list[i].task_thread

\* map_channel_and_model for every map: each channel of that name gets the new
\* instance and a new thread, if one can be created.
MapModel(created) ==
    /\ pc = "models" /\ todo # <<>>
    /\ Head(todo) # Bad
    /\ LET name == Head(todo)
           instance == instances + 1
       IN  /\ created \subseteq Matching(name)
           /\ ~Undefined(Replaced(name))
           /\ g_pm_map_list' = [i \in Indices |->
                IF i \in Matching(name)
                THEN [g_pm_map_list[i] EXCEPT
                        !.pm_handle = instance,
                        !.task_thread = ThreadOf(i, created)]
                ELSE g_pm_map_list[i]]
           /\ destroyed' = destroyed \cup InstancesOf(Replaced(name))
           /\ threads' = Joined(Replaced(name)) \cup
                            {[xio_handle |-> c, pm_handle |-> instance] :
                                c \in ChannelsOf(created)}
           /\ instances' = instance
    /\ g_thread_count' = Cardinality(created)
    /\ todo' = Tail(todo)
    /\ UNCHANGED <<listed, g_channel_parse_error, pc, channels, open, messages>>

\* All models are mapped.
ModelsMapped ==
    /\ pc = "models" /\ todo = <<>>
    /\ g_thread_count # 0
    /\ pc' = "idle"
    /\ UNCHANGED <<listVars, g_thread_count, g_channel_parse_error, todo, channels,
                   instances, open, destroyed, threads, messages>>

\* "No task thread created": everything is taken down.
TakeDown ==
    /\ pc = "models" /\ todo = <<>>
    /\ g_thread_count = 0
    /\ ~Undefined(Indices)
    /\ MapListDestroy({})
    /\ g_pm_map_list' = <<>>
    /\ listed' = FALSE
    /\ pc' = "idle"
    /\ UNCHANGED <<g_thread_count, g_channel_parse_error, todo, channels, instances, messages>>

-----------------------------------------------------------------------------
\* An acquisition thread stops by itself; its handle can still be joined.
ThreadExits ==
    /\ pc \in {"idle", "models"}
    /\ \E t \in threads : threads' = threads \ {t}
    /\ UNCHANGED <<listVars, g_thread_count, g_channel_parse_error, todo, pc, channels,
                   instances, open, destroyed, messages>>

\* iotea_client_run ends.
Stop ==
    /\ pc = "idle"
    /\ ~Undefined(Indices)
    /\ MapListDestroy({})
    /\ g_pm_map_list' = <<>>
    /\ listed' = FALSE
    /\ pc' = "stopped"
    /\ UNCHANGED <<g_thread_count, g_channel_parse_error, todo, channels, instances,
                   messages>>

\* Any of the above joins a thread or destroys an instance a second time.
GoesWrong ==
    /\ \/ pc = "idle" /\ Undefined(Indices)
       \/ pc = "models" /\ todo # <<>> /\ Undefined(Replaced(Head(todo)))
       \/ pc = "models" /\ todo = <<>> /\ g_thread_count = 0 /\ Undefined(Indices)
    /\ pc' = "undefined"
    /\ UNCHANGED <<listVars, g_thread_count, g_channel_parse_error, todo, channels,
                   instances, open, destroyed, threads, messages>>

Init ==
    /\ g_pm_map_list = <<>>
    /\ listed = FALSE
    /\ g_thread_count = 0
    /\ g_channel_parse_error = FALSE
    /\ todo = <<>>
    /\ pc = "idle"
    /\ channels = 0
    /\ instances = 0
    /\ open = {}
    /\ destroyed = {}
    /\ threads = {}
    /\ messages = 0

Done == pc \in {"stopped", "undefined"} /\ UNCHANGED vars

Next ==
    \/ \E names \in Lists(Names) :
          \E opened \in 0 .. Len(names) : ReceiveChannels(names, opened)
    \/ \E models \in Lists(Names \cup {Bad}) : ReceiveModel(models)
    \/ SkipModel
    \/ \E created \in SUBSET Indices : MapModel(created)
    \/ ModelsMapped \/ TakeDown \/ ThreadExits \/ Stop \/ GoesWrong \/ Done

Spec == Init /\ [][Next]_vars

-----------------------------------------------------------------------------
\* What a PM_CHANNEL_MAP can hold.
PmChannelMaps == [xio_handle : 1 .. channels, pm_handle : 0 .. instances,
                  task_thread : {"NULL", "valid", "joined"}, key_word : Names]

\* Every variable has the type of its C counterpart.
TypeOK ==
    /\ g_pm_map_list \in Seq(PmChannelMaps)
    /\ listed \in BOOLEAN /\ g_channel_parse_error \in BOOLEAN
    /\ g_thread_count \in 0 .. MaxLength
    /\ todo \in Seq(Names \cup {Bad})
    /\ pc \in {"idle", "models", "stopped", "undefined"}
    /\ channels \in Nat /\ instances \in Nat
    /\ open \subseteq 1 .. channels
    /\ destroyed \subseteq 1 .. instances
    /\ threads \subseteq [xio_handle : 1 .. channels, pm_handle : 1 .. instances]
    /\ messages \in 0 .. MaxMessages

\* A running thread works on an open channel and on the instance that the table
\* has for it, which has not been destroyed; and no channel has two threads.  The
\* thread keeps both pointers in local variables and is never told of a change.
ThreadsOwnWhatTheyUse ==
    /\ \A t \in threads :
          /\ t.xio_handle \in open
          /\ t.pm_handle \notin destroyed
          /\ \E m \in Maps : m.xio_handle = t.xio_handle /\ m.pm_handle = t.pm_handle
    /\ \A t, u \in threads : t.xio_handle = u.xio_handle => t = u

\* As long as every list of channels could be opened, the channels that are open
\* are those of the table: no serial line is held by a table that is gone.
ChannelsAccountedFor == ~g_channel_parse_error => open = {m.xio_handle : m \in Maps}

\* An instance is destroyed twice, or a thread joined twice, only if two channels
\* of one list name the same model, or a thread could not be created again for a
\* channel that had one: replacing and destroying are otherwise safe in any order.
SafeUnlessShared ==
    pc = "undefined" =>
        \/ \E i, j \in Indices : i # j /\ g_pm_map_list[i].key_word = g_pm_map_list[j].key_word
        \/ \E i \in Indices : g_pm_map_list[i].task_thread = "joined"

=============================================================================
