---------------------------- MODULE WalletPubSub ----------------------------
(***************************************************************************)
(* Notifications (NUT-17), the side of the wallet: the Consumer, which has *)
(* one subscription at the mint for all of its subscribers to a topic, the *)
(* task that streams its events from a web socket or polls for them, and   *)
(* the Pubsub of its own that hands them to its subscribers.               *)
(***************************************************************************)
EXTENDS MintPubSub, FiniteSets

CONSTANTS
    Users,     \* subscribers; each subscribes at most once
    MaxFaults, \* bound on the connections that are lost and the polls that fail
    MaxTasks   \* bound on the events that wait for their task

VARIABLES
    remote,   \* remote_subscriptions: [name, total], None without an entry
    names,    \* how many names new_name has given
    user,     \* subscriptions, and the channels of inner_pubsub
    ctrl,     \* stream_ctrl: [chan: none, open or closed, msgs]
    cache,    \* cached_events
    loop,     \* Consumer::stream
    local,    \* inner_pubsub: how many tasks there are for each event
    failed    \* history: a message could not be sent to the stream

consumer == <<remote, names, user, ctrl, cache, loop, local, failed>>

pubSubVars == <<mintSide, consumer>>

NoUser == [pc |-> "new", previous |-> <<>>, chan |-> <<>>, latest |-> None, got |-> {}]

NoCtrl == [chan |-> "none", msgs |-> <<>>]

ConsumerInit ==
    /\ PubSubInit
    /\ remote = None /\ names = 0
    /\ user = [u \in Users |-> NoUser]
    /\ ctrl = NoCtrl
    /\ cache = None
    /\ loop = [pc |-> "loop", topics |-> {}, answer |-> 0, stream_supported |-> TRUE,
               retry |-> FALSE, faults |-> 0]
    /\ local = [e \in States |-> 0]
    /\ failed = FALSE

(***************************************************************************)
(* The Consumer.                                                           *)
(***************************************************************************)
(* message_to_stream: there may be no stream to tell, and one that has     *)
(* ended is an error.                                                      *)
MessageToStream(messages) ==
    ctrl' = IF ctrl.chan = "open" THEN [ctrl EXCEPT !.msgs = @ \o messages] ELSE ctrl


Previous == IF cache = None THEN <<>> ELSE <<cache>>

(* Consumer::subscribe, under its locks.  When the stream can not be told, *)
(* it returns an error and the new entry stays.                            *)
Subscribe(u) ==
    /\ user[u].pc = "new"
    /\ \/ /\ remote # None
          /\ remote' = [remote EXCEPT !.total = @ + 1]
          /\ user' = [user EXCEPT ![u] = [NoUser EXCEPT !.pc = "on", !.previous = Previous]]
          /\ UNCHANGED <<names, ctrl, failed>>
       \/ /\ remote = None
          /\ names < MaxNames
          /\ names' = names + 1
          /\ remote' = [name |-> names + 1, total |-> 1]
          /\ MessageToStream(<<Request("Subscribe", names + 1)>>)
          /\ failed' = (failed \/ ctrl.chan = "closed")
          /\ user' = [user EXCEPT ![u].pc = IF ctrl.chan = "closed" THEN "failed" ELSE "on"]
    /\ UNCHANGED <<mintSide, cache, loop, local>>

(* Mutant: the last subscriber does not count.                             *)
UnsubscribedMutant == IF remote.total <= 2 THEN None ELSE [remote EXCEPT !.total = @ - 1]

Unsubscribed == IF remote.total <= 1 THEN None ELSE [remote EXCEPT !.total = @ - 1]

(* The subscriber is dropped: unsubscribe.  The last one takes the cached  *)
(* event with it, and as there is no other topic the stream is stopped.    *)
Unsubscribe(u) ==
    /\ user[u].pc = "on"
    /\ user' = [user EXCEPT ![u] = [NoUser EXCEPT !.pc = "off"]]
    /\ remote' = IF remote = None THEN None ELSE Unsubscribed
    /\ IF remote # None /\ remote' = None
       THEN /\ cache' = None
            /\ MessageToStream(<<Request("Unsubscribe", remote.name), Request("Stop", None)>>)
            /\ failed' = (failed \/ ctrl.chan = "closed")
       ELSE UNCHANGED <<cache, ctrl, failed>>
    /\ UNCHANGED <<mintSide, names, loop, local>>

(* InternalRelay::send: the event is cached, and published in the wallet.  *)
Relay(e) ==
    /\ local[e] < MaxTasks
    /\ cache' = e
    /\ local' = [local EXCEPT ![e] = @ + 1]

(* publish_internal of inner_pubsub.                                       *)
PublishLocal(e) ==
    /\ local[e] > 0
    /\ local' = [local EXCEPT ![e] = @ - 1]
    /\ user' = [u \in Users |-> IF user[u].pc = "on" THEN Send(user[u], e) ELSE user[u]]
    /\ note' = [note EXCEPT !.lost = @ \/ \E u \in Users : user[u].pc = "on" /\ Full(user[u], e)]
    /\ UNCHANGED <<state, spawned, subs, socket, remote, names, ctrl, cache, loop, failed>>

(* RemoteActiveConsumer::recv.                                             *)
Recv(u) ==
    /\ user[u].pc = "on"
    /\ \/ /\ user[u].previous # <<>>
          /\ user' = [user EXCEPT ![u].previous = Tail(@), ![u].got = @ \cup {Head(user[u].previous)}]
       \/ /\ user[u].previous = <<>> /\ user[u].chan # <<>>
          /\ user' = [user EXCEPT ![u].chan = Tail(@), ![u].got = @ \cup {Head(user[u].chan)}]
    /\ UNCHANGED <<mintSide, remote, names, ctrl, cache, loop, local, failed>>

(***************************************************************************)
(* Consumer::stream, with the stream and the poll of SubscriptionClient.   *)
(***************************************************************************)
Topics == IF remote = None THEN {} ELSE {remote.name}

Go(pc) == loop' = [loop EXCEPT !.pc = pc]

(* A turn of the loop: with subscriptions the stream is opened, unless it  *)
(* is not supported or failed a short time ago (retry_at is to come).      *)
Turn ==
    /\ loop.pc = "loop" /\ remote # None
    /\ \/ loop.stream_supported /\ Go("open")
       \/ (~loop.stream_supported \/ loop.retry) /\ Go("poll")
    /\ UNCHANGED <<mintSide, remote, names, user, ctrl, cache, local, failed>>

OpenCtrl ==
    /\ loop.pc = "open"
    /\ ctrl' = [chan |-> "open", msgs |-> <<>>]
    /\ Go("topics")
    /\ UNCHANGED <<mintSide, remote, names, user, cache, local, failed>>

(* The subscriptions there are: current_subscriptions.                     *)
Current == Topics

ReadTopics ==
    /\ loop.pc = "topics"
    /\ loop' = [loop EXCEPT !.pc = "connect", !.topics = Current]
    /\ UNCHANGED <<mintSide, remote, names, user, ctrl, cache, local, failed>>

(* The connection begins with a request for each subscription.  A mint     *)
(* that can not be connected to counts as one that does not support it.    *)
Connect ==
    /\ loop.pc = "connect"
    /\ socket' = [up |-> TRUE, in |-> IF loop.topics = {} THEN <<>>
                                      ELSE <<Request("Subscribe", CHOOSE n \in loop.topics : TRUE)>>,
                  out |-> <<>>]
    /\ subs' = [n \in Names |-> NoSub]
    /\ Go("stream")
    /\ UNCHANGED <<state, spawned, note, remote, names, user, ctrl, cache, local, failed>>

(* stream_client returns, and its receiver of messages is gone.            *)
StreamEnds(next) ==
    /\ loop' = next
    /\ ctrl' = [chan |-> "closed", msgs |-> <<>>]
    /\ socket' = Down
    /\ subs' = [n \in Names |-> NoSub]

ConnectFails ==
    /\ loop.pc = "connect"
    /\ StreamEnds([loop EXCEPT !.pc = "ended", !.stream_supported = FALSE])
    /\ UNCHANGED <<state, spawned, note, remote, names, user, cache, local, failed>>

ConnectionLost ==
    /\ loop.pc = "stream" /\ loop.faults < MaxFaults
    /\ StreamEnds([loop EXCEPT !.pc = "ended", !.faults = @ + 1])
    /\ UNCHANGED <<state, spawned, note, remote, names, user, cache, local, failed>>

(* A message of the consumer.                                              *)
HandleCtrl ==
    /\ loop.pc = "stream" /\ ctrl.msgs # <<>>
    /\ IF Head(ctrl.msgs).kind = "Stop"
       THEN StreamEnds([loop EXCEPT !.pc = "ended"])
       ELSE /\ socket' = [socket EXCEPT !.in = Append(@, Head(ctrl.msgs))]
            /\ ctrl' = [ctrl EXCEPT !.msgs = Tail(@)]
            /\ UNCHANGED <<loop, subs>>
    /\ UNCHANGED <<state, spawned, note, remote, names, user, cache, local, failed>>

(* A message of the mint: an error ends the stream.                        *)
HandleMessage ==
    /\ loop.pc = "stream" /\ socket.out # <<>>
    /\ LET m == Head(socket.out)
       IN  \/ /\ m.kind = "error"
              /\ StreamEnds([loop EXCEPT !.pc = "ended", !.retry = TRUE])
              /\ UNCHANGED <<cache, local>>
           \/ /\ m.kind = "event"
              /\ Relay(m.event)
              /\ socket' = [socket EXCEPT !.out = Tail(@)]
              /\ UNCHANGED <<loop, ctrl, subs>>
    /\ UNCHANGED <<state, spawned, note, remote, names, user, failed>>

(* The sender to the stream is removed.                                    *)
TakeCtrl ==
    /\ loop.pc = "ended"
    /\ ctrl' = NoCtrl
    /\ Go("poll")
    /\ UNCHANGED <<mintSide, remote, names, user, cache, local, failed>>

(* The poll: the mint is asked for the subscriptions there are, and the    *)
(* answer is relayed.                                                      *)
Poll ==
    /\ loop.pc = "poll"
    /\ loop' = IF Current = {} THEN [loop EXCEPT !.pc = "loop"]
               ELSE [loop EXCEPT !.pc = "answer", !.answer = state]
    /\ UNCHANGED <<mintSide, remote, names, user, ctrl, cache, local, failed>>

PollFails ==
    /\ loop.pc = "poll" /\ loop.faults < MaxFaults
    /\ loop' = [loop EXCEPT !.pc = "loop", !.faults = @ + 1]
    /\ UNCHANGED <<mintSide, remote, names, user, ctrl, cache, local, failed>>

PollRelays ==
    /\ loop.pc = "answer"
    /\ Relay(loop.answer)
    /\ loop' = [loop EXCEPT !.pc = "loop", !.answer = 0]
    /\ UNCHANGED <<mintSide, remote, names, user, ctrl, failed>>

StreamSteps ==
    \/ Turn \/ OpenCtrl \/ ReadTopics \/ Connect \/ HandleCtrl \/ HandleMessage \/ TakeCtrl
    \/ Poll \/ PollRelays

PubSubNext ==
    \/ Publish /\ UNCHANGED consumer
    \/ MintSteps /\ UNCHANGED consumer
    \/ StreamSteps
    \/ ConnectFails \/ ConnectionLost \/ PollFails
    \/ \E e \in States : PublishLocal(e)
    \/ \E u \in Users : Subscribe(u) \/ Unsubscribe(u) \/ Recv(u)

PubSubSpec == ConsumerInit /\ [][PubSubNext]_pubSubVars

(* The tasks of the mint and of the wallet run, and a subscriber goes on   *)
(* receiving.                                                              *)
PubSubFairSpec ==
    /\ PubSubSpec
    /\ WF_pubSubVars(MintSteps /\ UNCHANGED consumer)
    /\ WF_pubSubVars(StreamSteps)
    /\ WF_pubSubVars(\E e \in States : PublishLocal(e))
    /\ WF_pubSubVars(\E u \in Users : Recv(u))

-----------------------------------------------------------------------------
(* The subscription at the mint is counted once for every subscriber, so   *)
(* that it ends with the last of them, unless subscribe has failed because *)
(* the stream was about to end.                                            *)
CountsItsUsers ==
    failed \/ Cardinality({u \in Users : user[u].pc = "on"}) = IF remote = None THEN 0 ELSE remote.total

=============================================================================
