----------------------------- MODULE MintPubSub -----------------------------
(***************************************************************************)
(* Notifications (NUT-17), the side of the mint: Pubsub, its subscribers,  *)
(* and the web socket of one client.                                       *)
(*                                                                         *)
(* There is one topic, a quote say, whose state only grows; an event is    *)
(* the state it reports.  Every event is handed to the subscribers by a    *)
(* task of its own, and so is the state a new subscriber is sent first.    *)
(* The task of a subscription passes its events on to the socket; it is    *)
(* not stopped when the client unsubscribes or goes away, and what it      *)
(* passes on from then on is ignored.                                      *)
(***************************************************************************)
EXTENDS Naturals, Sequences

CONSTANTS
    Last,      \* the final state; the first one is 0
    MaxNames,  \* bound on the subscriptions of the client
    None,
    Capacity   \* of every channel of events

ASSUME PubSubAssumption == Last \in Nat /\ Capacity \in Nat \ {0} /\ MaxNames \in Nat /\ None \notin Nat

VARIABLES
    state,    \* the row in the database
    spawned,  \* events whose task has not run yet
    subs,     \* the subscriptions of the connection, and those it had
    socket,   \* [up, in, out]: the connection, requests and messages on it
    note      \* history: [late, lost], events out of order, events dropped

mintSide == <<state, spawned, subs, socket, note>>

States == 0 .. Last

(* The names that the client gives to its subscriptions.                   *)
Names == 1 .. MaxNames

NoSub == [on |-> FALSE, known |-> FALSE, fetch |-> "none", fetched |-> 0, latest |-> None,
          highest |-> 0, chan |-> <<>>]

Down == [up |-> FALSE, in |-> <<>>, out |-> <<>>]

PubSubInit ==
    /\ state = 0
    /\ spawned = {}
    /\ subs = [n \in Names |-> NoSub]
    /\ socket = Down
    /\ note = [late |-> FALSE, lost |-> FALSE]

(***************************************************************************)
(* Subscriber::send: an event that repeats the latest is suppressed, and   *)
(* one that finds the channel full is dropped.                             *)
(***************************************************************************)
Send(sub, e) ==
    IF sub.latest = e THEN sub
    ELSE [sub EXCEPT !.latest = e, !.chan = IF Len(@) < Capacity THEN Append(@, e) ELSE @]

Full(sub, e) == sub.latest # e /\ Len(sub.chan) = Capacity

(* The subscriptions ns of a table are sent an event, some of them after a *)
(* later one perhaps.                                                      *)
SendTo(table, ns, e) ==
    /\ subs' = [n \in Names |->
           IF n \in ns THEN [Send(table[n], e) EXCEPT !.highest = IF e > @ THEN e ELSE @]
           ELSE table[n]]
    /\ note' = [late |-> note.late \/ \E n \in ns : table[n].highest > e,
                lost |-> note.lost \/ \E n \in ns : Full(table[n], e)]

(***************************************************************************)
(* Events.                                                                 *)
(***************************************************************************)
(* The quote is paid, or issued: the row changes, and publish spawns the   *)
(* task that hands the event out.                                          *)
Publish ==
    /\ state < Last
    /\ state' = state + 1
    /\ spawned' = spawned \cup {state + 1}
    /\ UNCHANGED <<subs, socket, note>>

(* publish_internal: every subscriber in the index gets the event.         *)
PublishInternal(e) ==
    /\ e \in spawned
    /\ spawned' = spawned \ {e}
    /\ SendTo(subs, {n \in Names : subs[n].on}, e)
    /\ UNCHANGED <<state, socket>>

(* subscribe_with: the subscriber is put into the index, and the task that *)
(* fetches the state is spawned.                                           *)
SubscribeWith(sub) == [NoSub EXCEPT !.on = TRUE, !.known = TRUE, !.fetch = "read"]

(* fetch_events: the state is read, and sent some time after.              *)
ReadState(n) ==
    /\ subs[n].fetch = "read"
    /\ subs' = [subs EXCEPT ![n].fetch = "send", ![n].fetched = state]
    /\ UNCHANGED <<state, spawned, socket, note>>

SendState(n) ==
    /\ subs[n].fetch = "send"
    /\ SendTo([subs EXCEPT ![n].fetch = "none"], {n}, subs[n].fetched)
    /\ UNCHANGED <<state, spawned, socket>>

(***************************************************************************)
(* main_websocket.                                                         *)
(***************************************************************************)
Request(kind, n) == [kind |-> kind, name |-> n]
Message(kind, e) == [kind |-> kind, event |-> e]

(* A name that is in use, or one that is not, is answered with an error;   *)
(* the answer to the others means nothing to the client.                   *)
ProcessRequest ==
    /\ socket.up /\ socket.in # <<>>
    /\ LET r  == Head(socket.in)
           ok == subs[r.name].known <=> r.kind = "Unsubscribe"
       IN  /\ socket' = [socket EXCEPT !.in = Tail(@),
                                       !.out = IF ok THEN @ ELSE Append(@, Message("error", None))]
           /\ subs' = IF ~ok THEN subs
                      ELSE IF r.kind = "Subscribe" THEN [subs EXCEPT ![r.name] = SubscribeWith(@)]
                      ELSE [subs EXCEPT ![r.name].known = FALSE]
    /\ UNCHANGED <<state, spawned, note>>

(* The task of subscription n takes an event off its channel; the loop of  *)
(* the socket sends it, if it knows the subscription.                      *)
Notify(n) ==
    /\ subs[n].chan # <<>>
    /\ subs' = [subs EXCEPT ![n].chan = Tail(@)]
    /\ socket' = IF subs[n].known
                 THEN [socket EXCEPT !.out = Append(@, Message("event", Head(subs[n].chan)))]
                 ELSE socket
    /\ UNCHANGED <<state, spawned, note>>

MintSteps ==
    \/ \E e \in spawned : PublishInternal(e)
    \/ \E n \in Names : ReadState(n) \/ SendState(n) \/ Notify(n)
    \/ ProcessRequest
=============================================================================
