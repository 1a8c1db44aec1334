----------------------------- MODULE N10nBroker -----------------------------
(***************************************************************************)
(* The in-memory notification broker (pkg/in10nmem) and the sessions that  *)
(* use it: the n10n processor (pkg/processors/n10n) creates a channel per  *)
(* "subscribe and watch" request, watches it and cleans it up, while other *)
(* requests subscribe the channel to more keys or unsubscribe it, and      *)
(* command processors and actualizers update offsets.                      *)
(***************************************************************************)
EXTENDS Naturals, Sequences, FiniteSets, FiniteSetsExt

CONSTANTS
    Channels,        \* channel IDs; an ID is used once
    Keys,            \* projection keys
    ZeroKey,         \* the key Subscribe uses in the place of a key
    SubjectOf,       \* the login that opens a channel
    Clients,         \* clients; each waits for the answer to its request
    ChannelOf,       \* the channel the requests of a client are about
    MaxRequests,     \* bound on the requests of a client
    MaxKeyOffset,    \* bound on the offsets of a key
    EventsSize,      \* eventsChannelSize
    MaxChannels, MaxChannelsPerSubject,            \* quotas
    MaxSubscriptions, MaxSubscriptionsPerSubject

Subjects == {SubjectOf[c] : c \in Channels}

ASSUME BrokerAssumption ==
    /\ ZeroKey \in [Keys -> Keys]
    /\ ChannelOf \in [Clients -> Channels]
    /\ IsFiniteSet(Channels) /\ IsFiniteSet(Keys)
    /\ MaxKeyOffset \in Nat /\ MaxRequests \in Nat
    /\ EventsSize \in Nat \ {0}
    /\ {MaxChannels, MaxChannelsPerSubject, MaxSubscriptions,
        MaxSubscriptionsPerSubject} \subseteq Nat

VARIABLES
    offset,          \* *offsetPointer of a projection
    known,           \* the keys of nb.projections
    subscriptions,   \* channel.subscriptions
    delivered,       \* subscription.deliveredOffset
    channels,        \* the keys of nb.channels
    terminated,      \* channels with channel.terminated
    numChannels,     \* metricType.numChannelsPerSubject
    numSubject,      \* metricType.numSubscriptionsPerSubject
    numSubscriptions,
    events,          \* nb.events, the keys of the projections
    toSubscribe,     \* projection.toSubscribe: "on" a channel, "off" nil
    subscribed,      \* projection.subscribedChannels
    cchan,           \* channels whose cchan holds a value
    toNotify,        \* channels the notifier has yet to notify of its event
    session,         \* where the goroutine of a channel is: "new", "subscribe",
                     \* "watch", "deliver", "cleanup", "unsubscribe", "done"
    todo,            \* the keys it has yet to subscribe or unsubscribe
    made,            \* the number of requests a client has made
    call             \* the rest of a call of Subscribe, Unsubscribe or Update

quotaVars == <<numChannels, numSubject, numSubscriptions>>
notifierVars == <<events, toSubscribe, subscribed, cchan, toNotify>>
brokerVars == <<offset, known, subscriptions, delivered, channels, terminated,
          quotaVars, notifierVars, session, todo, made, call>>

Callers ==
    [kind : {"session"}, chan : Channels]
        \cup [kind : {"client"}, name : Clients]
        \cup [kind : {"publisher"}, key : Keys]

Session(c) == [kind |-> "session", chan |-> c]
Client(x) == [kind |-> "client", name |-> x]
Publisher(k) == [kind |-> "publisher", key |-> k]
Subscribers == {t \in Callers : t.kind # "publisher"}
Channel(t) == IF t.kind = "session" THEN t.chan ELSE ChannelOf[t.name]

\* at: "none", or what is left of the call: "mark" writes to toSubscribe,
\* "send" sends the event.
NoCall == [at |-> "none", key |-> CHOOSE k \in Keys : TRUE, on |-> FALSE]

BrokerInit ==
    /\ offset = [k \in Keys |-> 0]
    /\ known = {}
    /\ subscriptions = [c \in Channels |-> {}]
    /\ delivered = [c \in Channels |-> [k \in Keys |-> 0]]
    /\ channels = {} /\ terminated = {}
    /\ numChannels = [s \in Subjects |-> 0]
    /\ numSubject = [s \in Subjects |-> 0]
    /\ numSubscriptions = 0
    /\ events = <<>>
    /\ toSubscribe = [k \in Keys |-> [c \in Channels |-> "none"]]
    /\ subscribed = [k \in Keys |-> {}]
    /\ cchan = {} /\ toNotify = {}
    /\ session = [c \in Channels |-> "new"]
    /\ todo = [c \in Channels |-> {}]
    /\ made = [x \in Clients |-> 0]
    /\ call = [t \in Callers |-> NoCall]

-----------------------------------------------------------------------------
(* Subscribe, Unsubscribe and Update: a part under the broker's lock, a    *)
(* write to toSubscribe under the projection's lock, and a send that may   *)
(* block.                                                                  *)

Free(t) == call[t].at = "none"

CanSubscribeMutant(c) ==  \* Mutated form: a terminated channel is not refused.
    /\ c \in channels
    /\ numSubscriptions < MaxSubscriptions
    /\ numSubject[SubjectOf[c]] < MaxSubscriptionsPerSubject

\* The checks of Subscribe, in any order: the first that fails is returned.
CanSubscribe(c) ==
    /\ c \in channels
    /\ c \notin terminated
    /\ numSubscriptions < MaxSubscriptions
    /\ numSubject[SubjectOf[c]] < MaxSubscriptionsPerSubject

SubscribeLocked(t, c, key) ==
    LET k == ZeroKey[key]
    IN  /\ CanSubscribe(c)
        /\ known' = known \cup {k}
        /\ IF k \in subscriptions[c]
           THEN UNCHANGED <<subscriptions, delivered, numSubject, numSubscriptions>>
           ELSE /\ subscriptions' = [subscriptions EXCEPT ![c] = @ \cup {k}]
                /\ delivered' = [delivered EXCEPT ![c][k] = 0]
                /\ numSubject' = [numSubject EXCEPT ![SubjectOf[c]] = @ + 1]
                /\ numSubscriptions' = numSubscriptions + 1
        /\ call' = [call EXCEPT ![t] = [at |-> "mark", key |-> k, on |-> TRUE]]

UnsubscribeLocked(t, c, k) ==
    /\ c \in channels
    /\ IF k \in subscriptions[c]
       THEN /\ subscriptions' = [subscriptions EXCEPT ![c] = @ \ {k}]
            /\ numSubject' = [numSubject EXCEPT ![SubjectOf[c]] = @ - 1]
            /\ numSubscriptions' = numSubscriptions - 1
       ELSE UNCHANGED <<subscriptions, numSubject, numSubscriptions>>
    /\ call' = IF k \in known
               THEN [call EXCEPT ![t] = [at |-> "mark", key |-> k, on |-> FALSE]]
               ELSE call

Mark(t) ==
    /\ call[t].at = "mark"
    /\ toSubscribe' = [toSubscribe EXCEPT ![call[t].key][Channel(t)] =
                          IF call[t].on THEN "on" ELSE "off"]
    /\ call' = [call EXCEPT ![t].at = "send"]
    /\ UNCHANGED <<offset, known, subscriptions, delivered, channels,
                   terminated, quotaVars, events, subscribed, cchan, toNotify,
                   session, todo, made>>

Send(t) ==
    /\ call[t].at = "send"
    /\ Len(events) < EventsSize
    /\ events' = Append(events, call[t].key)
    /\ call' = [call EXCEPT ![t] = NoCall]
    /\ UNCHANGED <<offset, known, subscriptions, delivered, channels,
                   terminated, quotaVars, toSubscribe, subscribed, cchan,
                   toNotify, session, todo, made>>

Update(k) ==
    /\ Free(Publisher(k))
    /\ offset[k] < MaxKeyOffset
    /\ offset' = [offset EXCEPT ![k] = @ + 1]
    /\ known' = known \cup {k}
    /\ call' = [call EXCEPT ![Publisher(k)] = [at |-> "send", key |-> k, on |-> FALSE]]
    /\ UNCHANGED <<subscriptions, delivered, channels, terminated, quotaVars,
                   notifierVars, session, todo, made>>

-----------------------------------------------------------------------------
(* The notifier. *)

\* The subscriptions of a projection after toSubscribe has been merged.
Merged(k) ==
    {c \in Channels : \/ toSubscribe[k][c] = "on"
                      \/ toSubscribe[k][c] = "none" /\ c \in subscribed[k]}

NotifierTakesMutant ==  \* Mutated form: the channels to notify are read too early.
    /\ toNotify = {}
    /\ events # <<>>
    /\ LET k == Head(events)
       IN  /\ subscribed' = [subscribed EXCEPT ![k] = Merged(k)]
           /\ toSubscribe' = [toSubscribe EXCEPT ![k] = [c \in Channels |-> "none"]]
           /\ toNotify' = subscribed[k]
    /\ events' = Tail(events)
    /\ UNCHANGED <<offset, known, subscriptions, delivered, channels, terminated,
                   quotaVars, cchan, session, todo, made, call>>

NotifierTakes ==
    /\ toNotify = {}
    /\ events # <<>>
    /\ LET k == Head(events)
       IN  /\ subscribed' = [subscribed EXCEPT ![k] = Merged(k)]
           /\ toSubscribe' = [toSubscribe EXCEPT ![k] = [c \in Channels |-> "none"]]
           /\ toNotify' = Merged(k)
    /\ events' = Tail(events)
    /\ UNCHANGED <<offset, known, subscriptions, delivered, channels,
                   terminated, quotaVars, cchan, session, todo, made, call>>

NotifierSignalsMutant(c) ==  \* Mutated form: a send without a default case.
    /\ c \in toNotify \ cchan
    /\ toNotify' = toNotify \ {c}
    /\ cchan' = cchan \cup {c}
    /\ UNCHANGED <<offset, known, subscriptions, delivered, channels, terminated,
                   quotaVars, events, toSubscribe, subscribed, session, todo,
                   made, call>>

\* A channel that holds a value already is left as it is.
NotifierSignals(c) ==
    /\ c \in toNotify
    /\ toNotify' = toNotify \ {c}
    /\ cchan' = cchan \cup {c}
    /\ UNCHANGED <<offset, known, subscriptions, delivered, channels,
                   terminated, quotaVars, events, toSubscribe, subscribed,
                   session, todo, made, call>>

-----------------------------------------------------------------------------
(* The session of a channel: subscribeAndWatchPipeline, the goroutine of   *)
(* watchChannel, and cleanupChannel.                                       *)

Goes(c, stage) == session' = [session EXCEPT ![c] = stage]

NewChannel(c) ==
    LET s == SubjectOf[c]
    IN  /\ session[c] = "new"
        /\ IF Cardinality(channels) < MaxChannels /\ numChannels[s] < MaxChannelsPerSubject
           THEN /\ channels' = channels \cup {c}
                /\ numChannels' = [numChannels EXCEPT ![s] = @ + 1]
                /\ \E K \in SUBSET Keys \ {{}} : todo' = [todo EXCEPT ![c] = K]
                /\ Goes(c, "subscribe")
           ELSE /\ Goes(c, "done")
                /\ UNCHANGED <<channels, numChannels, todo>>
        /\ UNCHANGED <<offset, known, subscriptions, delivered, terminated,
                       numSubject, numSubscriptions, notifierVars, made,
                       call>>

SessionSubscribes(c) ==
    /\ session[c] = "subscribe"
    /\ Free(Session(c))
    /\ \E key \in todo[c] :
          \/ /\ SubscribeLocked(Session(c), c, key)
             /\ todo' = [todo EXCEPT ![c] = @ \ {key}]
             /\ UNCHANGED session
          \/ /\ ~CanSubscribe(c)
             /\ Goes(c, "cleanup")  \* channelCleanupOnErr
             /\ UNCHANGED <<known, subscriptions, delivered, numSubject,
                            numSubscriptions, call, todo>>
    /\ UNCHANGED <<offset, channels, terminated, numChannels, notifierVars,
                   made>>

\* The client gets to know its channel ID here, or the write to it fails.
SendChannelID(c) ==
    /\ session[c] = "subscribe" /\ todo[c] = {}
    /\ Free(Session(c))
    /\ Goes(c, "watch") \/ Goes(c, "cleanup")
    /\ UNCHANGED <<offset, known, subscriptions, delivered, channels,
                   terminated, quotaVars, notifierVars, todo, made, call>>

\* The watch ends when the channel is older than channelDuration; it is looked
\* at here only, so that it may have happened says it all.
WatchTakes(c) ==
    /\ session[c] = "watch"
    /\ c \in cchan
    /\ cchan' = cchan \ {c}
    /\ Goes(c, "deliver") \/ Goes(c, "cleanup")
    /\ UNCHANGED <<offset, known, subscriptions, delivered, channels,
                   terminated, quotaVars, events, toSubscribe, subscribed,
                   toNotify, todo, made, call>>

WatchDeliversMutant(c) ==  \* Mutated form: the next watch starts without the offsets.
    /\ session[c] = "deliver"
    /\ Goes(c, "watch") \/ Goes(c, "cleanup")
    /\ UNCHANGED <<offset, known, subscriptions, delivered, channels,
                   terminated, quotaVars, notifierVars, todo, made, call>>

\* The offsets that have grown are taken under the lock and passed on; when
\* the client cannot be reached the watch ends.
WatchDelivers(c) ==
    /\ session[c] = "deliver"
    /\ delivered' = [delivered EXCEPT ![c] =
                        [k \in Keys |-> IF k \in subscriptions[c] /\ offset[k] > @[k]
                                        THEN offset[k] ELSE @[k]]]
    /\ Goes(c, "watch") \/ Goes(c, "cleanup")
    /\ UNCHANGED <<offset, known, subscriptions, channels, terminated,
                   quotaVars, notifierVars, todo, made, call>>

\* The context of the request is done.
WatchLeaves(c) ==
    /\ session[c] = "watch"
    /\ Goes(c, "cleanup")
    /\ UNCHANGED <<offset, known, subscriptions, delivered, channels,
                   terminated, quotaVars, notifierVars, todo, made, call>>

CleanupTerminates(c) ==
    /\ session[c] = "cleanup"
    /\ Free(Session(c))
    /\ terminated' = terminated \cup {c}
    /\ todo' = [todo EXCEPT ![c] = subscriptions[c]]
    /\ Goes(c, "unsubscribe")
    /\ UNCHANGED <<offset, known, subscriptions, delivered, channels,
                   quotaVars, notifierVars, made, call>>

CleanupUnsubscribes(c) ==
    /\ session[c] = "unsubscribe"
    /\ Free(Session(c))
    /\ \E k \in todo[c] :
          /\ UnsubscribeLocked(Session(c), c, k)
          /\ todo' = [todo EXCEPT ![c] = @ \ {k}]
    /\ UNCHANGED <<offset, known, delivered, channels, terminated,
                   numChannels, notifierVars, session, made>>

CleanupEnds(c) ==
    /\ session[c] = "unsubscribe" /\ todo[c] = {}
    /\ Free(Session(c))
    /\ channels' = channels \ {c}
    /\ numChannels' = [numChannels EXCEPT ![SubjectOf[c]] = @ - 1]
    /\ Goes(c, "done")
    /\ UNCHANGED <<offset, known, subscriptions, delivered, terminated,
                   numSubject, numSubscriptions, notifierVars, todo, made,
                   call>>

-----------------------------------------------------------------------------
(* Other requests for the channel: subscribeExtraPipeline and              *)
(* unsubscribePipeline.  Clients that are refused change nothing.         *)

Announced(c) == session[c] \in {"watch", "deliver", "cleanup", "unsubscribe"}

Requests(x) ==
    /\ made[x] < MaxRequests
    /\ made' = [made EXCEPT ![x] = @ + 1]
    /\ Announced(ChannelOf[x])
    /\ Free(Client(x))

ClientSubscribes(x) ==
    /\ Requests(x)
    /\ \E key \in Keys : SubscribeLocked(Client(x), ChannelOf[x], key)
    /\ UNCHANGED <<offset, channels, terminated, numChannels, notifierVars,
                   session, todo>>

ClientUnsubscribes(x) ==
    /\ Requests(x)
    /\ \E k \in Keys : UnsubscribeLocked(Client(x), ChannelOf[x], k)
    /\ UNCHANGED <<offset, known, delivered, channels, terminated,
                   numChannels, notifierVars, session, todo>>

-----------------------------------------------------------------------------
SessionNext(c) ==
    \/ NewChannel(c) \/ SessionSubscribes(c) \/ SendChannelID(c)
    \/ WatchTakes(c) \/ WatchDelivers(c)
    \/ CleanupTerminates(c) \/ CleanupUnsubscribes(c) \/ CleanupEnds(c)

BrokerNext ==
    \/ NotifierTakes
    \/ \E c \in Channels : NotifierSignals(c) \/ SessionNext(c) \/ WatchLeaves(c)
    \/ \E x \in Clients : ClientSubscribes(x) \/ ClientUnsubscribes(x)
    \/ \E k \in Keys : Update(k)
    \/ \E t \in Callers : Send(t)
    \/ \E t \in Subscribers : Mark(t)

NotifierStep == NotifierTakes \/ \E c \in Channels : NotifierSignals(c)

\* The goroutine of a caller: one of these at a time.
CallerStep(t) ==
    \/ Send(t)
    \/ t \in Subscribers /\ Mark(t)
    \/ t.kind = "session" /\ SessionNext(t.chan)

\* Goroutines go on.  A sender to a full channel gets its turn: requests and
\* updates are bounded, so that weak fairness says it.
BrokerFairness ==
    WF_brokerVars(NotifierStep) /\ \A t \in Callers : WF_brokerVars(CallerStep(t))

BrokerSpec == BrokerInit /\ [][BrokerNext]_brokerVars /\ BrokerFairness

-----------------------------------------------------------------------------
(* Properties. *)

\* The channel is being prepared for a watch, or watched.
Watching(c) == session[c] \in {"subscribe", "watch", "deliver"}

\* An event for the projection is queued or about to be queued.
EventComes(k) ==
    \/ \E i \in 1..Len(events) : events[i] = k
    \/ \E t \in Callers : call[t].at = "send" /\ call[t].key = k

SubscriptionComes(c, k) ==
    \E t \in Subscribers : /\ Channel(t) = c
                           /\ call[t].at = "mark" /\ call[t].key = k /\ call[t].on

\* No wake-up is lost (select with default in notifier; toSubscribe merged
\* later than channel.subscriptions is written): a watched channel that is
\* behind the offset of a key has a value in cchan, or is going to get one.
WakeUpIsOnItsWay ==
    \A c \in Channels : Watching(c) =>
        \A k \in subscriptions[c] : offset[k] > delivered[c][k] =>
            \/ c \in cchan \cup toNotify
            \/ session[c] = "deliver"
            \/ SubscriptionComes(c, k)
            \/ c \in Merged(k) /\ EventComes(k)

\* The quotas count what exists: cleanupChannel gives back every subscription,
\* those that other requests add or remove while it runs included.
QuotasAreReturned ==
    /\ \A s \in Subjects :
          /\ numChannels[s] = Cardinality({c \in channels : SubjectOf[c] = s})
          /\ numSubject[s] = Cardinality({p \in Channels \X Keys :
                                SubjectOf[p[1]] = s /\ p[2] \in subscriptions[p[1]]})
    /\ numSubscriptions = Cardinality({p \in Channels \X Keys : p[2] \in subscriptions[p[1]]})
    /\ \A c \in Channels \ channels : subscriptions[c] = {}

\* cleanupChannel ends, although it sends an event for every subscription to a
\* channel of limited size.
CleanupReturns ==
    []<>(\A c \in Channels : session[c] \notin {"cleanup", "unsubscribe"})

Delivery == INSTANCE Notifications

\* "It is guaranteed that the client is eventually notified about the latest
\* offset" (in10n/interface.go): the broker's threads together do that.
ImplementsNotifications == Delivery!Spec
=============================================================================
