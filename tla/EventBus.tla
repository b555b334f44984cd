------------------------------- MODULE EventBus -------------------------------
(***************************************************************************)
(* The event bus of yma-events: a tokio broadcast channel, a task per      *)
(* filtered subscription that copies what matches into a channel of its    *)
(* own, and a task per published event that persists it.                   *)
(*                                                                         *)
(* A broadcast channel keeps its last Capacity values; a receiver that is  *)
(* further behind is told it lags and goes on at the oldest one kept.      *)
(* What the registered handlers are for is not modelled: nothing calls     *)
(* them.                                                                   *)
(***************************************************************************)
EXTENDS Naturals, Sequences, SequencesExt, FiniteSets, FiniteSetsExt, Lists

CONSTANTS
  Events,                 (* the events that are published, [type,         *)
                          (* source, priority]                             *)
  EventFilters,           (* [event_types, sources, min_priority]; NoFilter*)
                          (* for a condition that is not set               *)
  NoFilter,
  Subscribers,            (* subscribers through subscribe_filtered        *)
  Capacity,               (* of the bus, a power of two                    *)
  FilteredCapacity,       (* of a filtered subscription's channel          *)
  MaxPublished            (* bound on the events published                 *)

\* A broadcast channel has room for a value: with none its making panics.
ASSUME BusBounds ==
  /\ {Capacity, FilteredCapacity} \subseteq Nat \ {0}
  /\ MaxPublished \in Nat

VARIABLES
  sent,                   (* the events the bus's channel has been sent    *)
  persisting,             (* positions in sent with a persistence task     *)
  history,                (* MemoryPersistence: positions in sent          *)
  sub                     (* sub[s]: the filtered subscription, or NoSub   *)

busVars == <<sent, persisting, history, sub>>

NoSub == [open |-> FALSE]

BusInit ==
  /\ sent = <<>>
  /\ persisting = {}
  /\ history = <<>>
  /\ sub = [s \in Subscribers |-> NoSub]

Subscribed == {s \in Subscribers : sub[s].open}

-----------------------------------------------------------------------------
(***************************************************************************)
(* EventFilter::matches.                                                   *)
(***************************************************************************)
PriorityValue(p) == CASE p = "Low" -> 1 [] p = "Normal" -> 2
                      [] p = "High" -> 3 [] p = "Critical" -> 4

Matches(f, e) ==
  /\ f.event_types # NoFilter => e.type \in f.event_types
  /\ f.sources # NoFilter => e.source \in f.sources
  /\ f.min_priority # NoFilter =>
       PriorityValue(e.priority) >= PriorityValue(f.min_priority)

-----------------------------------------------------------------------------
(***************************************************************************)
(* publish fails when nobody listens, and then persists nothing.           *)
(***************************************************************************)
Publish(e) ==
  /\ Subscribed # {}
  /\ Len(sent) < MaxPublished
  /\ sent' = Append(sent, e)
  /\ persisting' = persisting \cup {Len(sent) + 1}
  /\ UNCHANGED <<history, sub>>

Persist(i) ==
  /\ i \in persisting
  /\ history' = Append(history, i)
  /\ persisting' = persisting \ {i}
  /\ UNCHANGED <<sent, sub>>

\* load_history: the last to be persisted come first.
LoadHistory(f, limit) ==
  LET matching == Reverse(Retain(history,
                            {k \in DOMAIN history : Matches(f, sent[history[k]])}))
  IN  SubSeq(matching, 1, Min({limit, Len(matching)}))

-----------------------------------------------------------------------------
(***************************************************************************)
(* subscribe_filtered, and its task.  next and taken are the positions in  *)
(* the two channels the task and the subscriber read at; skipped tells     *)
(* whether either was ever told it lags.                                   *)
(***************************************************************************)
SubscribeFiltered(s, f) ==
  /\ s \notin Subscribed
  /\ sub' = [sub EXCEPT ![s] =
               [open |-> TRUE, filter |-> f, since |-> Len(sent),
                next |-> Len(sent) + 1, forwarded |-> <<>>, taken |-> 0,
                received |-> <<>>, skipped |-> FALSE]]
  /\ UNCHANGED <<sent, persisting, history>>

Oldest(length, capacity) == IF length > capacity THEN length - capacity + 1 ELSE 1

\* Mutant of Forward: the forwarding task reads on without copying in order.
ForwardFront(s) ==
  LET i == sub[s].next
  IN  /\ s \in Subscribed
      /\ i <= Len(sent) /\ i >= Oldest(Len(sent), Capacity)
      /\ sub' = [sub EXCEPT ![s].next = i + 1,
                            ![s].forwarded = IF Matches(sub[s].filter, sent[i])
                                             THEN <<i>> \o @ ELSE @]
      /\ UNCHANGED <<sent, persisting, history>>

Forward(s) ==
  LET i == sub[s].next
  IN  /\ s \in Subscribed
      /\ i <= Len(sent) /\ i >= Oldest(Len(sent), Capacity)
      /\ sub' = [sub EXCEPT ![s].next = i + 1,
                            ![s].forwarded = IF Matches(sub[s].filter, sent[i])
                                             THEN Append(@, i) ELSE @]
      /\ UNCHANGED <<sent, persisting, history>>

ForwardLags(s) ==
  /\ s \in Subscribed
  /\ sub[s].next < Oldest(Len(sent), Capacity)
  /\ sub' = [sub EXCEPT ![s].next = Oldest(Len(sent), Capacity),
                        ![s].skipped = TRUE]
  /\ UNCHANGED <<sent, persisting, history>>

Receive(s) ==
  LET n == sub[s].taken + 1
      oldest == Oldest(Len(sub[s].forwarded), FilteredCapacity)
  IN  /\ s \in Subscribed
      /\ n <= Len(sub[s].forwarded)
      /\ sub' = IF n < oldest
                THEN [sub EXCEPT ![s].taken = oldest - 1, ![s].skipped = TRUE]
                ELSE [sub EXCEPT ![s].taken = n,
                                 ![s].received = Append(@, sub[s].forwarded[n])]
      /\ UNCHANGED <<sent, persisting, history>>

BusNext ==
  \/ \E e \in Events : Publish(e)
  \/ \E i \in persisting : Persist(i)
  \/ \E s \in Subscribers : \/ \E f \in EventFilters : SubscribeFiltered(s, f)
                            \/ Forward(s)
                            \/ ForwardLags(s)
                            \/ Receive(s)

-----------------------------------------------------------------------------
Subscription ==
  [open : {TRUE}, filter : EventFilters, since : Nat, next : Nat, forwarded : Seq(Nat),
   taken : Nat, received : Seq(Nat), skipped : BOOLEAN]

BusTypeOK ==
  /\ sent \in Seq(Events)
  /\ persisting \subseteq DOMAIN sent
  /\ history \in Seq(DOMAIN sent)
  /\ sub \in [Subscribers -> {NoSub} \cup Subscription]
  /\ \A s \in Subscribed :
       /\ sub[s].next \in sub[s].since + 1 .. Len(sent) + 1
       /\ sub[s].taken \in 0 .. Len(sub[s].forwarded)

\* What the filter of a subscription wants of the events published since it was
\* made and before its task's position.
Wanted(r, published) ==
  {i \in r.since + 1 .. r.next - 1 : Matches(r.filter, published[i])}

\* A filtered subscriber gets, in the order of publication and once each, events
\* its filter wants; the ones it misses it misses because it or its task lagged:
\* without that it has got the first of them, and all once it has read on.
FilteredDelivery ==
  \A s \in Subscribed :
    LET got    == sub[s].received
        wanted == Wanted(sub[s], sent)
    IN  /\ \A a, b \in DOMAIN got : a < b => got[a] < got[b]
        /\ ToSet(got) \subseteq wanted
        /\ ~sub[s].skipped =>
             \A i \in wanted, b \in DOMAIN got : i <= got[b] => i \in ToSet(got)
        /\ ~sub[s].skipped /\ sub[s].taken = Len(sub[s].forwarded) =>
             ToSet(got) = wanted

\* Every event that was published is in the history once, or still has the task
\* that persists it.  The history is in the order those tasks ran, which need not
\* be the order of publication, and it answers with those that match: all of them,
\* unless that is as many as were asked for or more.
HistoryComplete ==
  /\ ToSet(history) \cup persisting = DOMAIN sent
  /\ Len(history) + Cardinality(persisting) = Len(sent)
  /\ \A f \in EventFilters, limit \in 0 .. MaxPublished :
       LET loaded == LoadHistory(f, limit)
       IN  /\ \A k \in DOMAIN loaded : Matches(f, sent[loaded[k]])
           /\ Len(loaded) < limit =>
                ToSet(loaded) = {i \in ToSet(history) : Matches(f, sent[i])}

\* What the bus promises: filtered subscriptions lose, repeat and reorder nothing
\* but when they lag, and the history of what was published is complete, though
\* not in order.
BusDelivers == FilteredDelivery /\ HistoryComplete

(***************************************************************************)
(* What the proof in ServiceProofs needs: what the task copied is what the *)
(* filter wants, in order and, unless it lagged, all of it; and what was   *)
(* received was copied before the position the subscriber reads at.        *)
(***************************************************************************)
Ascending(list) == \A a, b \in 1..Len(list) : a < b => list[a] < list[b]

CopiedInOrder(r, published) ==
  /\ Ascending(r.forwarded)
  /\ \A a \in 1..Len(r.forwarded) : r.forwarded[a] \in Wanted(r, published)
  /\ r.skipped = FALSE =>
       \A i \in Wanted(r, published) : \E a \in 1..Len(r.forwarded) : r.forwarded[a] = i

ReadInOrder(r) ==
  /\ Ascending(r.received)
  /\ \A a \in 1..Len(r.received) : \E b \in 1..r.taken : r.received[a] = r.forwarded[b]
  /\ r.skipped = FALSE =>
       /\ Len(r.received) = r.taken
       /\ \A a \in 1..Len(r.received) : r.received[a] = r.forwarded[a]

EventsAreKept ==
  /\ ToSet(history) \cup persisting = DOMAIN sent
  /\ Len(history) + Cardinality(persisting) = Len(sent)

BusInv ==
  /\ BusTypeOK
  /\ \A s \in Subscribed : CopiedInOrder(sub[s], sent) /\ ReadInOrder(sub[s])
  /\ EventsAreKept

BusSpec == BusInit /\ [][BusNext]_busVars
=============================================================================
