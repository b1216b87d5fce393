------------------------------ MODULE LogFeed ------------------------------
(***************************************************************************)
(* What the logging service promises (hw7.md: every logging client that    *)
(* connects receives the stream of logs): there is one feed of events; a   *)
(* subscriber joins at the feed's current end and from there sees every    *)
(* event in feed order, without gap, repetition or reordering.  Nothing is *)
(* said here of when an event is seen.                                     *)
(***************************************************************************)
EXTENDS Integers, Sequences

CONSTANTS Subscribers,  \* the clients of the feed
          Events        \* what may be published, each at most once

NotJoined == -1  \* where start has no value yet

VARIABLES feed,   \* the events published so far, in order
          start,  \* the length of the feed when a subscriber joined
          seen    \* what each subscriber was sent, in order

feedVars == <<feed, start, seen>>

FeedInit ==
  /\ feed = <<>>
  /\ start = [s \in Subscribers |-> NotJoined]
  /\ seen = [s \in Subscribers |-> <<>>]

Publish(e) ==
  /\ \A i \in DOMAIN feed : feed[i] # e
  /\ feed' = Append(feed, e)
  /\ UNCHANGED <<start, seen>>

Join(s) ==
  /\ start[s] = NotJoined
  /\ start' = [start EXCEPT ![s] = Len(feed)]
  /\ UNCHANGED <<feed, seen>>

See(s) ==
  /\ start[s] # NotJoined
  /\ start[s] + Len(seen[s]) < Len(feed)
  /\ seen' = [seen EXCEPT ![s] = Append(@, feed[start[s] + Len(@) + 1])]
  /\ UNCHANGED <<feed, start>>

FeedNext ==
  \/ \E e \in Events : Publish(e)
  \/ \E s \in Subscribers : Join(s) \/ See(s)

FeedSpec == FeedInit /\ [][FeedNext]_feedVars
=============================================================================
