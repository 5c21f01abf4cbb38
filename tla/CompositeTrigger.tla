-------------------------- MODULE CompositeTrigger --------------------------
(***************************************************************************)
(* core/trigger and core/desired: the MongoDB triggers and listings of     *)
(* several collections put together.                                       *)
(*                                                                         *)
(* CompositeTrigger.Start runs one MongoTrigger.Start per collection, all  *)
(* of them under one derived context, and returns when all have returned.  *)
(* The first child that fails cancels the others; a child whose stream     *)
(* ends without an error is not noticed by anybody.                        *)
(***************************************************************************)
EXTENDS SourceConsumer

VARIABLES
  trigger,   \* the composite's Start: "off", "on", "returned" or "gone"
  firstErr,  \* a child has failed, and the derived context is cancelled
  watch,     \* watch[c]: where the child of a collection is
  feed,      \* feed[c]: changes its stream has not delivered yet
  held       \* held[c]: the event it blocks on sending

compositeVars == <<trigger, firstErr, watch, feed, held>>

Children == 1 .. Collections
Changed  == [host : Hosts, to : Routes \cup {Refused}, lookup : BOOLEAN]

-----------------------------------------------------------------------------
(* Helpers. *)

\* Mutant: the failure of a child does not concern the others.
ChildCancelledMutant == ~live

\* The context that the children share.
ChildCancelled == ~live \/ firstErr

\* A change as MapEvent sees it.
Seen(chg) == IF chg.lookup THEN routes[chg.host] ELSE chg.to

ChildPending(c) ==
  {feed[c][i].host : i \in DOMAIN feed[c]}
    \cup {e.host : e \in {held[c]} \ {NoEvent}}

CompositePending == UNION {ChildPending(c) : c \in Children}

\* A child's Start returns, and its stream is closed.
ChildReturns(c) ==
  /\ watch' = [watch EXCEPT ![c] = "back"]
  /\ feed' = [feed EXCEPT ![c] = <<>>]
  /\ held' = [held EXCEPT ![c] = NoEvent]
  /\ missed' = missed \cup ChildPending(c)

-----------------------------------------------------------------------------
(* The documents change.  An open stream records it. *)

ChangeDocument(h, v, lookup) ==
  LET c == CollectionOf[h]
  IN  /\ provider = "mongodb"
      /\ changes > 0
      /\ v # routes[h]
      /\ lookup => v # Absent /\ routes[h] # Absent
      /\ changes' = changes - 1
      /\ routes' = [routes EXCEPT ![h] = v]
      /\ IF watch[c] \in {"open", "sending"}
           THEN /\ feed' = [feed EXCEPT ![c] =
                              Append(@, [host |-> h, to |-> v, lookup |-> lookup])]
                /\ UNCHANGED missed
           ELSE /\ missed' = missed \cup {h}
                /\ UNCHANGED feed
      /\ UNCHANGED <<provider, served, term, live, main, read, listed, faults,
                     trigger, firstErr, watch, held>>

-----------------------------------------------------------------------------
(* The composite and its children. *)

StartChildren ==
  /\ provider = "mongodb"
  /\ main = "select"
  /\ trigger = "off"
  /\ trigger' = "on"
  /\ watch' = [c \in Children |-> "opening"]
  /\ UNCHANGED <<consumerVars, firstErr, feed, held>>

OpenStream(c) ==
  /\ watch[c] = "opening"
  /\ watch' = [watch EXCEPT ![c] = "open"]
  /\ UNCHANGED <<consumerVars, trigger, firstErr, feed, held>>

\* MapEvent of the next change, which skips an update of a document that is
\* gone.
Deliver(c) ==
  /\ watch[c] = "open"
  /\ feed[c] # <<>>
  /\ LET chg  == Head(feed[c])
         skip == chg.lookup /\ Seen(chg) = Absent
     IN  /\ Seen(chg) # Refused
         /\ held' = [held EXCEPT ![c] =
                       IF skip THEN NoEvent
                       ELSE [host |-> chg.host, to |-> Seen(chg)]]
         /\ watch' = [watch EXCEPT ![c] = IF skip THEN "open" ELSE "sending"]
  /\ feed' = [feed EXCEPT ![c] = Tail(@)]
  /\ UNCHANGED <<consumerVars, trigger, firstErr>>

\* All children send on the one channel of the term.
Receive(c) ==
  /\ watch[c] = "sending"
  /\ Handles(held[c])
  /\ watch' = [watch EXCEPT ![c] = "open"]
  /\ held' = [held EXCEPT ![c] = NoEvent]
  /\ UNCHANGED <<provider, routes, term, live, main, read, listed, changes,
                 faults, missed, trigger, firstErr, feed>>

\* The stream breaks or does not open, or MapEvent refuses the next change.
ChildFails(c) ==
  /\ watch[c] \in {"opening", "open"}
  /\ ~ChildCancelled
  /\ \/ Fault
     \/ /\ feed[c] # <<>>
        /\ Seen(Head(feed[c])) = Refused
        /\ UNCHANGED faults
  /\ firstErr' = TRUE
  /\ ChildReturns(c)
  /\ UNCHANGED <<provider, routes, served, term, live, main, read, listed,
                 changes, trigger>>

\* The stream is at its end, and Start returns nil.
ChildEnds(c) ==
  /\ watch[c] = "open"
  /\ Fault
  /\ ChildReturns(c)
  /\ UNCHANGED <<provider, routes, served, term, live, main, read, listed,
                 changes, trigger, firstErr>>

\* Whatever a child returns now is not taken for a failure.
ChildStops(c) ==
  /\ watch[c] \in {"opening", "open", "sending"}
  /\ ChildCancelled
  /\ ChildReturns(c)
  /\ UNCHANGED <<provider, routes, served, term, live, main, read, listed,
                 changes, faults, trigger, firstErr>>

\* wg.Wait is over; the result, nil or not, waits in triggerErrCh.
CompositeReturns ==
  /\ trigger = "on"
  /\ \A c \in Children : watch[c] = "back"
  /\ trigger' = "returned"
  /\ UNCHANGED <<consumerVars, firstErr, watch, feed, held>>

DisableTrigger ==
  /\ main = "select"
  /\ trigger = "returned"
  /\ trigger' = "gone"
  /\ UNCHANGED <<consumerVars, firstErr, watch, feed, held>>

-----------------------------------------------------------------------------

CompositeIdle ==
  /\ trigger = "off"
  /\ firstErr = FALSE
  /\ watch = [c \in Children |-> "off"]
  /\ feed = [c \in Children |-> <<>>]
  /\ held = [c \in Children |-> NoEvent]

\* Nobody receives on the channel of the children any more.
CompositeEnds ==
  /\ trigger' = "off"
  /\ firstErr' = FALSE
  /\ watch' = [c \in Children |-> "off"]
  /\ feed' = [c \in Children |-> <<>>]
  /\ held' = [c \in Children |-> NoEvent]

CompositeTypes ==
  /\ trigger \in {"off", "on", "returned", "gone"}
  /\ firstErr \in BOOLEAN
  /\ watch \in [Children -> {"off", "opening", "open", "sending", "back"}]
  /\ feed \in [Children -> Seq(Changed)]
  /\ held \in [Children -> Events \cup {NoEvent}]

CompositeNext ==
  \/ \E h \in Hosts, v \in Routes \cup {Refused}, lookup \in BOOLEAN :
       ChangeDocument(h, v, lookup)
  \/ StartChildren
  \/ \E c \in Children : \/ OpenStream(c) \/ Deliver(c) \/ Receive(c)
                         \/ ChildFails(c) \/ ChildEnds(c) \/ ChildStops(c)
  \/ CompositeReturns
  \/ DisableTrigger
=============================================================================
