----------------------------- MODULE HTTPSource -----------------------------
(***************************************************************************)
(* impl/source-http: a store of routes with an API, trigger and desired    *)
(* state in one.                                                           *)
(*                                                                         *)
(* Every Start makes a channel of its own, and the handlers of POST        *)
(* /events send to whichever channel is set when they store their event.   *)
(* Start reads the field again in every turn of its loop, without the      *)
(* mutex, and resets it when it leaves.  It runs in a goroutine that       *)
(* nothing waits for: the Start of an old term may set, read and reset the *)
(* field while the one of a new term is at work.                           *)
(*                                                                         *)
(* Requests carry a host and an event type the program knows.  The log of  *)
(* events behind GET /events, which nothing else reads, is left out.       *)
(***************************************************************************)
EXTENDS SourceConsumer

CONSTANTS
  Requests,  \* the handlers of POST /events that may be at work at a time
  ChanSize   \* the capacity of a channel, 64 in the code

Calls == [event : Events, ch : 0 .. MaxTerm, later : BOOLEAN]

ASSUME HTTPAssumption ==
  /\ ChanSize \in Nat \ {0}
  /\ NoEvent \notin Calls

VARIABLES
  eventC,  \* the term whose channel HTTPSource.eventC is, 0 for nil
  chans,   \* chans[t]: the channel made by Start in term t
  start,   \* start[t]: where Start of term t is
  sel,     \* sel[t]: the channel that its select has evaluated
  fwd,     \* fwd[t]: the event it forwards
  req      \* req[r]: the event a handler has stored, and the channel it saw;
           \* history: whether a later one was stored for the host

httpVars == <<eventC, chans, start, sel, fwd, req>>

-----------------------------------------------------------------------------
(* Helpers. *)

\* The events on their way to main of the current term, oldest first.
Queue ==
  IF term = 0 THEN <<>>
  ELSE (IF fwd[term] = NoEvent THEN <<>> ELSE <<fwd[term]>>) \o chans[term]

\* The requests between storing their event and sending it to this term.
InFlight == {r \in Requests : req[r] # NoEvent /\ term # 0 /\ req[r].ch = term}

Queued == {Queue[i].host : i \in DOMAIN Queue}

HTTPPending == Queued \cup {req[r].event.host : r \in InFlight}

\* The Start of term t reads no more from its channel.
Deaf(t) == start[t] \in {"leaving", "done"} \/ (start[t] = "select" /\ sel[t] # t)

-----------------------------------------------------------------------------
(* Start. *)

StartHTTP(t) ==
  /\ provider = "http"
  /\ start[t] = "off"
  /\ t < term \/ (t = term /\ main \in {"select", "returned"})
  /\ eventC' = t
  /\ start' = [start EXCEPT ![t] = "loop"]
  /\ UNCHANGED <<consumerVars, chans, sel, fwd, req>>

\* A turn of the loop: the select evaluates s.eventC.
SelectOn(t) ==
  /\ start[t] = "loop"
  /\ start' = [start EXCEPT ![t] = "select"]
  /\ sel' = [sel EXCEPT ![t] = eventC]
  /\ missed' = IF t = term /\ eventC # t THEN missed \cup HTTPPending ELSE missed
  /\ UNCHANGED <<provider, routes, served, term, live, main, read, listed,
                 changes, faults, eventC, chans, fwd, req>>

\* The channel may be the one of another term.
TakeEvent(t) ==
  /\ start[t] = "select"
  /\ sel[t] # 0
  /\ chans[sel[t]] # <<>>
  /\ start' = [start EXCEPT ![t] = "forward"]
  /\ fwd' = [fwd EXCEPT ![t] = Head(chans[sel[t]])]
  /\ sel' = [sel EXCEPT ![t] = 0]
  /\ chans' = [chans EXCEPT ![sel[t]] = Tail(@)]
  /\ missed' = IF t = term /\ sel[t] = t THEN missed
               ELSE missed \cup {Head(chans[sel[t]]).host}
  /\ UNCHANGED <<provider, routes, served, term, live, main, read, listed,
                 changes, faults, eventC, req>>

Forward(t) ==
  /\ start[t] = "forward"
  /\ t = term
  /\ Handles(fwd[t])
  /\ start' = [start EXCEPT ![t] = "loop"]
  /\ fwd' = [fwd EXCEPT ![t] = NoEvent]
  /\ UNCHANGED <<provider, routes, term, live, main, read, listed, changes,
                 faults, missed, eventC, chans, sel, req>>

\* The context of its term is cancelled.
Leave(t) ==
  /\ start[t] \in {"select", "forward"}
  /\ t # term \/ ~live
  /\ start' = [start EXCEPT ![t] = "leaving"]
  /\ sel' = [sel EXCEPT ![t] = 0]
  /\ fwd' = [fwd EXCEPT ![t] = NoEvent]
  /\ missed' = IF t = term THEN missed \cup HTTPPending ELSE missed
  /\ UNCHANGED <<provider, routes, served, term, live, main, read, listed,
                 changes, faults, eventC, chans, req>>

\* The deferred function resets the field, whosever channel it holds.
Unset(t) ==
  /\ start[t] = "leaving"
  /\ start' = [start EXCEPT ![t] = "done"]
  /\ eventC' = 0
  /\ UNCHANGED <<consumerVars, chans, sel, fwd, req>>

-----------------------------------------------------------------------------
(* The handlers. *)

\* Mutant: an event that removes a route leaves it in the store.
StoredMutant(e) ==
  IF e.to = Absent THEN routes ELSE [routes EXCEPT ![e.host] = e.to]

\* The desired routes with an event's change.
Stored(e) == [routes EXCEPT ![e.host] = e.to]

\* handlePostEvent, under the mutex.  Handlers are interchangeable: any idle
\* one will do.
Post(r, e) ==
  /\ provider = "http" /\ term # 0
  /\ changes > 0
  /\ r = CHOOSE q \in Requests : req[q] = NoEvent
  /\ req[r] = NoEvent
  /\ changes' = changes - 1
  /\ routes' = Stored(e)
  /\ req' = [q \in Requests |->
               IF q = r THEN [event |-> e, ch |-> eventC, later |-> FALSE]
               ELSE IF req[q] # NoEvent /\ req[q].event.host = e.host
                 THEN [req[q] EXCEPT !.later = TRUE]
               ELSE req[q]]
  /\ missed' = IF eventC = term THEN missed ELSE missed \cup {e.host}
  /\ UNCHANGED <<provider, served, term, live, main, read, listed, faults,
                 eventC, chans, start, sel, fwd>>

\* Mutant: there is always room.
SentMutant(ch, e) ==
  IF ch = 0 THEN chans ELSE [chans EXCEPT ![ch] = Append(@, e)]

\* The channels after a send that never blocks.
Sent(ch, e) ==
  IF ch = 0 \/ Len(chans[ch]) = ChanSize THEN chans
  ELSE [chans EXCEPT ![ch] = Append(@, e)]

(***************************************************************************)
(* handlePostEvent, after the mutex.  The event is dropped when the        *)
(* channel is full; it has been overtaken when a later event for the host  *)
(* was stored and no other handler is still to send one.                   *)
(***************************************************************************)
Send(r) ==
  /\ req[r] # NoEvent
  /\ req' = [req EXCEPT ![r] = NoEvent]
  /\ LET e  == req[r].event
         ch == req[r].ch
         last == \A q \in InFlight \ {r} : req[q].event.host # e.host
     IN  /\ chans' = Sent(ch, e)
         /\ missed' = IF /\ r \in InFlight
                         /\ \/ Len(chans[ch]) = ChanSize
                            \/ Deaf(ch)
                            \/ req[r].later /\ last
                        THEN missed \cup {e.host} ELSE missed
  /\ UNCHANGED <<provider, routes, served, term, live, main, read, listed,
                 changes, faults, eventC, start, sel, fwd>>

\* handlePostRoute and handleDeleteRoute, which send no event.
ChangeRoute(h, v) ==
  /\ provider = "http" /\ term # 0
  /\ changes > 0
  /\ changes' = changes - 1
  /\ routes' = Stored([host |-> h, to |-> v])
  /\ missed' = missed \cup {h}
  /\ UNCHANGED <<provider, served, term, live, main, read, listed, faults,
                 httpVars>>

-----------------------------------------------------------------------------

HTTPIdle ==
  /\ eventC = 0
  /\ chans = [t \in Terms |-> <<>>]
  /\ start = [t \in Terms |-> "off"]
  /\ sel = [t \in Terms |-> 0]
  /\ fwd = [t \in Terms |-> NoEvent]
  /\ req = [r \in Requests |-> NoEvent]

\* The process dies.
HTTPEnds ==
  /\ eventC' = 0
  /\ chans' = [t \in Terms |-> <<>>]
  /\ start' = [t \in Terms |-> "off"]
  /\ sel' = [t \in Terms |-> 0]
  /\ fwd' = [t \in Terms |-> NoEvent]
  /\ req' = [r \in Requests |-> NoEvent]

HTTPTypes ==
  /\ eventC \in 0 .. MaxTerm
  /\ chans \in [Terms -> Seq(Events)]
  /\ \A t \in Terms : Len(chans[t]) <= ChanSize
  /\ start \in [Terms -> {"off", "loop", "select", "forward", "leaving", "done"}]
  /\ sel \in [Terms -> 0 .. MaxTerm]
  /\ fwd \in [Terms -> Events \cup {NoEvent}]
  /\ req \in [Requests -> Calls \cup {NoEvent}]

HTTPNext ==
  \/ \E t \in Terms : \/ StartHTTP(t) \/ SelectOn(t) \/ TakeEvent(t)
                      \/ Forward(t) \/ Leave(t) \/ Unset(t)
  \/ \E r \in Requests : Send(r) \/ \E e \in Events : Post(r, e)
  \/ \E h \in Hosts, v \in Routes : ChangeRoute(h, v)
=============================================================================
