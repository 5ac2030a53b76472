------------------------------ MODULE AudioParam ------------------------------
(***************************************************************************)
(* An AudioParam's automation, src/runtime/nxjs/source/audio-graph.cc: the *)
(* time-sorted list of events, the calls that change it and the walk that  *)
(* gives the value at a time.                                              *)
(*                                                                         *)
(* Arithmetic is left symbolic: a value inside a ramp, a decay or a curve  *)
(* is the shape it is on with its ends and how far along it is.  Clamping  *)
(* to the parameter's range is left out, being the last thing done.        *)
(***************************************************************************)
EXTENDS Integers, SequencesExt

CONSTANTS
  Values,    \* the values set
  MaxTime,   \* bound: times of events, and of the clock
  CurveTime, \* duration of a value curve
  MaxEvents  \* bound: events in the list

\* What the model asks of its constants.
ParamAssumption ==
  /\ Values \subseteq Nat /\ Values # {}
  /\ MaxTime \in Nat /\ CurveTime \in Nat \ {0} /\ MaxEvents \in Nat

VARIABLES
  base,   \* nx_audio_param::value
  events, \* nx_audio_param::events
  now,    \* currentTime of the graph
  latest  \* the latest call

vars == <<base, events, now, latest>>

Ramps == {"linear", "exponential"}
Targets == {"target", "jump"} \* a "jump" is a target with a time constant of 0 or less
Types == Ramps \cup Targets \cup {"set", "curve"}
Times == 0..MaxTime
Call(op, type, time, value) == [op |-> op, type |-> type, time |-> time, value |-> value]

(* Values: a number, or a point `done` along the way between two.          *)
At(n) == <<"at", n>>
On(shape, from, to, done, whole) == <<shape, from, to, done, whole>>

-----------------------------------------------------------------------------
(* param_value_at, from the i-th event on: `v` is the value the events     *)
(* before it left and `anchor` the time they left it at.                   *)

(* Toward a ramp that ends after t.                                        *)
Ramp(e, v, anchor, t) ==
  IF e.type = "linear"
  THEN IF e.time <= anchor THEN At(e.value)
       ELSE IF t <= anchor THEN v ELSE On("linear", v, e.value, t - anchor, e.time - anchor)
  ELSE IF v = At(0) \/ e.time <= anchor \/ t <= anchor THEN v
       ELSE On("exponential", v, e.value, t - anchor, e.time - anchor)

(* A target's value at the time its hold ends.                             *)
Decay(e, v, until) ==
  IF e.type = "jump" THEN At(e.value)
  ELSE IF until = e.time THEN v ELSE On("target", v, e.value, until - e.time, 0)

TakesLater(e, t) == e.time < t \* mutant: an event at exactly t does not take over
Takes(e, t) == e.time <= t

RECURSIVE ValueFrom(_, _, _, _, _)
ValueFrom(evs, i, v, anchor, t) ==
  IF i > Len(evs) THEN v
  ELSE LET e == evs[i]
       IN  CASE ~Takes(e, t) -> IF e.type \in Ramps THEN Ramp(e, v, anchor, t) ELSE v
             [] Takes(e, t) /\ e.type \in Ramps \cup {"set"} ->
                  ValueFrom(evs, i + 1, At(e.value), e.time, t)
             [] Takes(e, t) /\ e.type = "curve" ->
                  IF t < e.time + CurveTime THEN On("curve", At(0), e.value, t - e.time, CurveTime)
                  ELSE ValueFrom(evs, i + 1, At(e.value), e.time + CurveTime, t)
             [] Takes(e, t) /\ e.type \in Targets ->
                  IF i < Len(evs) /\ Takes(evs[i + 1], t)
                  THEN ValueFrom(evs, i + 1, Decay(e, v, evs[i + 1].time), evs[i + 1].time, t)
                  ELSE Decay(e, v, t)

ValueAt(evs, start, t) == ValueFrom(evs, 1, At(start), 0, t)

-----------------------------------------------------------------------------
(* param_insert_event: a "set" takes the place of a "set" at its time, and *)
(* anything else goes behind the events of its time.                       *)
SameSet(e) == {i \in 1..Len(events) :
                 e.type = "set" /\ events[i].type = "set" /\ events[i].time = e.time}
Behind(e) == Cardinality({i \in 1..Len(events) : events[i].time <= e.time})
InsertedAlways(e) == InsertAt(events, Behind(e) + 1, e) \* mutant: nothing is replaced
InsertedLast(e) == Append(events, e) \* mutant: as they come
Inserted(e) ==
  IF SameSet(e) # {} THEN [i \in 1..Len(events) |-> IF i \in SameSet(e) THEN e ELSE events[i]]
  ELSE InsertAt(events, Behind(e) + 1, e)

Event(type, time, value) == [type |-> type, time |-> time, value |-> value]

Schedule(type, time, value) ==
  /\ Len(events) < MaxEvents
  /\ events' = Inserted(Event(type, time, value))
  /\ latest' = Call("schedule", type, time, value)
  /\ UNCHANGED <<base, now>>

(* The setter of `value`: with automation, a "set" now.                    *)
SetBaseOnly(value) == UNCHANGED events \* mutant
SetNow(value) ==
  IF events = <<>> THEN UNCHANGED events ELSE events' = Inserted(Event("set", now, value))
SetValue(value) ==
  /\ Len(events) < MaxEvents
  /\ base' = value
  /\ SetNow(value)
  /\ latest' = Call("setValue", "set", now, value)
  /\ UNCHANGED now

CancelledAfter(time) == SelectSeq(events, LAMBDA e : e.time <= time) \* mutant
Cancelled(time) == SelectSeq(events, LAMBDA e : e.time < time)
Cancel(time) ==
  /\ events # <<>>
  /\ events' = Cancelled(time)
  /\ latest' = Call("cancel", "none", time, 0)
  /\ UNCHANGED <<base, now>>

Tick ==
  /\ now < MaxTime
  /\ now' = now + 1
  /\ latest' = Call("tick", "none", now, 0)
  /\ UNCHANGED <<base, events>>

Init ==
  /\ base = CHOOSE v \in Values : \A w \in Values : v <= w
  /\ events = <<>>
  /\ now = 0
  /\ latest = Call("tick", "none", 0, 0)

Next ==
  \/ \E type \in Types, time \in Times, value \in Values : Schedule(type, time, value)
  \/ \E value \in Values : SetValue(value)
  \/ \E time \in Times : Cancel(time)
  \/ Tick

Spec == Init /\ [][Next]_vars

-----------------------------------------------------------------------------
(* The walk relies on the order: events stay sorted by time, with one      *)
(* "set" at a time (audio-graph.cc:123-139).                               *)
TimelineSorted ==
  /\ \A i \in 1..(Len(events) - 1) : events[i].time <= events[i + 1].time
  /\ \A i, j \in 1..Len(events) :
       events[i].type = "set" /\ events[j].type = "set" /\ events[i].time = events[j].time
         => i = j

(* "Setting .value with scheduled automation behaves like                  *)
(* setValueAtTime(value, currentTime)" (audio-graph.cc:538-547): what is   *)
(* read back is the value set, but in a value curve, which has its whole   *)
(* duration, and next to an event of another kind at this very time.       *)
SetIsHeard ==
  [][latest'.op = "setValue" =>
       \/ \E i \in 1..Len(events) : events[i].type = "curve"
                                      /\ now \in events[i].time..(events[i].time + CurveTime)
       \/ \E i \in 1..Len(events) : events[i].type # "set" /\ events[i].time = now
       \/ ValueAt(events', base', now) = At(latest'.value)]_vars

(* An event takes effect at its time: scheduling one behind all others     *)
(* that does not ramp leaves every earlier value as it was, and a ramp     *)
(* arrives at its value at its time (audio-graph.cc:29-108).               *)
EventsTakeEffectInTime ==
  [][latest'.op = "schedule" /\ (\A i \in 1..Len(events) : events[i].time < latest'.time) =>
       IF latest'.type \in Ramps
       THEN \/ \E i \in 1..Len(events) : events[i].type = "curve"
                                           /\ latest'.time < events[i].time + CurveTime
            \/ ValueAt(events', base', latest'.time) = At(latest'.value)
       ELSE \A t \in Times : t < latest'.time =>
              ValueAt(events', base', t) = ValueAt(events, base, t)]_vars

(* Cancelling from a time on leaves no event there, and no earlier value   *)
(* changes but one that was on its way to a cancelled ramp                 *)
(* (audio-graph.cc:574-581).                                               *)
CancelKeepsThePast ==
  [][latest'.op = "cancel" =>
       /\ \A i \in 1..Len(events') : events'[i].time < latest'.time
       /\ \A t \in Times : t < latest'.time =>
            \/ ValueAt(events', base', t) = ValueAt(events, base, t)
            \/ \E i \in 1..Len(events) : events[i].type \in Ramps
                                           /\ events[i].time >= latest'.time]_vars

(* The timeline of a parameter says what the calls asked for: setting,     *)
(* scheduling and cancelling change the values they should and no others   *)
(* (audio-graph.cc:29-139, 538-581).                                       *)
TimelineKept ==
  []TimelineSorted /\ SetIsHeard /\ EventsTakeEffectInTime /\ CancelKeepsThePast
=============================================================================
