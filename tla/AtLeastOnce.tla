---------------------------- MODULE AtLeastOnce ----------------------------
(***************************************************************************)
(* What the event pipeline promises: an entry the consumer group has       *)
(* accepted is settled, that is never looked at again, only once it is     *)
(* durable, or excused: trimmed from the stream, or not an event at all.   *)
(* Nothing durable is taken back.                                          *)
(***************************************************************************)
VARIABLES
  accepted,  \* entries published since the group exists
  excused,   \* entries nobody can or need store
  durable,   \* entries whose event is stored
  settled    \* entries the group will not deliver any more

avars == <<accepted, excused, durable, settled>>

Init == accepted = {} /\ excused = {} /\ durable = {} /\ settled = {}

\* An entry arrives; old entries may be trimmed for it.  It is durable already
\* when it repeats an event that was stored.
Publish ==
  /\ accepted \subseteq accepted'
  /\ excused \subseteq excused'
  /\ durable \subseteq durable'
  /\ settled' = settled

Persist ==
  /\ durable \subseteq durable'
  /\ UNCHANGED <<accepted, excused, settled>>

Settle ==
  /\ settled \subseteq settled'
  /\ settled' \ settled \subseteq accepted \cap (durable \cup excused)
  /\ UNCHANGED <<accepted, excused, durable>>

Next == Publish \/ Persist \/ Settle

Spec == Init /\ [][Next]_avars

=============================================================================
