----------------------------- MODULE MpfContext -----------------------------
(***************************************************************************)
(* A media context, mpf_context.c: the terminations of a session, the      *)
(* matrix of their associations, and the bridges, multipliers and mixers   *)
(* (mpf_objects) that the media thread runs at every tick to move the      *)
(* frames.  The commands come from a session (mpf_engine_msg_process), the *)
(* ticks in between: a session stops the objects with a reset of the       *)
(* associations, or by destroying the topology, before it changes the      *)
(* terminations, and applies a new topology at the end.                    *)
(***************************************************************************)
EXTENDS Integers, Sequences, FiniteSets, SequencesExt, FiniteSetsExt

CONSTANTS Rtp,       \* terminations that carry RTP, which a session may modify
          Engines,   \* terminations of engine channels, each with its Direction
          Direction, \* Engines -> SUBSET {"SEND", "RECEIVE"}
          Capacity,  \* max_termination_count
          NULL

Terminations == Rtp \cup Engines
Slots == 0 .. Capacity - 1
NoSlot == -1

VARIABLES header,       \* Slots -> termination or NULL
          tx_count, rx_count,
          matrix,       \* the pairs of slots that are on
          count,
          slot,         \* of a termination
          direction,    \* of the audio stream of a termination
          in_ring,      \* the factory processes the context
          mpf_objects,  \* the objects of the topology
          stopped,      \* of the session: the objects have been destroyed
          member,       \* of the session: terminations it has added
          hurt          \* a termination was changed while an object used it

matrixVars == <<tx_count, rx_count, matrix>>
vars == <<header, matrixVars, count, slot, direction, in_ring, mpf_objects, stopped, member, hurt>>

Init ==
    /\ header = [s \in Slots |-> NULL]
    /\ tx_count = [s \in Slots |-> 0] /\ rx_count = [s \in Slots |-> 0]
    /\ matrix = {} /\ count = 0
    /\ slot = [t \in Terminations |-> 0]
    /\ direction = [t \in Terminations |-> IF t \in Rtp THEN {} ELSE Direction[t]]
    /\ in_ring = FALSE /\ mpf_objects = {}
    /\ stopped = FALSE /\ member = {} /\ hurt = FALSE

Used(t) == \E object \in mpf_objects : t \in object.sources \cup object.sinks
-----------------------------------------------------------------------------
(* The counters are of a byte. *)
Matrix == [on |-> matrix, tx |-> tx_count, rx |-> rx_count]

Counted(count_of, pairs, end, sign) ==
    [s \in Slots |-> (count_of[s] + sign * Cardinality({p \in pairs : p[end] = s})) % 256]

Switch(m, pairs, on) ==
    LET sign == IF on THEN 1 ELSE -1
    IN  [on |-> IF on THEN m.on \cup pairs ELSE m.on \ pairs,
         tx |-> Counted(m.tx, pairs, 1, sign), rx |-> Counted(m.rx, pairs, 2, sign)]

Assign(m) == matrix' = m.on /\ tx_count' = m.tx /\ rx_count' = m.rx

Present == {s \in Slots : header[s] # NULL}

PairsOf(s) == {p \in matrix : s \in {p[1], p[2]} /\ {p[1], p[2]} \subseteq Present}
-----------------------------------------------------------------------------
(* mpf_context_termination_add: the first free slot; the first termination *)
(* brings the context into the ring.  A full context refuses.              *)
TerminationAdd(t) ==
    /\ stopped /\ t \notin member
    /\ member' = member \cup {t}
    /\ \E d \in IF t \in Rtp THEN SUBSET {"SEND", "RECEIVE"} ELSE {Direction[t]} :
          direction' = [direction EXCEPT ![t] = d]
    /\ IF Present = Slots
       THEN UNCHANGED <<header, tx_count, rx_count, slot, count, in_ring>>
       ELSE LET s == Min(Slots \ Present)
            IN  /\ header' = [header EXCEPT ![s] = t]
                /\ tx_count' = [tx_count EXCEPT ![s] = 0]
                /\ rx_count' = [rx_count EXCEPT ![s] = 0]
                /\ slot' = [slot EXCEPT ![t] = s]
                /\ count' = count + 1
                /\ in_ring' = TRUE
    /\ hurt' = (hurt \/ Used(t))
    /\ UNCHANGED <<matrix, mpf_objects, stopped>>

(* mpf_termination_modify, of an RTP termination *)
TerminationModify(t) ==
    /\ stopped /\ t \in member \cap Rtp
    /\ \E d \in SUBSET {"SEND", "RECEIVE"} : direction' = [direction EXCEPT ![t] = d]
    /\ hurt' = (hurt \/ Used(t))
    /\ UNCHANGED <<header, matrixVars, count, slot, in_ring, mpf_objects, stopped, member>>

(* whether the context holds the termination *)
InContext(t) == slot[t] \in Slots /\ header[slot[t]] = t

(* mpf_context_termination_subtract *)
TerminationSubtract(t) ==
    /\ stopped /\ t \in member
    /\ member' = member \ {t}
    /\ IF InContext(t)
       THEN /\ Assign(Switch(Matrix, PairsOf(slot[t]), FALSE))
            /\ header' = [header EXCEPT ![slot[t]] = NULL]
            /\ slot' = [slot EXCEPT ![t] = NoSlot]
            /\ count' = count - 1
            /\ in_ring' = (count' # 0)
       ELSE UNCHANGED <<header, matrixVars, slot, count, in_ring>>
    /\ hurt' = (hurt \/ Used(t))
    /\ UNCHANGED <<direction, mpf_objects, stopped>>

(* stream_direction_compatibility_check: a stream that receives from the   *)
(* network or an engine is a source, one that sends is a sink.             *)
Compatible(source, sink) == "RECEIVE" \in direction[source] /\ "SEND" \in direction[sink]

(* mpf_context_association_add *)
AssociationAdd(t1, t2) ==
    /\ stopped /\ t1 \in member \cap Rtp /\ t2 \in member \cap Engines
    /\ InContext(t1) /\ InContext(t2)
    /\ LET pairs == (IF Compatible(t1, t2) THEN {<<slot[t1], slot[t2]>>} ELSE {})
                        \cup (IF Compatible(t2, t1) THEN {<<slot[t2], slot[t1]>>} ELSE {})
       IN  Assign(Switch(Matrix, pairs \ matrix, TRUE))
    /\ UNCHANGED <<header, count, slot, direction, in_ring, mpf_objects, stopped, member, hurt>>

(* mpf_context_association_remove *)
AssociationRemove(t1, t2) ==
    /\ stopped /\ t1 \in member \cap Rtp /\ t2 \in member \cap Engines
    /\ InContext(t1) /\ InContext(t2)
    /\ Assign(Switch(Matrix, matrix \cap {<<slot[t1], slot[t2]>>, <<slot[t2], slot[t1]>>}, FALSE))
    /\ UNCHANGED <<header, count, slot, direction, in_ring, mpf_objects, stopped, member, hurt>>

(* mpf_context_associations_reset, row by row: a row whose counts are zero *)
(* is passed over, and a pair is reset in the row of its lower slot.       *)
ResetRow(m, s) ==
    IF s \notin Present \/ (m.tx[s] = 0 /\ m.rx[s] = 0) THEN m
    ELSE Switch(m, {p \in m.on : /\ s = Min({p[1], p[2]}) /\ {p[1], p[2]} \subseteq Present}, FALSE)

AssociationsReset ==
    /\ Assign(FoldLeft(ResetRow, Matrix, [n \in 1 .. Capacity |-> n - 1]))
    /\ mpf_objects' = {}
    /\ stopped' = TRUE
    /\ UNCHANGED <<header, count, slot, direction, in_ring, member, hurt>>

(* mpf_context_topology_destroy *)
TopologyDestroy ==
    /\ mpf_objects' = {}
    /\ stopped' = TRUE
    /\ UNCHANGED <<header, matrixVars, count, slot, direction, in_ring, member, hurt>>
-----------------------------------------------------------------------------
Object(kind, sources, sinks) ==
    [kind |-> kind, sources |-> {header[s] : s \in sources}, sinks |-> {header[s] : s \in sinks}]

SinksOf(s) == {j \in Present : <<s, j>> \in matrix}
SourcesOf(s) == {i \in Present : <<i, s>> \in matrix}

(* mpf_context_bridge_create: a sink with several sources has a mixer      *)
(* instead.                                                                *)
BridgeAlways(s) == \A j \in SinksOf(s) : TRUE
BridgeAllowed(s) == \A j \in SinksOf(s) : rx_count[j] <= 1

(* mpf_context_topology_apply *)
TopologyApply ==
    /\ mpf_objects' =
          {Object("bridge", {s}, SinksOf(s)) : s \in {i \in Present : tx_count[i] = 1 /\ BridgeAllowed(i)}}
          \cup {Object("multiplier", {s}, SinksOf(s)) : s \in {i \in Present : tx_count[i] > 1}}
          \cup {Object("mixer", SourcesOf(s), {s}) : s \in {i \in Present : rx_count[i] > 1}}
    /\ stopped' = FALSE
    /\ UNCHANGED <<header, matrixVars, count, slot, direction, in_ring, member, hurt>>

Next ==
    \/ \E t \in Terminations : TerminationAdd(t) \/ TerminationModify(t) \/ TerminationSubtract(t)
    \/ \E t1 \in Rtp, t2 \in Engines : AssociationAdd(t1, t2) \/ AssociationRemove(t1, t2)
    \/ AssociationsReset \/ TopologyDestroy \/ TopologyApply

Spec == Init /\ [][Next]_vars
-----------------------------------------------------------------------------
(* The header, the matrix and the slots of a context have their types. *)
TypeOK ==
    /\ header \in [Slots -> Terminations \cup {NULL}]
    /\ tx_count \in [Slots -> 0 .. 255] /\ rx_count \in [Slots -> 0 .. 255]
    /\ matrix \subseteq Slots \X Slots
    /\ count \in 0 .. Capacity
    /\ slot \in [Terminations -> Slots \cup {NoSlot}]

(* The counts in the header are those of the matrix, pairs join slots that *)
(* hold a termination, and the context is in the ring of the factory       *)
(* exactly while it has terminations.  Counts are never reset as a whole:  *)
(* a single pair left behind in a slot would be taken for an association   *)
(* of the next termination that gets the slot.                             *)
CountsMatch ==
    /\ \A s \in Slots : /\ header[s] # NULL => /\ tx_count[s] = Cardinality({p \in matrix : p[1] = s})
                                               /\ rx_count[s] = Cardinality({p \in matrix : p[2] = s})
                        /\ header[s] # NULL => slot[header[s]] = s
    /\ \A p \in matrix : {p[1], p[2]} \subseteq Present
    /\ count = Cardinality(Present)
    /\ in_ring = (count > 0)

(* Types and CountsMatch: the context of mpf_context.c is consistent.      *)
ContextConsistent == TypeOK /\ CountsMatch

(* The media thread never runs an object on a termination that is not in   *)
(* the context, and no termination is added, modified or subtracted while  *)
(* an object uses it.                                                      *)
ObjectsAreLive ==
    /\ ~hurt
    /\ \A t \in Terminations : Used(t) => InContext(t)
    /\ mpf_objects # {} => in_ring

(* With the topology applied every association of two terminations is      *)
(* carried by some object, and no stream is read or written by two: a      *)
(* frame is moved once in a tick.                                          *)
CarriedOnce ==
    ~stopped =>
        /\ \A p \in matrix : \E object \in mpf_objects :
              header[p[1]] \in object.sources /\ header[p[2]] \in object.sinks
        /\ \A a, b \in mpf_objects :
              a # b => a.sources \cap b.sources = {} /\ a.sinks \cap b.sinks = {}
=============================================================================
